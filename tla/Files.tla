-------------------------------- MODULE Files --------------------------------
(***************************************************************************)
(* The file manager: folders and files on the card, the list shown of one  *)
(* folder, an entry marked to be renamed, moved or deleted, and the text   *)
(* in the editor.  The list is a snapshot: a sync or an SFTP client may    *)
(* change the card behind it.  Results of network work come over alerts    *)
(* that have nothing to do with them.                                      *)
(*                                                                         *)
(* A path is the sequence of names that leads from Projects to an entry.   *)
(***************************************************************************)
EXTENDS Integers, Sequences, FiniteSets, SequencesExt

CONSTANTS
    Names, NoName,
    Listed,           \* how a row shows a name: cut after 46 characters
    Texts, Blank,     \* what files hold; a new file holds nothing
    Draft,            \* what is typed
    Folder,           \* stands for the contents of a folder
    Trees,            \* what may be on the card at first
    MaxDepth,         \* bound: folders in folders
    MaxNew,           \* bound: entries named by the user
    MaxTroubles       \* bound: rows with a cut name picked, files the card does not read or
                      \* write (all of), changes made by a sync or an SFTP client

Paths == UNION {[1..n -> Names] : n \in 1..MaxDepth}
Top   == <<>>
NoPath == <<>>
Kinds == Texts \cup {Folder}

\* Every entry is in a folder, and so is that folder, up to Projects.
IsTree(t) ==
    /\ DOMAIN t \subseteq Paths
    /\ \A p \in DOMAIN t : t[p] \in Kinds
    /\ \A p \in DOMAIN t : \A n \in 1..Len(p) - 1 :
           SubSeq(p, 1, n) \in DOMAIN t /\ t[SubSeq(p, 1, n)] = Folder

ASSUME FilesAssumption ==
    /\ NoName \notin Names /\ Listed \in [Names -> Names] /\ Folder \notin Texts
    /\ {Blank, Draft} \subseteq Texts /\ \A t \in Trees : IsTree(t)
    /\ {MaxDepth, MaxNew, MaxTroubles} \subseteq Nat

VARIABLES
    tree,                        \* the card: what is at each path
    curDir, screen,
    list,                        \* listItems: the names and kinds of the last refill
    s_manage, mgTarget, mgIsDir,
    mvSrc,
    entryCtxFS, entryCtxRename,
    have_editor, curFile, edbuf,
    due,                         \* a status result to come
    marked,                      \* history: the entry that was really picked
    home, unsaved,               \* history: where the open text belongs; it was typed in
    over, blurred,               \* history: see the properties
    news, troubles

ui     == <<list, s_manage>>
target == <<mgTarget, mgIsDir>>
entry  == <<entryCtxFS, entryCtxRename>>
mark   == <<target, marked>>
Decided == marked' = NoPath /\ UNCHANGED target
editor == <<have_editor, curFile, edbuf, home, unsaved>>
net    == <<due, over>>
bounds == <<news, troubles>>
vars   == <<tree, curDir, screen, ui, mark, mvSrc, entry, editor, net, blurred, bounds>>

TypeOK ==
    /\ IsTree(tree) /\ curDir \in Paths \cup {Top}
    /\ screen \in {"menu", "list", "manage", "confirm", "entry", "alert", "editor", "status"}
    /\ list \in SUBSET (Names \X BOOLEAN)
    /\ s_manage \in BOOLEAN /\ mgTarget \in Names \cup {NoName} /\ mgIsDir \in BOOLEAN
    /\ marked \in Paths \cup {NoPath} /\ mvSrc \in Paths \cup {NoPath}
    /\ entryCtxFS \in {"none", "file", "folder", "project"} /\ entryCtxRename \in BOOLEAN
    /\ have_editor \in BOOLEAN /\ curFile \in Names \cup {NoName} /\ edbuf \in Texts
    /\ home \in Paths \cup {NoPath} /\ unsaved \in BOOLEAN
    /\ due \in BOOLEAN /\ over \in BOOLEAN /\ blurred \in BOOLEAN
    /\ news \in 0..MaxNew /\ troubles \in 0..MaxTroubles

Init ==
    /\ tree \in Trees /\ curDir = Top /\ screen = "menu" /\ list = {}
    /\ s_manage = FALSE /\ mgTarget = NoName /\ mgIsDir = FALSE /\ marked = NoPath
    /\ mvSrc = NoPath /\ entryCtxFS = "none" /\ entryCtxRename = FALSE
    /\ have_editor = FALSE /\ curFile = NoName /\ edbuf = Blank
    /\ home = NoPath /\ unsaved = FALSE
    /\ due = FALSE /\ over = FALSE /\ blurred = FALSE
    /\ news = 0 /\ troubles = 0

-----------------------------------------------------------------------------
(* The card.                                                               *)

Exists(t, p)   == p = Top \/ p \in DOMAIN t
IsFolder(t, p) == p = Top \/ (p \in DOMAIN t /\ t[p] = Folder)
AtOrUnder(p, q) == q # NoPath /\ IsPrefix(q, p)
Keep(t, P)     == [p \in P |-> t[p]]
Put(t, p, k)   == [q \in DOMAIN t \cup {p} |-> IF q = p THEN k ELSE t[q]]

mkdir(t, p) ==
    IF Exists(t, p) \/ ~IsFolder(t, Front(p)) THEN t ELSE Put(t, p, Folder)

rm_rf(t, p) == Keep(t, {q \in DOMAIN t : ~AtOrUnder(q, p)})

\* FatFs refuses a name that is taken.  It does not see a folder go into itself: then no
\* folder leads to it any more.
rename_Bare(t, src, dst) ==                      \* mutant: what is in a folder stays behind
    IF ~Exists(t, src) \/ Exists(t, dst) \/ ~IsFolder(t, Front(dst)) THEN t
    ELSE Put(Keep(t, DOMAIN t \ {src}), dst, t[src])
rename(t, src, dst) ==
    LET Moved == {q \in DOMAIN t : AtOrUnder(q, src)}
        To(q) == dst \o SubSeq(q, Len(src) + 1, Len(q))
        From(p) == src \o SubSeq(p, Len(dst) + 1, Len(p))
    IN  IF ~Exists(t, src) \/ Exists(t, dst) \/ ~IsFolder(t, Front(dst)) THEN t
        ELSE IF AtOrUnder(dst, src) THEN rm_rf(t, src)
        ELSE [p \in {To(q) : q \in Moved} \cup (DOMAIN t \ Moved) |->
                 IF AtOrUnder(p, dst) THEN t[From(p)] ELSE t[p]]

\* Bound: no deeper.
Room(t) == \A p \in DOMAIN t : Len(p) <= MaxDepth

-----------------------------------------------------------------------------
(* The list.                                                               *)

InFolder(t, d) == {n \in Names : Append(d, n) \in DOMAIN t
                                /\ (d = Top => IsFolder(t, Append(d, n)))}
Rows_All(t, d, mv) == {<<n, IsFolder(t, Append(d, n))>> : n \in InFolder(t, d)} \* mutant
Rows(t, d, mv) ==
    {<<n, IsFolder(t, Append(d, n))>> : n \in {m \in InFolder(t, d) : Append(d, m) # mv}}

browser_refill(t, d, mv, manage) ==
    /\ tree' = t /\ curDir' = d /\ mvSrc' = mv
    /\ list' = Rows(t, d, mv) /\ s_manage' = (manage /\ list' # {})

\* The list as it is, filled anew from the card.
Refresh == browser_refill(tree, curDir, mvSrc, s_manage)
Stay    == UNCHANGED <<tree, curDir, ui, mvSrc>>

-----------------------------------------------------------------------------
(* app_enter and app_esc, SCR_MENU and SCR_LIST.                           *)

Projects ==
    /\ screen = "menu" /\ screen' = "list" /\ browser_refill(tree, Top, NoPath, FALSE)
    /\ UNCHANGED <<mark, entry, editor, net, blurred, bounds>>

\* A row stands for its name as it is listed.
Trouble == troubles < MaxTroubles /\ troubles' = troubles + 1
Picked(row) ==
    /\ screen = "list" /\ row \in list
    /\ IF Listed[row[1]] = row[1] THEN UNCHANGED <<blurred, troubles>>
       ELSE Trouble /\ blurred' = TRUE

ToggleManage ==
    /\ screen = "list" /\ list # {} /\ mvSrc = NoPath
    /\ browser_refill(tree, curDir, mvSrc, ~s_manage)
    /\ UNCHANGED <<screen, mark, entry, editor, net, blurred, bounds>>

MarkEntry(row) ==
    /\ Picked(row) /\ s_manage /\ screen' = "manage"
    /\ mgTarget' = Listed[row[1]] /\ mgIsDir' = row[2] /\ marked' = Append(curDir, row[1])
    /\ Stay /\ UNCHANGED <<entry, editor, net, news>>

EnterFolder(row) ==
    /\ Picked(row) /\ ~s_manage /\ row[2] /\ Len(curDir) < MaxDepth
    /\ browser_refill(tree, Append(curDir, Listed[row[1]]), mvSrc, FALSE)
    /\ UNCHANGED <<screen, mark, entry, editor, net, news>>

\* load_current_file: a file that is gone, or a card that does not read, gives an empty text.
OpenFile(row) ==
    LET p == Append(curDir, Listed[row[1]]) IN
    /\ ~s_manage /\ ~row[2]
    /\ \/ /\ Picked(row)
          /\ edbuf' = IF p \in DOMAIN tree /\ tree[p] # Folder THEN tree[p] ELSE Blank
       \/ /\ screen = "list" /\ row \in list /\ Listed[row[1]] = row[1]
          /\ Trouble /\ edbuf' = Blank /\ UNCHANGED blurred
    /\ screen' = "editor" /\ have_editor' = TRUE /\ curFile' = Listed[row[1]]
    /\ home' = p /\ unsaved' = FALSE /\ over' = FALSE
    /\ Stay /\ UNCHANGED <<mark, entry, due, news>>

Up(manage) ==
    IF curDir = Top THEN screen' = "menu" /\ mvSrc' = NoPath /\ UNCHANGED <<tree, curDir, ui>>
    ELSE UNCHANGED screen /\ browser_refill(tree, Front(curDir), mvSrc, manage)

\* The Back row leaves Manage first; Esc does not.
Back ==
    /\ screen = "list"
    /\ IF s_manage THEN UNCHANGED screen /\ browser_refill(tree, curDir, mvSrc, FALSE) ELSE Up(FALSE)
    /\ UNCHANGED <<mark, entry, editor, net, blurred, bounds>>
EscList ==
    /\ screen = "list" /\ Up(s_manage)
    /\ UNCHANGED <<mark, entry, editor, net, blurred, bounds>>

NewEntry(kind) ==
    /\ screen = "list" /\ mvSrc = NoPath /\ news < MaxNew /\ news' = news + 1
    /\ kind \in IF curDir = Top THEN {"project"} ELSE {"file", "folder"}
    /\ entryCtxFS' = kind /\ screen' = "entry"
    /\ Stay /\ UNCHANGED <<mark, entryCtxRename, editor, net, blurred, troubles>>

CancelMove ==
    /\ screen = "list" /\ mvSrc # NoPath /\ browser_refill(tree, curDir, NoPath, s_manage)
    /\ UNCHANGED <<screen, mark, entry, editor, net, blurred, bounds>>

\* move_finish
MoveHere ==
    LET dst == Append(curDir, mgTarget) IN
    /\ screen = "list" /\ mvSrc # NoPath /\ (curDir # Top \/ mgIsDir)
    /\ IF dst = mvSrc THEN browser_refill(tree, curDir, NoPath, s_manage) /\ UNCHANGED screen
       ELSE IF Exists(tree, dst) \/ rename(tree, mvSrc, dst) = tree
       THEN screen' = "alert" /\ Stay
       ELSE /\ Room(rename(tree, mvSrc, dst))
            /\ browser_refill(rename(tree, mvSrc, dst), curDir, NoPath, s_manage)
            /\ UNCHANGED screen
    /\ UNCHANGED <<mark, entry, editor, net, blurred, bounds>>

-----------------------------------------------------------------------------
(* SCR_NLIST: what to do with the marked entry.                            *)

ChooseRename ==
    /\ screen = "manage" /\ news < MaxNew /\ news' = news + 1
    /\ entryCtxRename' = TRUE /\ screen' = "entry"
    /\ Stay /\ Decided /\ UNCHANGED <<entryCtxFS, editor, net, blurred, troubles>>

ChooseMove ==
    /\ screen = "manage" /\ Len(curDir) < MaxDepth /\ screen' = "list"
    /\ browser_refill(tree, curDir, Append(curDir, mgTarget), FALSE)
    /\ Decided /\ UNCHANGED <<entry, editor, net, blurred, bounds>>

ChooseDelete ==
    /\ screen = "manage" /\ screen' = "confirm"
    /\ Stay /\ UNCHANGED <<mark, entry, editor, net, blurred, bounds>>

\* Cancel and Esc.
LeaveMarked ==
    /\ screen \in {"manage", "confirm"} /\ screen' = "list" /\ Refresh
    /\ Decided /\ UNCHANGED <<entry, editor, net, blurred, bounds>>

\* A file's unlink leaves a folder that is not empty alone.
Delete ==
    LET p == Append(curDir, mgTarget) IN
    /\ screen = "confirm" /\ screen' = "list"
    /\ browser_refill(IF ~mgIsDir /\ \E q \in DOMAIN tree : AtOrUnder(q, p) /\ q # p
                      THEN tree ELSE rm_rf(tree, p), curDir, mvSrc, s_manage)
    /\ Decided /\ UNCHANGED <<entry, editor, net, blurred, bounds>>

-----------------------------------------------------------------------------
(* SCR_ENTRY: a name is typed.  What it is for is what is set: a Ctrl-S    *)
(* that leaves the entry does not clear it, and files go first.            *)

Naming   == entryCtxFS' = "none" /\ UNCHANGED entryCtxRename
Renaming ==
    entryCtxFS = "none" /\ entryCtxRename /\ entryCtxRename' = FALSE /\ UNCHANGED entryCtxFS

\* Nothing typed, or Esc.
NoEntry ==
    /\ screen = "entry" /\ ((entryCtxFS # "none" /\ Naming) \/ Renaming)
    /\ screen' = "list" /\ Refresh
    /\ UNCHANGED <<mark, editor, net, blurred, bounds>>

Reserved ==
    /\ screen = "entry" /\ ((entryCtxFS # "none" /\ Naming) \/ Renaming)
    /\ screen' = "alert" /\ Stay
    /\ UNCHANGED <<mark, editor, net, blurred, bounds>>

MakeFolder(n) ==
    /\ screen = "entry" /\ entryCtxFS \in {"folder", "project"} /\ Naming
    /\ screen' = "list" /\ Len(curDir) < MaxDepth
    /\ browser_refill(IF entryCtxFS = "folder" /\ curDir # Top
                      THEN mkdir(mkdir(tree, curDir), Append(curDir, n))
                      ELSE mkdir(tree, <<n>>), curDir, mvSrc, s_manage)
    /\ UNCHANGED <<mark, editor, net, blurred, bounds>>

Rename(n) ==
    LET new == Append(curDir, n) IN
    /\ screen = "entry" /\ Renaming
    /\ IF n # mgTarget /\ Exists(tree, new) THEN screen' = "alert" /\ Stay
       ELSE /\ screen' = "list"
            /\ browser_refill(IF n = mgTarget THEN tree
                              ELSE rename(tree, Append(curDir, mgTarget), new),
                              curDir, mvSrc, s_manage)
    /\ UNCHANGED <<mark, editor, net, blurred, bounds>>

\* The same screen asks for a network's name and password.
WifiEntry ==
    /\ screen = "menu" /\ screen' = "entry"
    /\ Stay /\ UNCHANGED <<mark, entry, editor, net, blurred, bounds>>

LeaveWifi ==
    /\ screen = "entry" /\ entryCtxFS = "none" /\ ~entryCtxRename
    /\ screen' \in {"menu", "alert"}
    /\ Stay /\ UNCHANGED <<mark, entry, editor, net, blurred, bounds>>

\* save_current_file makes the folder first; the file is emptied, then written.
Writable(t, p) == IsFolder(t, Front(p)) /\ ~IsFolder(t, p)
WithFolder(t) == IF curDir = Top THEN t ELSE mkdir(t, curDir)
Saved(t, p, text) == IF Writable(t, p) THEN Put(t, p, text) ELSE t

\* The name is not looked up: what it stands for is replaced.  The result is not looked at.
MakeFile(n) ==
    LET p == Append(curDir, n) IN
    /\ screen = "entry" /\ entryCtxFS = "file" /\ Naming /\ Len(p) <= MaxDepth
    /\ screen' = "editor" /\ have_editor' = TRUE /\ curFile' = n
    /\ edbuf' = Blank /\ unsaved' = FALSE /\ home' = p /\ over' = FALSE
    /\ tree' = Saved(WithFolder(tree), p, Blank)
    /\ UNCHANGED <<curDir, ui, mvSrc, mark, due, blurred, bounds>>

-----------------------------------------------------------------------------
(* The editor, alerts, and results.                                        *)

Type ==
    /\ screen = "editor" /\ edbuf' = Draft /\ unsaved' = TRUE
    /\ Stay /\ UNCHANGED <<screen, mark, entry, have_editor, curFile, home, net, blurred, bounds>>

\* oyobyok_app_save_close: Esc in the editor, and Ctrl-S on any screen as long as a file is
\* open.  It writes into the folder shown.
Closes(text) ==
    /\ have_editor' = FALSE /\ edbuf' = Blank /\ unsaved' = FALSE /\ home' = NoPath /\ over' = FALSE
    /\ screen' = "list"
    /\ browser_refill(Saved(WithFolder(tree), Append(curDir, curFile), text), curDir, mvSrc, s_manage)
    /\ Decided /\ UNCHANGED <<entry, curFile, due, blurred, news>>
Refused ==
    /\ screen' = "alert"
    /\ Decided /\ UNCHANGED <<curDir, ui, mvSrc, entry, editor, net, blurred, news>>
CanWrite == Writable(WithFolder(tree), Append(curDir, curFile))

SaveClose_Anyway ==                              \* mutant: the result is not looked at
    have_editor /\ Closes(edbuf) /\ UNCHANGED troubles
SaveClose ==
    /\ have_editor /\ Len(Append(curDir, curFile)) <= MaxDepth
    /\ IF CanWrite THEN Closes(edbuf) ELSE Refused /\ tree' = WithFolder(tree)
    /\ UNCHANGED troubles

\* fwrite falls short on a full card, and nobody looks.
SaveCut ==
    /\ have_editor /\ Len(Append(curDir, curFile)) <= MaxDepth
    /\ CanWrite /\ edbuf # Blank /\ Trouble /\ Closes(Blank)

SaveRefused ==
    have_editor /\ Trouble /\ Refused /\ UNCHANGED tree

\* Rows of the menus outside of this module: one that says something, one that asks git for
\* the status and waits.
Says ==
    /\ screen = "menu" /\ screen' = "alert"
    /\ Stay /\ UNCHANGED <<mark, entry, editor, net, blurred, bounds>>
AskStatus ==
    /\ screen = "menu" /\ ~due /\ screen' = "alert" /\ due' = TRUE
    /\ Stay /\ UNCHANGED <<mark, entry, editor, over, blurred, bounds>>

\* Enter when it does not wait, Esc in any case.
DismissAlert ==
    /\ screen = "alert" /\ screen' = IF have_editor THEN "editor" ELSE "menu"
    /\ Stay /\ UNCHANGED <<mark, entry, editor, net, blurred, bounds>>

\* oyobyok_app_git_result: a status replaces any alert.
StatusComes ==
    /\ due /\ due' = FALSE
    /\ screen' = IF screen = "alert" THEN "status" ELSE screen
    /\ over' = (over \/ (screen = "alert" /\ have_editor))
    /\ Stay /\ UNCHANGED <<mark, entry, editor, blurred, bounds>>

DismissStatus ==
    /\ screen = "status" /\ screen' = "menu"
    /\ Stay /\ UNCHANGED <<mark, entry, editor, net, blurred, bounds>>

\* A sync or an SFTP client at work on the card.
Elsewhere(p) ==
    /\ Trouble
    /\ \/ Exists(tree, p) /\ tree' = rm_rf(tree, p)
       \/ tree' = mkdir(tree, p)
       \/ tree' = Saved(tree, p, Blank)
    /\ tree' # tree
    /\ UNCHANGED <<curDir, screen, ui, mvSrc, mark, entry, editor, net, blurred, news>>

-----------------------------------------------------------------------------
Lists   == \/ Projects \/ ToggleManage \/ Back \/ EscList \/ CancelMove \/ MoveHere
           \/ \E kind \in {"file", "folder", "project"} : NewEntry(kind)
           \/ \E row \in Names \X BOOLEAN : MarkEntry(row) \/ EnterFolder(row) \/ OpenFile(row)
Marked == ChooseRename \/ ChooseMove \/ ChooseDelete \/ LeaveMarked \/ Delete
Entry   == NoEntry \/ Reserved \/ WifiEntry \/ LeaveWifi
           \/ \E n \in Names : MakeFolder(n) \/ Rename(n) \/ MakeFile(n)
Alerts  == Says \/ AskStatus \/ DismissAlert \/ StatusComes \/ DismissStatus

Next == \/ Lists \/ Marked \/ Entry \/ Alerts \/ Type \/ SaveClose \/ SaveCut \/ SaveRefused
        \/ \E p \in Paths : Elsewhere(p)

Spec == Init /\ [][Next]_vars

-----------------------------------------------------------------------------
(* Properties.                                                             *)

\* browser_refill, rename, move_finish, rm_rf: what a file holds stays on the card, wherever
\* the file goes, unless a row with a cut name was picked (blurred).  It is let go by a delete
\* of the marked entry, by a save of the open text at the place it came from, or by a new file
\* of the same name, which nobody is asked about.  Once a status came over the message of a
\* save that failed and led away from the editor (over), the open text is saved into whatever
\* folder is shown.
TextsStay ==
    [][\A p \in DOMAIN tree : tree[p] # Folder =>
         \/ \E q \in DOMAIN tree' : tree'[q] = tree[p]
         \/ blurred \/ \E o \in Paths : Elsewhere(o)
         \/ screen = "confirm" /\ AtOrUnder(p, marked)
         \/ have_editor /\ ~have_editor' /\ p = Append(curDir, curFile) /\ (p = home \/ over)
         \/ screen = "entry" /\ entryCtxFS = "file" /\ p = Append(curDir, curFile')]_vars

\* writing.md:77, "If the save fails ... the text is still there": what was typed is only let
\* go once it is in its file, unless a status led away from the editor (over), or the card
\* filled up under the save, which is not noticed (SaveCut).
UnsavedIsKept ==
    [][unsaved /\ ~unsaved' =>
         over \/ SaveCut \/ (home \in DOMAIN tree' /\ tree'[home] = edbuf)]_vars
=============================================================================
