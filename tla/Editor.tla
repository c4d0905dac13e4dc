------------------------------- MODULE Editor -------------------------------
(***************************************************************************)
(* The editor: one text in a buffer of fixed size, a cursor, a selection   *)
(* kept as an anchor and as the range drawn, a clipboard, and the files    *)
(* the text is read from and written to.  A position is the number of      *)
(* characters before it; -1 stands for none, as in the code.               *)
(*                                                                         *)
(* How a text is laid out in lines is in module Layout; which of the lines *)
(* are on the screen is a matter of drawing.                               *)
(***************************************************************************)
EXTENDS Layout

CONSTANTS
    Chars,            \* Space and Newline among them
    Junk,             \* what is copied from beyond the text
    Names, NoFile,
    Files,            \* the files that may be on the card at first
    Cap,              \* characters the buffer and the clipboard hold: sizeof edbuf - 1
    EVIS,             \* lines on the screen: a page is one less
    MaxKeys           \* bound: keys pressed

Symbols == Chars \cup {Junk}
Texts   == UNION {[1..n -> Symbols] : n \in 0..Cap}

ASSUME EditorAssumption ==
    /\ Cap \in Nat \ {0} /\ EVIS \in Nat \ {0} /\ MaxKeys \in Nat
    /\ {Space, Newline} \subseteq Chars /\ Junk \notin Chars /\ NoFile \notin Names
    /\ Files \subseteq [Names -> Seq(Chars)]

VARIABLES
    text, cur,                   \* edbuf and edlen, cur
    selPos, selLen, selAnchor,
    clip,
    screen,                      \* "list", "editor", "alert" or "crashed"
    curFile,
    files,                       \* what is on the card
    card,                        \* "ok", "full" or "gone"
    touched,                     \* history: the text was edited since it was read, or never read
    keys

selection == <<selPos, selLen, selAnchor>>
vars == <<text, cur, selection, clip, screen, curFile, files, card, touched, keys>>

TypeOK ==
    /\ text \in Texts /\ cur \in 0..Len(text) /\ clip \in Texts
    /\ selPos \in -1..Cap /\ selLen \in 0..Cap /\ selAnchor \in -1..Cap
    /\ screen \in {"list", "editor", "alert", "crashed"}
    /\ curFile \in Names \cup {NoFile} /\ files \in [Names -> Seq(Symbols)]
    /\ card \in {"ok", "full", "gone"} /\ touched \in BOOLEAN /\ keys \in 0..MaxKeys

Init ==
    /\ text = <<>> /\ cur = 0 /\ selPos = -1 /\ selLen = 0 /\ selAnchor = -1
    /\ clip = <<>> /\ screen = "list" /\ curFile = NoFile
    /\ files \in Files /\ card = "ok" /\ touched = FALSE /\ keys = 0

-----------------------------------------------------------------------------
(* Texts and lines.                                                        *)

Low(a, b)  == IF a < b THEN a ELSE b
High(a, b) == IF a < b THEN b ELSE a
Prefix(t, n) == SubSeq(t, 1, n)
Suffix(t, n) == SubSeq(t, n + 1, Len(t))
Without(t, p, n) == Prefix(t, p) \o Suffix(t, p + n)
With(t, p, s)    == Prefix(t, p) \o s \o Suffix(t, p)

\* ed_ls of each text.
LineStarts  == [t \in Texts |-> ed_layout(t)]
Lines(t)    == Len(LineStarts[t]) - 1
Start(t, k) == LineStarts[t][k]
ed_cursor_line(t, c) ==
    LET here == {k \in 1..Lines(t) : Start(t, k) <= c /\ c < Start(t, k + 1)}
    IN  IF here = {} THEN Lines(t) ELSE CHOOSE k \in here : TRUE
ed_line_cols(t, k) ==
    LET len == Start(t, k + 1) - Start(t, k)
    IN  IF len > 0 /\ t[Start(t, k + 1)] = Newline THEN len - 1 ELSE len

Column(t, c) == c - Start(t, ed_cursor_line(t, c))
InLine(t, k, col) == Start(t, k) + Low(col, ed_line_cols(t, k))

ed_up(t, c)   == LET k == ed_cursor_line(t, c)
                 IN  IF k = 1 THEN 0 ELSE InLine(t, k - 1, Column(t, c))
ed_down(t, c) == LET k == ed_cursor_line(t, c)
                 IN  IF k = Lines(t) THEN Len(t) ELSE InLine(t, k + 1, Column(t, c))

Right_PastEnd == cur + 1                         \* mutant: no look at edlen
Right == Low(cur + 1, Len(text))

\* Where a key takes the cursor; a page is EVIS - 1 lines.
Goes(nav, c) ==
    \/ nav = "LEFT"  /\ c = High(cur - 1, 0)
    \/ nav = "RIGHT" /\ c = Right
    \/ nav = "UP"    /\ c = ed_up(text, cur)
    \/ nav = "DOWN"  /\ c = ed_down(text, cur)
    \/ nav = "HOME"  /\ c = Start(text, ed_cursor_line(text, cur))
    \/ nav = "END"   /\ LET k == ed_cursor_line(text, cur)
                        IN  c = Start(text, k) + ed_line_cols(text, k)
    \/ nav \in {"PGUP", "PGDN"} /\ \E path \in [0..EVIS - 1 -> 0..Len(text)] :
          /\ path[0] = cur /\ path[EVIS - 1] = c
          /\ \A i \in 1..EVIS - 1 : path[i] = IF nav = "PGUP" THEN ed_up(text, path[i - 1])
                                                              ELSE ed_down(text, path[i - 1])
Navs == {"LEFT", "RIGHT", "UP", "DOWN", "HOME", "END", "PGUP", "PGDN"}

-----------------------------------------------------------------------------
(* The selection.                                                          *)

sel_active == selPos >= 0 /\ selLen > 0
sel_clear  == selAnchor' = -1 /\ selPos' = -1 /\ selLen' = 0

\* A range that ends beyond the text: taking it out moves a negative number of characters.
OutOfText == sel_active /\ selPos + selLen > Len(text)

\* What sel_delete leaves, when something is selected.
Rest   == IF sel_active THEN Without(text, selPos, selLen) ELSE text
RestAt == IF sel_active THEN selPos ELSE cur

Key == screen = "editor" /\ keys < MaxKeys /\ keys' = keys + 1
Edits == touched' = TRUE /\ UNCHANGED <<clip, screen, curFile, files, card>>

Crashes ==
    /\ Key /\ OutOfText /\ screen' = "crashed"
    /\ UNCHANGED <<text, cur, selection, clip, curFile, files, card, touched>>

\* ed_insert, after sel_delete.  It ends the range drawn, but not the anchor; at a full buffer
\* it does neither.
Type(c) ==
    /\ Key /\ ~OutOfText /\ Edits
    /\ IF Len(Rest) >= Cap THEN UNCHANGED <<text, cur, selection>>
       ELSE /\ text' = With(Rest, RestAt, <<c>>) /\ cur' = RestAt + 1
            /\ IF sel_active THEN sel_clear ELSE selPos' = -1 /\ UNCHANGED <<selLen, selAnchor>>

\* sel_delete
Takes_KeepsRange ==                              \* mutant: sel_clear is forgotten
    /\ sel_active /\ ~OutOfText /\ text' = Rest /\ cur' = selPos /\ UNCHANGED selection
Takes == /\ sel_active /\ ~OutOfText
         /\ text' = Rest /\ cur' = selPos /\ sel_clear

Backspace ==
    /\ Key /\ ~OutOfText /\ Edits
    /\ \/ Takes
       \/ /\ ~sel_active /\ cur > 0
          /\ text' = Without(text, cur - 1, 1) /\ cur' = cur - 1
          /\ selPos' = -1 /\ UNCHANGED <<selLen, selAnchor>>

Delete ==
    /\ Key /\ ~OutOfText /\ Edits
    /\ \/ Takes
       \/ /\ ~sel_active /\ cur < Len(text)
          /\ text' = Without(text, cur, 1) /\ UNCHANGED <<cur, selection>>

\* What the range covers; beyond the text lies what an earlier one left in the buffer.
Covered == [i \in 1..selLen |-> IF selPos + i <= Len(text) THEN text[selPos + i] ELSE Junk]

ed_copy == clip' = Covered

Copy ==
    /\ Key /\ sel_active /\ ed_copy
    /\ UNCHANGED <<text, cur, selection, screen, curFile, files, card, touched>>

Cut ==
    /\ Key /\ Takes /\ ed_copy /\ touched' = TRUE
    /\ UNCHANGED <<screen, curFile, files, card>>

\* ed_paste: what does not fit is left out.
Paste ==
    /\ Key /\ ~OutOfText /\ Edits
    /\ LET s == Prefix(clip, Low(Len(clip), Cap - Len(Rest)))
       IN  text' = With(Rest, RestAt, s) /\ cur' = RestAt + Len(s)
    /\ sel_clear

\* app_nav: with Shift the range goes from the anchor, set if there is none, to the cursor.
Move(nav, shift) ==
    /\ Key /\ \E c \in 0..Cap + 1 : Goes(nav, c) /\ cur' = c
    /\ IF shift
       THEN /\ selAnchor' = IF selAnchor < 0 THEN cur ELSE selAnchor
            /\ selPos' = Low(selAnchor', cur') /\ selLen' = High(selAnchor', cur') - selPos'
       ELSE sel_clear
    /\ UNCHANGED <<text, clip, screen, curFile, files, card, touched>>

-----------------------------------------------------------------------------
(* Files.                                                                  *)

\* load_current_file reads what the buffer holds; without a card to read the text is empty.
load_current_file_Short(n) == text' = Prefix(files[n], Low(Len(files[n]), Cap - 1))  \* mutant: off by one
load_current_file(n) ==
    text' = IF card = "gone" THEN <<>> ELSE Prefix(files[n], Low(Len(files[n]), Cap))

\* Opening ends the range drawn; its length and the anchor stay.
Opens(n) ==
    /\ screen = "list" /\ keys < MaxKeys /\ keys' = keys + 1
    /\ screen' = "editor" /\ curFile' = n /\ cur' = 0 /\ selPos' = -1
    /\ UNCHANGED <<selLen, selAnchor, clip, card>>

Open(n) == Opens(n) /\ load_current_file(n) /\ touched' = (card = "gone") /\ UNCHANGED files

\* save_current_file: a card without room takes a part of it, or nothing, and nobody looks.
Writes(n, t) ==
    \/ card = "ok"   /\ files' = [files EXCEPT ![n] = t]
    \/ card = "full" /\ \E k \in 0..Len(t) : files' = [files EXCEPT ![n] = Prefix(t, k)]

\* New File writes an empty file, whatever was there, and does not look at the result.
NewFile(n) ==
    /\ Opens(n) /\ text' = <<>> /\ touched' = TRUE
    /\ Writes(n, <<>>) \/ (card = "gone" /\ UNCHANGED files)

\* oyobyok_app_save_close: Esc in the editor, and Ctrl-S also over the message.
Saves == screen \in {"editor", "alert"} /\ keys < MaxKeys /\ keys' = keys + 1
SaveClose_LetsGo ==                              \* mutant: a failed save closes the editor too
    /\ Saves /\ (Writes(curFile, text) \/ (card = "gone" /\ UNCHANGED files))
    /\ screen' = "list" /\ text' = <<>> /\ cur' = 0 /\ selPos' = -1
    /\ UNCHANGED <<selLen, selAnchor, clip, curFile, card, touched>>
SaveClose ==
    /\ Saves
    /\ \/ /\ Writes(curFile, text) /\ screen' = "list"
          /\ text' = <<>> /\ cur' = 0 /\ selPos' = -1
          /\ UNCHANGED <<selLen, selAnchor>>
       \/ /\ card = "gone" /\ screen' = "alert"
          /\ UNCHANGED <<text, cur, selection, files>>
    /\ UNCHANGED <<clip, curFile, card, touched>>

Dismiss ==
    /\ screen = "alert" /\ screen' = "editor"
    /\ UNCHANGED <<text, cur, selection, clip, curFile, files, card, touched, keys>>

\* Power off, or a crash: what is on the card stays.
Restart ==
    /\ screen \in {"crashed", "list"} /\ keys < MaxKeys /\ keys' = keys + 1
    /\ screen' = "list" /\ text' = <<>> /\ cur' = 0
    /\ selPos' = -1 /\ selLen' = 0 /\ selAnchor' = -1 /\ clip' = <<>> /\ curFile' = NoFile
    /\ touched' = FALSE /\ UNCHANGED <<files, card>>

CardChanges ==
    /\ keys < MaxKeys /\ keys' = keys + 1 /\ card' \in {"ok", "full", "gone"} \ {card}
    /\ UNCHANGED <<text, cur, selection, clip, screen, curFile, files, touched>>

-----------------------------------------------------------------------------
Next ==
    \/ \E n \in Names : Open(n) \/ NewFile(n)
    \/ \E c \in Chars : Type(c)
    \/ \E nav \in Navs, shift \in BOOLEAN : Move(nav, shift)
    \/ Backspace \/ Delete \/ Copy \/ Cut \/ Paste \/ Crashes
    \/ SaveClose \/ Dismiss \/ Restart \/ CardChanges

Spec == Init /\ [][Next]_vars

-----------------------------------------------------------------------------
(* Properties.                                                             *)

\* app_nav, sel_update_from_anchor: a selection in force goes from the anchor to the cursor:
\* no key moves the one and leaves the other, and none outlives the text it was made in.
SelectionIsAnchorToCursor ==
    sel_active => {selPos, selPos + selLen} = {selAnchor, cur}

\* writing.md:77: "If the save fails you ... are put back in the editor with your text still
\* there": the editor lets go of a text only when it is on the card, unless the card was full.
KeepsText ==
    [][screen' = "list" /\ screen \in {"editor", "alert"} =>
         card = "full" \/ files'[curFile] = text]_vars

\* writing.md:56, "Text wraps at word boundaries to the width of the screen.  Long words that
\* do not fit a line are broken at the edge": what a line shows fits, but for the space after
\* a word and when the table of lines is full; and a word is broken only when the line before
\* is full of it.
LinesFit ==
    LET ls == LineStarts[text]
        Separators == {Space, Newline}
    IN  Len(ls) <= MaxLines =>
      /\ \A k \in 1..Lines(text) :
            LET n == ed_line_cols(text, k)
            IN  n <= ECOLS \/ (n = ECOLS + 1 /\ text[ls[k + 1]] = Space)
      /\ \A k \in 2..Lines(text) :
            LET i == ls[k] IN
            (i \in 1..Len(text) - 1 /\ {text[i], text[i + 1]} \cap Separators = {}) =>
                i - ls[k - 1] = ECOLS /\ \A j \in ls[k - 1] + 1..i : text[j] \notin Separators

\* A file that fits the buffer, could be read, and was only looked at, with whatever moves,
\* selections and copies, is the same afterwards.
LooksChangeNothing ==
    [][screen # "list" /\ ~touched /\ card # "full" =>
         \A n \in Names : Len(files[n]) <= Cap => files'[n] = files[n]]_vars

\* writing.md:69: a selection underlines text that is there.
SelectionInText == sel_active => selPos + selLen <= Len(text)
=============================================================================
