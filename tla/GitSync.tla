------------------------------ MODULE GitSync ------------------------------
(***************************************************************************)
(* One project, its git repository on the SD card, and git_sync, the one   *)
(* verb that commits, fetches, rebases and pushes.  Around it: the editor, *)
(* which may save into the folder while a sync runs in the background;     *)
(* another computer, which pushes to the same branch; a network that may   *)
(* fail; and a device that may lose power between any two steps.           *)
(*                                                                         *)
(* A text is the set of edits it holds, a commit is the sequence of texts  *)
(* that leads to it.  A file with conflict markers holds both sides.       *)
(***************************************************************************)
EXTENDS Integers, Sequences, SequencesExt

CONSTANTS DeviceEdits,   \* what the device's user may write
          RemoteEdits,   \* what somebody else may push
          Closed,        \* no file is open in the editor
          MaxTip,        \* bound: others push on at most this many commits
          MaxFails,      \* bound: failures of the network and of the card
          MaxCrashes     \* bound: power losses

Edits == DeviceEdits \cup RemoteEdits

ASSUME GitSyncAssumption ==
    /\ DeviceEdits \cap RemoteEdits = {}
    /\ \A S \in SUBSET Edits : Closed # S
    /\ MaxTip \in Nat /\ MaxFails \in Nat /\ MaxCrashes \in Nat

Points == {"idle", "open", "origin", "recover", "commit", "fetch", "reconcile",
           "checkout", "advance", "rb_init", "rb_onto", "rb_detach", "rb_next",
           "rb_stage", "rb_many", "rb_commit", "rb_abort", "rollback", "push", "send"}

\* The files libgit2 writes through a .lock beside them, and where git_sync is when it does.
Locked    == {"index", "branch", "tracking"}
Writes(f) == CASE f = "index"    -> {"commit", "checkout", "rb_onto", "rb_next", "rb_stage",
                                     "rb_many", "rb_abort"}
               [] f = "branch"   -> {"recover", "commit", "advance", "rb_next", "rb_many",
                                     "rb_abort", "rollback"}
               [] f = "tracking" -> {"fetch", "send"}

Texts   == SUBSET Edits
Commits == Seq(Texts)                   \* <<>>: no commit
Text(c) == IF c = <<>> THEN {} ELSE Last(c)

VARIABLES
    pc,                      \* where git_sync is
    result,                  \* GitResult: "none", "ok" or "failed"
    repo,                    \* "none", "bare": initialised without origin, "ready"
    branch,                  \* refs/heads/<branch>
    detached, dhead,         \* HEAD: attached to the branch, or a commit of its own
    tracking,                \* refs/remotes/origin/<branch>
    rebasing,                \* .git/rebase-merge exists
    index, work,             \* the staged and the checked out text
    locks,                   \* the files whose .lock a power loss left on the card
    before, made,            \* head_before, made_commit
    next,                    \* the commit of the branch the rebase replays next
    seen,                    \* the remote tip a push connection was told
    remote,                  \* the branch on the remote
    file,                    \* the text the editor opened, or Closed
    saved,                   \* history: the edits the device's user saved
    found,                   \* history: branch and text when this sync took over
    touched,                 \* history: since then the editor saved or a rebase broke
    cut, clash,              \* history: a rebase was cut short; a save while rebasing
    stale,                   \* history: the editor saved over a text it had not seen
    fails, crashes

repository == <<repo, branch, detached, dhead, tracking, rebasing, index, work,
                locks>>
locals  == <<before, made, next, seen, found, touched>>
history == <<saved, cut, clash, stale>>
world   == <<remote, file, fails, crashes>>
vars    == <<pc, result, repository, locals, history, world>>

Nothing == [branch |-> <<>>, text |-> {}]

TypeOK ==
    /\ pc \in Points /\ result \in {"none", "ok", "failed"}
    /\ repo \in {"none", "bare", "ready"}
    /\ branch \in Commits /\ dhead \in Commits /\ tracking \in Commits
    /\ detached \in BOOLEAN /\ rebasing \in BOOLEAN
    /\ index \in Texts /\ work \in Texts /\ locks \in SUBSET Locked
    /\ before \in Commits /\ made \in BOOLEAN /\ next \in Nat /\ next > 0 /\ seen \in Commits
    /\ remote \in Commits
    /\ file \in {Closed} \cup Texts
    /\ saved \in SUBSET DeviceEdits
    /\ found \in [branch : Commits, text : Texts] /\ touched \in BOOLEAN
    /\ cut \in BOOLEAN /\ clash \in BOOLEAN /\ stale \in BOOLEAN
    /\ fails \in 0..MaxFails /\ crashes \in 0..MaxCrashes

Init ==
    /\ pc = "idle" /\ result = "none"
    /\ repo = "none" /\ branch = <<>> /\ detached = FALSE /\ dhead = <<>>
    /\ tracking = <<>> /\ rebasing = FALSE /\ index = {} /\ work = {} /\ locks = {}
    /\ before = <<>> /\ made = FALSE /\ next = 1 /\ seen = <<>>
    /\ remote = <<>> /\ file = Closed
    /\ saved = {} /\ found = Nothing /\ touched = FALSE
    /\ cut = FALSE /\ clash = FALSE /\ stale = FALSE
    /\ fails = 0 /\ crashes = 0

-----------------------------------------------------------------------------
At(p)   == pc = p
Go(p)   == pc' = p
Ends(r) == /\ pc' = "idle" /\ result' = r
           /\ before' = <<>> /\ made' = FALSE /\ next' = 1 /\ seen' = <<>>
           /\ found' = Nothing /\ touched' = FALSE
Failing == fails < MaxFails /\ fails' = fails + 1
\* A write of f fails: always while its .lock lies there, else when the card does.
WriteFails(f) == IF f \in locks THEN UNCHANGED fails ELSE Failing

(* Around git_sync.                                                        *)

\* The editor reads the file when it opens it and writes its buffer, changed or
\* not, when it closes it.
OpenFile ==
    /\ file = Closed /\ file' = work
    /\ UNCHANGED <<pc, result, repository, locals, history, remote, fails, crashes>>

SaveFile(S) ==
    /\ file # Closed
    /\ work' = file \cup S /\ file' = Closed
    /\ saved' = saved \cup S /\ touched' = ~At("idle")
    /\ clash' = (clash \/ rebasing) /\ stale' = (stale \/ file # work)
    /\ UNCHANGED <<pc, result, repo, locks, branch, detached, dhead, tracking, rebasing,
                   index, before, made, next, seen, found, cut, remote, fails, crashes>>

\* Another computer pulls and pushes.
OtherPush(e) ==
    /\ e \notin Text(remote) /\ Len(remote) <= MaxTip
    /\ remote' = Append(remote, Text(remote) \cup {e})
    /\ UNCHANGED <<pc, result, repository, locals, history, file, fails, crashes>>

\* An update on its way may have reached the server or not.
Arrived == {remote} \cup (IF At("send") /\ remote = seen THEN {branch} ELSE {})

\* Power is lost during a sync; the editor's buffer goes too.  In the middle of a write it
\* leaves the .lock behind, which nothing ever removes.
PowerLoss ==
    /\ pc # "idle" /\ crashes < MaxCrashes
    /\ Ends("none") /\ crashes' = crashes + 1 /\ file' = Closed
    /\ cut' = (cut \/ rebasing) /\ remote' \in Arrived
    /\ locks' \in {locks} \cup {locks \cup {f} : f \in {g \in Locked : pc \in Writes(g)}}
    /\ At("send") /\ locks' # locks => remote' = branch
    /\ UNCHANGED <<repo, branch, detached, dhead, tracking, rebasing, index, work,
                   saved, clash, stale, fails>>

-----------------------------------------------------------------------------
(* git_sync: open, recover, commit, fetch.                                 *)

outside == <<remote, file, crashes>>     \* what git_sync does not touch until it pushes

Start ==
    /\ At("idle") /\ Go("open") /\ result' = "none"
    /\ UNCHANGED <<repository, locals, history, world>>

\* open_or_init
OpenOrInit ==
    /\ At("open")
    /\ IF repo = "none" THEN repo' = "bare" /\ Go("origin")
                        ELSE UNCHANGED repo /\ Go("recover")
    /\ UNCHANGED <<result, locks, branch, detached, dhead, tracking, rebasing, index, work,
                   locals, history, world>>

AddOrigin ==
    /\ At("origin") /\ Go("recover") /\ repo' = "ready"
    /\ UNCHANGED <<result, locks, branch, detached, dhead, tracking, rebasing, index, work,
                   locals, history, world>>

\* That the remote could not be registered is not noticed.
AddOriginFails ==
    /\ At("origin") /\ Failing /\ Go("recover")
    /\ UNCHANGED <<result, repository, locals, history, outside>>

\* A leftover rebase is forgotten; a detached HEAD becomes the branch, and is attached
\* even when the branch could not be written.
Recover ==
    /\ At("recover") /\ Go("commit")
    /\ rebasing' = FALSE /\ detached' = FALSE
    /\ branch' = IF detached /\ "branch" \notin locks THEN dhead ELSE branch
    /\ dhead' = <<>>
    /\ found' = [branch |-> branch', text |-> work] /\ touched' = FALSE
    /\ UNCHANGED <<result, repo, locks, tracking, index, work, before, made, next, seen,
                   history, world>>

\* Step 1: commit the working tree if it differs from HEAD.
Differs == branch = <<>> \/ Text(branch) # work

Commit ==
    /\ At("commit") /\ Go("fetch") /\ "index" \notin locks
    /\ index' = work /\ before' = branch
    /\ \/ ~Differs /\ made' = FALSE /\ UNCHANGED branch
       \/ /\ Differs /\ "branch" \notin locks
          /\ made' = TRUE /\ branch' = Append(branch, work)
    /\ UNCHANGED <<result, repo, locks, detached, dhead, tracking, rebasing, work,
                   next, seen, found, touched, history, world>>

CommitFails ==
    /\ At("commit") /\ Ends("failed")
    /\ \/ WriteFails("index") /\ UNCHANGED index
       \/ "index" \notin locks /\ Differs /\ WriteFails("branch") /\ index' = work
    /\ UNCHANGED <<repo, locks, branch, detached, dhead, tracking, rebasing, work,
                   history, outside>>

\* Step 2: fetch.
News == remote \notin {<<>>, tracking}

Fetch ==
    /\ At("fetch") /\ repo = "ready" /\ Go("reconcile")
    /\ IF News THEN "tracking" \notin locks /\ tracking' = remote ELSE UNCHANGED tracking
    /\ UNCHANGED <<result, repo, locks, branch, detached, dhead, rebasing, index, work,
                   locals, history, world>>

FetchFails ==
    /\ At("fetch") /\ Go("rollback")
    /\ \/ repo = "ready" /\ Failing
       \/ repo = "ready" /\ News /\ "tracking" \in locks /\ UNCHANGED fails
       \/ repo # "ready" /\ UNCHANGED fails
    /\ UNCHANGED <<result, repository, locals, history, outside>>

-----------------------------------------------------------------------------
(* Step 3: reconcile with the remote tip.                                  *)

Reconcile_Overwrites ==                          \* mutant: diverged is taken for behind
    /\ At("reconcile")
    /\ Go(IF IsPrefix(tracking, branch) THEN "push" ELSE "checkout")
    /\ UNCHANGED <<result, repository, locals, history, world>>
Reconcile_NoRebase ==                            \* mutant: diverged is taken for ahead
    /\ At("reconcile")
    /\ Go(IF branch # tracking /\ IsPrefix(branch, tracking) THEN "checkout" ELSE "push")
    /\ UNCHANGED <<result, repository, locals, history, world>>
Reconcile ==
    /\ At("reconcile")
    /\ \/ IsPrefix(tracking, branch) /\ Go("push")    \* none, equal or ahead
       \/ ~IsPrefix(tracking, branch) /\ IsPrefix(branch, tracking) /\ Go("checkout")
       \/ ~IsPrefix(tracking, branch) /\ ~IsPrefix(branch, tracking) /\ Go("rb_init")
    /\ UNCHANGED <<result, repository, locals, history, world>>

\* A safe checkout leaves a file alone that is neither as it was nor as it shall
\* be, and fails.
CanCheckOut(from, to) == work \in {from, to} \/ from = to
CheckOut(from, to) ==
    /\ work' = IF work = from THEN to ELSE work
    /\ index' = to

\* Strictly behind: fast-forward.
FastForward ==
    /\ At("checkout")
    /\ IF CanCheckOut(Text(branch), Text(tracking))
       THEN CheckOut(Text(branch), Text(tracking)) /\ Go("advance")
       ELSE UNCHANGED <<work, index>> /\ Go("rollback")
    /\ UNCHANGED <<result, repo, locks, branch, detached, dhead, tracking, rebasing,
                   locals, history, world>>

\* That the branch could not be moved is not noticed.
Advance ==
    /\ At("advance") /\ Go("push")
    /\ branch' = IF "branch" \in locks THEN branch ELSE tracking
    /\ UNCHANGED <<result, repo, locks, detached, dhead, tracking, rebasing, index, work,
                   locals, history, world>>

-----------------------------------------------------------------------------
(* do_rebase_onto: the commits the remote lacks are replayed on its tip,   *)
(* on a detached HEAD.                                                     *)

MergeBase(n) ==
    /\ IsPrefix(SubSeq(branch, 1, n), tracking)
    /\ ~IsPrefix(SubSeq(branch, 1, n + 1), tracking)

RebaseInit_OffByTwo ==                           \* mutant: starts before the merge base
    /\ At("rb_init") /\ Go("rb_onto") /\ rebasing' = TRUE
    /\ \E n \in 0..(Len(branch) - 1) : MergeBase(n) /\ next' = n - 1
    /\ UNCHANGED <<result, repo, locks, branch, detached, dhead, tracking, index, work,
                   before, made, seen, found, touched, history, world>>
\* git_rebase_init refuses a folder that differs from the branch.
RebaseInit ==
    /\ At("rb_init")
    /\ \/ /\ work = index /\ index = Text(branch)
          /\ rebasing' = TRUE /\ Go("rb_onto")
          /\ \E n \in 0..(Len(branch) - 1) : MergeBase(n) /\ next' = n + 1
       \/ /\ ~(work = index /\ index = Text(branch))
          /\ Go("rollback") /\ UNCHANGED <<rebasing, next>>
    /\ UNCHANGED <<result, repo, locks, branch, detached, dhead, tracking, index, work,
                   before, made, seen, found, touched, history, world>>

RebaseOnto ==
    /\ At("rb_onto")
    /\ IF CanCheckOut(Text(branch), Text(tracking))
       THEN CheckOut(Text(branch), Text(tracking)) /\ Go("rb_detach") /\ UNCHANGED rebasing
       ELSE UNCHANGED <<work, index>> /\ Go("rollback") /\ rebasing' = FALSE
    /\ UNCHANGED <<result, repo, locks, branch, detached, dhead, tracking, locals, history, world>>

RebaseDetach ==
    /\ At("rb_detach") /\ Go("rb_next")
    /\ detached' = TRUE /\ dhead' = tracking
    /\ UNCHANGED <<result, repo, locks, branch, tracking, rebasing, index, work,
                   locals, history, world>>

\* git_rebase_next merges the next commit into index and folder, unless the folder was
\* changed meanwhile.  What one side left alone merges cleanly; what both sides changed
\* does so or not, depending on the lines.
Merge(base, ours, theirs) == (ours \cap theirs) \cup (ours \ base) \cup (theirs \ base)

Replayed(text) == work' = text /\ index' = text /\ Go("rb_commit")
Conflicted_TakesOurs(ours, theirs) ==            \* mutant: no markers
    work' = ours /\ UNCHANGED index /\ Go("rb_stage")
Conflicted(ours, theirs) == work' = ours \cup theirs /\ UNCHANGED index /\ Go("rb_stage")

RebaseNext ==
    LET base   == Text(SubSeq(branch, 1, next - 1))
        ours   == Text(dhead)
        theirs == branch[next]
    IN  /\ At("rb_next") /\ next <= Len(branch)
        /\ \/ work = index /\ Replayed(Merge(base, ours, theirs))
           \/ /\ work = index /\ base \notin {ours, theirs} /\ ours # theirs
              /\ Conflicted(ours, theirs)
           \/ /\ work # index /\ Merge(base, ours, theirs) = ours
              /\ Go("rb_commit") /\ UNCHANGED <<work, index>>
           \/ /\ work # index /\ theirs \notin {base, ours}
              /\ Go("rb_abort") /\ UNCHANGED <<work, index>>
        /\ UNCHANGED <<result, repo, locks, branch, detached, dhead, tracking, rebasing,
                       locals, history, world>>

\* Conflicted files are staged as they lie in the folder, markers and all.
RebaseStage ==
    /\ At("rb_stage") /\ Go("rb_commit")
    /\ index' = work
    /\ UNCHANGED <<result, repo, locks, branch, detached, dhead, tracking, rebasing, work,
                   locals, history, world>>

\* More than 16 files in conflict are not all staged: there are as many again in the next
\* sync, and nobody but another computer makes them fewer.
RebaseCrowded ==
    /\ At("rb_stage") /\ Go("rb_many")
    /\ UNCHANGED <<result, repository, locals, history, world>>

\* A commit that adds nothing to the tip (GIT_EAPPLIED) is dropped.
RebaseCommit ==
    /\ At("rb_commit")
    /\ IF work # index THEN Go("rb_abort") /\ UNCHANGED <<dhead, next>>
       ELSE /\ Go("rb_next") /\ next' = next + 1
            /\ dhead' = IF index = Text(dhead) THEN dhead ELSE Append(dhead, index)
    /\ UNCHANGED <<result, repo, locks, branch, detached, tracking, rebasing, index, work,
                   before, made, seen, found, touched, history, world>>

\* git_rebase_finish: the branch is moved and HEAD is the branch again.
RebaseFinish ==
    /\ At("rb_next") /\ next > Len(branch) /\ Go("push") /\ "branch" \notin locks
    /\ branch' = dhead /\ detached' = FALSE /\ dhead' = <<>> /\ rebasing' = FALSE
    /\ UNCHANGED <<result, repo, locks, tracking, index, work, locals, history, world>>

\* git_rebase_abort resets the folder to the branch, hard.
Aborts  == pc \in {"rb_abort", "rb_many"}
Attach  == detached' = FALSE /\ dhead' = <<>>
ToBranch == work' = Text(branch) /\ index' = Text(branch)

RebaseAbort ==
    /\ Aborts /\ Go("rollback") /\ "branch" \notin locks
    /\ Attach /\ ToBranch /\ rebasing' = FALSE
    /\ UNCHANGED <<result, repo, locks, branch, tracking, locals, history, world>>

\* An error of the card ends the rebase.
RebaseFails ==
    /\ \/ At("rb_next") /\ next <= Len(branch)
       \/ At("rb_stage")
       \/ At("rb_commit")
    /\ Failing /\ Go("rb_abort")
    /\ UNCHANGED <<result, repository, locals, history, outside>>

\* The card fails, or the branch is locked, while HEAD is moved to the new base or while
\* the rebase is finished or aborted.  Nobody goes back over what was done.
RebaseBreaks ==
    /\ Go("rollback") /\ cut' = TRUE /\ touched' = TRUE
    /\ \/ At("rb_detach") /\ Failing
          /\ rebasing' = FALSE /\ UNCHANGED <<detached, dhead, index, work>>
       \/ At("rb_next") /\ next > Len(branch) /\ WriteFails("branch")
          /\ UNCHANGED <<rebasing, detached, dhead, index, work>>
       \/ Aborts /\ Failing /\ UNCHANGED <<rebasing, detached, dhead, index, work>>
       \/ Aborts /\ Failing /\ Attach /\ UNCHANGED <<rebasing, index, work>>
       \/ Aborts /\ WriteFails("branch") /\ Attach /\ ToBranch /\ UNCHANGED rebasing
    /\ UNCHANGED <<result, repo, locks, branch, tracking, before, made, next, seen,
                   found, saved, clash, stale, outside>>

Rollback_KeepsCommit ==                          \* mutant: the commit is not undone
    /\ At("rollback") /\ Ends("failed")
    /\ UNCHANGED <<repository, history, world>>
Rollback ==
    /\ At("rollback") /\ Ends("failed")
    /\ branch' = IF made THEN before ELSE branch
    /\ UNCHANGED <<repo, locks, detached, dhead, tracking, rebasing, index, work, history, world>>

-----------------------------------------------------------------------------
(* Step 4: push, unless there is nothing to send.                          *)

Push ==
    /\ At("push")
    /\ \/ branch = tracking /\ Ends("ok")
       \/ /\ branch # tracking /\ IsPrefix(remote, branch) /\ Go("send")
          /\ seen' = remote /\ UNCHANGED <<result, before, made, next, found, touched>>
       \/ branch # tracking /\ ~IsPrefix(remote, branch) /\ Ends("failed")
    /\ UNCHANGED <<repository, history, world>>

PushFails ==
    /\ At("push") /\ branch # tracking /\ Failing /\ Ends("failed")
    /\ UNCHANGED <<repository, history, outside>>

Send_Forced ==                                   \* mutant: a forced refspec
    /\ At("send") /\ Ends("ok")
    /\ remote' = branch /\ tracking' = branch
    /\ UNCHANGED <<repo, locks, branch, detached, dhead, rebasing, index, work,
                   history, file, fails, crashes>>
\* The server takes the update only from the tip it announced.  That it refused one is
\* told to a callback git_sync does not set; git_remote_push returns 0.
Send ==
    /\ At("send")
    /\ \/ remote # seen /\ Ends("ok") /\ UNCHANGED <<remote, tracking>>
       \/ /\ remote = seen /\ remote' = branch
          /\ \/ "tracking" \notin locks /\ Ends("ok") /\ tracking' = branch
             \/ "tracking" \in locks /\ Ends("failed") /\ UNCHANGED tracking
    /\ UNCHANGED <<repo, locks, branch, detached, dhead, rebasing, index, work,
                   history, file, fails, crashes>>

\* The connection breaks before or after the server applied the update.
SendFails ==
    /\ At("send") /\ Failing /\ Ends("failed")
    /\ remote' \in Arrived
    /\ UNCHANGED <<repository, history, file, crashes>>

-----------------------------------------------------------------------------
Fallible == \/ AddOriginFails \/ CommitFails \/ FetchFails \/ RebaseFails \/ RebaseBreaks
            \/ PushFails \/ SendFails
Steady   == \/ OpenOrInit \/ AddOrigin \/ Recover \/ Commit \/ Fetch
            \/ Reconcile \/ FastForward \/ Advance
            \/ RebaseInit \/ RebaseOnto \/ RebaseDetach \/ RebaseNext \/ RebaseStage
            \/ RebaseCrowded \/ RebaseCommit \/ RebaseFinish \/ RebaseAbort \/ Rollback
            \/ Push \/ Send
Around   == \/ OpenFile \/ (\E S \in SUBSET DeviceEdits : SaveFile(S))
            \/ (\E e \in RemoteEdits : OtherPush(e))
            \/ PowerLoss

Next == Start \/ Steady \/ Fallible \/ Around

Spec == Init /\ [][Next]_vars

\* A user who lets a rebase end before saving or switching off, does not switch off while
\* the branch is written, and has opened no file from before a pull.
CarefulNext == Next /\ ~cut' /\ ~clash' /\ ~stale' /\ "branch" \notin locks'
CarefulSpec == Init /\ [][CarefulNext]_vars

\* The task keeps running, and the user starts another sync some day.
FairSpec == CarefulSpec /\ WF_vars(Start) /\ WF_vars(Steady \/ Fallible)

-----------------------------------------------------------------------------
(* Properties.                                                             *)

\* What the device holds: while a rebase has the folder in pieces, its branch.
DeviceText == IF rebasing THEN Text(branch) ELSE work

\* git_engine.h:30: whatever the user saved stays on the device, through fetches,
\* rebases with conflicts, rollbacks and failures, unless the user saves over a rebase
\* or over a text not seen, or a rebase is cut short (power lost, card broken).
NothingLost == ~cut /\ ~clash /\ ~stale => saved \subseteq DeviceText

\* git-sync.md:17 lets the sync finish in the background, and git-sync.md:30 says that
\* nothing is lost: what the editor saves meanwhile is there after the rebase.
SavesSurviveSync == ~cut /\ ~stale /\ ~rebasing => saved \subseteq work

\* git_remote_push without force: the device never takes a commit off the remote.
RemoteHistoryGrows == [][IsPrefix(remote, remote')]_vars

\* oyobyok_git.c:299: a sync that rolls back leaves branch and folder as they were
\* when it took over.
LeavesAsFound ==
    [][ (pc = "rollback" /\ result' = "failed" /\ ~touched) =>
        /\ branch' = found.branch /\ work' = found.text
        /\ ~detached' /\ ~rebasing' ]_vars

\* A sync of a careful user implements the exchange of Replica: no step of either side
\* takes away what the other wrote.
Copies == INSTANCE Replica WITH device <- DeviceText, shared <- Text(remote)
Exchanges == Copies!Spec

\* git-sync.md:36: who keeps syncing ends up with the same text on both sides, once
\* nobody writes and nothing fails any more; but for a folder whose remote was never
\* registered because power was lost in its first sync (open_or_init), for one where a
\* power loss left the .lock of a file (lock_file), and for a conflict in more than 16
\* files, which ends every sync that meets it (do_rebase_onto).
EventuallyInSync ==
    \/ <>[](work = Text(remote))
    \/ <>[](repo = "bare" \/ locks # {})
    \/ []<>(pc = "rb_many")
=============================================================================
