--------------------------- MODULE GitSync_proofs ---------------------------
(***************************************************************************)
(* Proofs about GitSync, for any sets of edits and any number of failures, *)
(* power losses and pushes of others.                                      *)
(***************************************************************************)
EXTENDS GitSync, TLAPS

\* What a sync relies on between the server's announcement and the update: the branch it
\* sends still continues the announced tip.
SendsFastForward == pc = "send" => IsPrefix(seen, branch)

IInv == TypeOK /\ SendsFastForward

-----------------------------------------------------------------------------
(* Texts and commits.                                                      *)

LEMMA TextType == \A c \in Commits : Text(c) \in Texts
<1> SUFFICES ASSUME NEW c \in Commits PROVE Text(c) \in Texts
  OBVIOUS
<1>1. CASE c = <<>>
  BY <1>1 DEF Text, Texts
<1>2. CASE c # <<>>
  <2>1. Len(c) \in 1..Len(c) /\ c \in [1..Len(c) -> Texts]
    BY <1>2 DEF Commits
  <2> QED BY <1>2, <2>1 DEF Text, Last
<1> QED BY <1>1, <1>2

LEMMA NothingTyped == {} \in Texts /\ <<>> \in Commits
BY DEF Texts, Commits

LEMMA BoundsTyped == 0 \in 0..MaxFails /\ 0 \in 0..MaxCrashes
BY GitSyncAssumption

LEMMA TextsClosed ==
    ASSUME NEW s \in Texts, NEW t \in Texts
    PROVE  s \cup t \in Texts /\ s \cap t \in Texts /\ s \ t \in Texts
BY DEF Texts

LEMMA WordsTyped ==
    /\ \A S \in SUBSET DeviceEdits : S \in Texts
    /\ \A e \in RemoteEdits : {e} \in Texts
BY DEF Texts, Edits

LEMMA AppendType ==
    ASSUME NEW c \in Commits, NEW t \in Texts PROVE Append(c, t) \in Commits
BY DEF Commits

LEMMA SubSeqType ==
    ASSUME NEW c \in Commits, NEW n \in Nat, n <= Len(c) PROVE SubSeq(c, 1, n) \in Commits
BY DEF Commits

LEMMA PrefixFacts ==
    /\ \A c \in Commits : IsPrefix(c, c)
    /\ \A c \in Commits, t \in Texts : IsPrefix(c, Append(c, t))
<1>1. ASSUME NEW c \in Commits PROVE IsPrefix(c, c)
  BY <1>1 DEF IsPrefix, Commits
<1>2. ASSUME NEW c \in Commits, NEW t \in Texts PROVE IsPrefix(c, Append(c, t))
  <2>1. Append(c, t) \in Seq(Texts) /\ Len(Append(c, t)) = Len(c) + 1 /\ Len(c) \in Nat
    BY DEF Commits
  <2>2. SubSeq(c, 1, Len(c)) = SubSeq(Append(c, t), 1, Len(c))
    BY <2>1 DEF Commits
  <2> QED BY <2>1, <2>2 DEF IsPrefix
<1> QED BY <1>1, <1>2

-----------------------------------------------------------------------------
(* Type correctness.                                                       *)

\* A sync that ends leaves its locals as they were before it started.
LEMMA EndsTyped ==
    ASSUME NEW r, Ends(r)
    PROVE  /\ pc' = "idle" /\ result' = r
           /\ before' \in Commits /\ made' \in BOOLEAN /\ seen' \in Commits
           /\ next' \in Nat /\ next' > 0
           /\ found' \in [branch : Commits, text : Texts] /\ touched' \in BOOLEAN
<1>1. next' = 1 /\ pc' = "idle" /\ result' = r /\ made' = FALSE
  BY DEF Ends
<1>2. before' \in Commits /\ seen' \in Commits
  BY NothingTyped DEF Ends
<1>4. found' \in [branch : Commits, text : Texts] /\ touched' \in BOOLEAN
  BY NothingTyped DEF Ends, Nothing
<1>3. next' \in Nat /\ next' > 0
  BY <1>1
<1> QED BY <1>1, <1>2, <1>3, <1>4

LEMMA TypeInit == Init => TypeOK
<1> SUFFICES ASSUME Init PROVE TypeOK
  OBVIOUS
<1> USE NothingTyped, BoundsTyped DEF Init
<1>1. pc \in Points /\ result \in {"none", "ok", "failed"} /\ repo \in {"none", "bare", "ready"}
  BY DEF Points
<1>2. branch \in Commits /\ dhead \in Commits /\ tracking \in Commits /\ remote \in Commits
  OBVIOUS
<1>3. next = 1
  OBVIOUS
<1>7. before \in Commits /\ made \in BOOLEAN /\ next \in Nat /\ next > 0 /\ seen \in Commits
  <2> HIDE DEF Init
  <2>1. next \in Nat /\ next > 0
    BY <1>3
  <2> QED BY <2>1 DEF Init
<1>4. /\ index \in Texts /\ work \in Texts /\ locks \in SUBSET Locked
      /\ file \in {Closed} \cup Texts /\ saved \in SUBSET DeviceEdits
  OBVIOUS
<1>5. found \in [branch : Commits, text : Texts]
  BY DEF Nothing
<1>6. /\ detached \in BOOLEAN /\ rebasing \in BOOLEAN /\ touched \in BOOLEAN
      /\ cut \in BOOLEAN /\ clash \in BOOLEAN /\ stale \in BOOLEAN
      /\ fails \in 0..MaxFails /\ crashes \in 0..MaxCrashes
  OBVIOUS
<1> QED BY <1>1, <1>2, <1>3, <1>4, <1>5, <1>6, <1>7 DEF TypeOK

LEMMA TypeNext == TypeOK /\ [Next]_vars => TypeOK'
<1> SUFFICES ASSUME TypeOK, [Next]_vars PROVE TypeOK'
  OBVIOUS
<1> USE DEF TypeOK, repository, locals, history, world, outside, At, Go, WriteFails
<1>0. \A f \in 0..MaxFails : f < MaxFails => f + 1 \in 0..MaxFails
  BY GitSyncAssumption
<1>1. CASE UNCHANGED vars
  BY <1>1 DEF vars
<1>2. CASE Start
  BY <1>2 DEF Start, Points
<1>3. CASE Fallible
  <2> USE <1>0, EndsTyped DEF Failing
  <2>1. CASE CommitFails
    BY <2>1 DEF CommitFails, Points
  <2>2. CASE FetchFails
    BY <2>2 DEF FetchFails, Points
  <2>3. CASE RebaseFails
    BY <2>3 DEF RebaseFails, Points
  <2>4. CASE PushFails
    BY <2>4 DEF PushFails, Points
  <2>5. CASE SendFails
    BY <2>5 DEF SendFails, Arrived, Points
  <2>6. CASE AddOriginFails
    BY <2>6 DEF AddOriginFails, Points
  <2>7. CASE RebaseBreaks
    <3>1. /\ detached' \in BOOLEAN /\ dhead' \in Commits /\ rebasing' \in BOOLEAN
          /\ index' \in Texts /\ work' \in Texts /\ fails' \in 0..MaxFails
          /\ cut' = TRUE /\ touched' = TRUE /\ pc' = "rollback"
      BY <2>7, NothingTyped, TextType DEF RebaseBreaks, Attach, ToBranch
    <3> QED BY <2>7, <3>1 DEF RebaseBreaks, Points
  <2> QED BY <1>3, <2>1, <2>2, <2>3, <2>4, <2>5, <2>6, <2>7 DEF Fallible
<1>4. CASE Around
  <2>1. CASE OpenFile
    BY <2>1 DEF OpenFile
  <2>2. ASSUME NEW S \in SUBSET DeviceEdits, SaveFile(S) PROVE TypeOK'
    <3>1. file \in Texts /\ work' = file \cup S /\ saved' = saved \cup S
      BY <2>2 DEF SaveFile
    <3>2. work' \in Texts
      BY <3>1, WordsTyped, TextsClosed
    <3> QED BY <2>2, <3>1, <3>2 DEF SaveFile
  <2>3. ASSUME NEW e \in RemoteEdits, OtherPush(e) PROVE TypeOK'
    <3>1. Text(remote) \cup {e} \in Texts
      BY TextType, WordsTyped, TextsClosed
    <3>2. remote' \in Commits
      BY <2>3, <3>1, AppendType DEF OtherPush
    <3> QED BY <2>3, <3>2 DEF OtherPush
  <2>4. CASE PowerLoss
    <3>1. crashes' \in 0..MaxCrashes
      BY <2>4, GitSyncAssumption DEF PowerLoss
    <3>2. locks' \in SUBSET Locked /\ remote' \in Commits
      BY <2>4 DEF PowerLoss, Arrived
    <3> QED BY <2>4, <3>1, <3>2, EndsTyped DEF PowerLoss, Points
  <2> QED BY <1>4, <2>1, <2>2, <2>3, <2>4 DEF Around
<1>5. CASE Steady
  <2>1. CASE OpenOrInit
    BY <2>1 DEF OpenOrInit, Points
  <2>2. CASE AddOrigin
    BY <2>2 DEF AddOrigin, Points
  <2>3. CASE Recover
    BY <2>3, NothingTyped DEF Recover, Points
  <2>4. CASE Commit
    <3>1. branch' \in Commits
      BY <2>4, AppendType DEF Commit
    <3>2. made' \in BOOLEAN /\ pc' = "fetch" /\ index' = work /\ before' = branch
      BY <2>4 DEF Commit
    <3>3. UNCHANGED <<result, repo, locks, detached, dhead, tracking, rebasing, work,
                      next, seen, found, touched, history, world>>
      BY <2>4 DEF Commit
    <3>4. pc' \in Points
      BY <3>2 DEF Points
    <3> QED BY ZenonT(60), <3>1, <3>2, <3>3, <3>4
  <2>5. CASE Fetch
    BY <2>5 DEF Fetch, Points
  <2>6. CASE Reconcile
    BY <2>6 DEF Reconcile, Points
  <2>7. CASE FastForward
    BY <2>7, TextType DEF FastForward, CheckOut, Points
  <2>8. CASE Advance
    BY <2>8 DEF Advance, Points
  <2>9. CASE RebaseInit
    <3>1. Len(branch) \in Nat
      BY DEF Commits
    <3>2. next' \in Nat /\ next' > 0
      BY <2>9, <3>1 DEF RebaseInit
    <3>3. pc' \in {"rb_onto", "rollback"} /\ rebasing' \in BOOLEAN
      BY <2>9 DEF RebaseInit
    <3> HIDE DEF TypeOK
    <3>5. pc' \in Points
      BY <3>3 DEF Points
    <3>6. UNCHANGED <<result, repo, branch, detached, dhead, tracking, index, work, locks,
                      before, made, seen, remote, file, saved, found, touched, cut, clash,
                      stale, fails, crashes>>
      BY <2>9 DEF RebaseInit
    <3> QED BY ZenonT(60), <3>2, <3>3, <3>5, <3>6 DEF TypeOK
  <2>10. CASE RebaseOnto
    <3>1. /\ work' \in Texts /\ index' \in Texts /\ rebasing' \in BOOLEAN
          /\ pc' \in {"rb_detach", "rollback"}
      BY <2>10, TextType DEF RebaseOnto, CheckOut
    <3> QED BY <2>10, <3>1 DEF RebaseOnto, Points
  <2>11. CASE RebaseDetach
    BY <2>11 DEF RebaseDetach, Points
  <2>12. CASE RebaseNext
    <3> DEFINE base   == Text(SubSeq(branch, 1, next - 1))
               ours   == Text(dhead)
               theirs == branch[next]
    <3>1. next \in 1..Len(branch) /\ next - 1 \in Nat /\ next - 1 <= Len(branch)
      BY <2>12 DEF RebaseNext, Commits
    <3>2. base \in Texts /\ ours \in Texts
      BY <3>1, SubSeqType, TextType
    <3>3. theirs \in Texts
      BY <3>1 DEF Commits
    <3>4. Merge(base, ours, theirs) \in Texts /\ ours \cup theirs \in Texts
      BY <3>2, <3>3, TextsClosed DEF Merge
    <3> HIDE DEF base, ours, theirs
    <3>5. /\ work' \in Texts /\ index' \in Texts
          /\ pc' \in {"rb_commit", "rb_stage", "rb_abort"}
      BY <2>12, <3>4 DEF RebaseNext, Replayed, Conflicted, base, ours, theirs
    <3> QED BY <2>12, <3>5 DEF RebaseNext, Points
  <2>13. CASE RebaseStage
    BY <2>13 DEF RebaseStage, Points
  <2>20. CASE RebaseCrowded
    BY <2>20 DEF RebaseCrowded, Points
  <2>14. CASE RebaseCommit
    <3>1. dhead' \in Commits
      BY <2>14, AppendType DEF RebaseCommit
    <3> QED BY <2>14, <3>1 DEF RebaseCommit, Points
  <2>15. CASE RebaseFinish
    BY <2>15, NothingTyped DEF RebaseFinish, Points
  <2>16. CASE RebaseAbort
    BY <2>16, NothingTyped, TextType DEF RebaseAbort, Attach, ToBranch, Points
  <2>17. CASE Rollback
    BY <2>17, EndsTyped DEF Rollback, Points
  <2>18. CASE Push
    <3>1. CASE Ends("ok") \/ Ends("failed")
      BY <2>18, <3>1, EndsTyped DEF Push, Points
    <3>2. CASE Go("send") /\ seen' = remote /\ UNCHANGED <<result, before, made, next, found, touched>>
      BY <2>18, <3>2 DEF Push, Points
    <3> QED BY <2>18, <3>1, <3>2 DEF Push
  <2>19. CASE Send
    BY <2>19, EndsTyped DEF Send, Points
  <2> QED BY <1>5, <2>1, <2>2, <2>3, <2>4, <2>5, <2>6, <2>7, <2>8, <2>9, <2>10, <2>11,
             <2>12, <2>13, <2>14, <2>15, <2>16, <2>17, <2>18, <2>19, <2>20 DEF Steady
<1> QED BY <1>1, <1>2, <1>3, <1>4, <1>5 DEF Next

-----------------------------------------------------------------------------
(* No commit leaves the remote.                                            *)

\* Nobody touches the branch or the announced tip between announcement and update.
LEMMA SendNext == TypeOK /\ SendsFastForward /\ [Next]_vars => SendsFastForward'
<1> SUFFICES ASSUME TypeOK, SendsFastForward, [Next]_vars PROVE SendsFastForward'
  OBVIOUS
<1> USE DEF SendsFastForward, repository, locals, history, world, outside, At, Go, Ends
<1>1. CASE UNCHANGED vars
  BY <1>1 DEF vars
<1>2. CASE Start
  BY <1>2 DEF Start
<1>3. CASE Fallible
  BY <1>3 DEF Fallible, CommitFails, FetchFails, AddOriginFails, RebaseFails, RebaseBreaks, PushFails, SendFails
<1>4. CASE Around
  BY <1>4 DEF Around, OpenFile, SaveFile, OtherPush, PowerLoss
<1>5. CASE Steady
  <2>1. CASE Push
    BY <2>1 DEF Push
  <2>2. CASE RebaseNext
    BY <2>2 DEF RebaseNext, Replayed, Conflicted
  <2>3. CASE ~Push /\ ~RebaseNext
    BY <1>5, <2>3 DEF Steady, OpenOrInit, AddOrigin, Recover, Commit, Fetch, Reconcile,
          FastForward, CheckOut, Advance, RebaseInit, RebaseOnto, RebaseDetach,
          RebaseStage, RebaseCrowded, RebaseCommit, RebaseFinish, RebaseAbort, Rollback, Send
  <2> QED BY <2>1, <2>2, <2>3
<1> QED BY <1>1, <1>2, <1>3, <1>4, <1>5 DEF Next

\* A step that moves the remote extends it.
LEMMA RemoteStep == TypeOK /\ SendsFastForward /\ [Next]_vars => IsPrefix(remote, remote')
<1> SUFFICES ASSUME TypeOK, SendsFastForward, [Next]_vars PROVE IsPrefix(remote, remote')
  OBVIOUS
<1> USE DEF repository, locals, history, world, outside
<1>1. remote \in Commits
  BY DEF TypeOK
<1>2. ASSUME NEW e \in RemoteEdits, OtherPush(e) PROVE IsPrefix(remote, remote')
  <2>1. Text(remote) \cup {e} \in Texts
    BY <1>1, TextType, WordsTyped, TextsClosed
  <2> QED BY <1>1, <1>2, <2>1, PrefixFacts DEF OtherPush
<1>3. CASE Send \/ SendFails \/ PowerLoss
  <2>1. remote' = remote \/ (remote = seen /\ pc = "send" /\ remote' = branch)
    BY <1>3 DEF Send, SendFails, PowerLoss, Arrived, At
  <2> QED BY <1>1, <2>1, PrefixFacts DEF SendsFastForward
<1>4. CASE UNCHANGED remote
  BY <1>1, <1>4, PrefixFacts
<1>5. (\E e \in RemoteEdits : OtherPush(e)) \/ Send \/ SendFails \/ PowerLoss \/ UNCHANGED remote
  <2>1. CASE UNCHANGED vars
    BY <2>1 DEF vars
  <2>2. CASE Start
    BY <2>2 DEF Start
  <2>3. CASE Fallible
    BY <2>3 DEF Fallible, CommitFails, FetchFails, AddOriginFails, RebaseFails, RebaseBreaks, PushFails
  <2>4. CASE Around
    BY <2>4 DEF Around, OpenFile, SaveFile
  <2>5. CASE Steady
    BY <2>5 DEF Steady, OpenOrInit, AddOrigin, Recover, Commit, Fetch, Reconcile,
          FastForward, Advance, RebaseInit, RebaseOnto, RebaseDetach, RebaseNext,
          RebaseStage, RebaseCrowded, RebaseCommit, RebaseFinish, RebaseAbort, Rollback, Push
  <2> QED BY <2>1, <2>2, <2>3, <2>4, <2>5 DEF Next
<1> QED BY <1>2, <1>3, <1>4, <1>5

-----------------------------------------------------------------------------
\* The inductive invariant, of every behaviour: types, and a push that is on its way
\* still continues the tip it was told.
THEOREM Invariance == Spec => []IInv
<1>1. Init => IInv
  BY TypeInit DEF IInv, SendsFastForward, Init
<1>2. IInv /\ [Next]_vars => IInv'
  BY TypeNext, SendNext DEF IInv
<1> QED BY <1>1, <1>2, PTL DEF Spec

\* Types: in particular the rebase replays only commits that exist.
THEOREM TypeCorrect == Spec => []TypeOK
<1>1. IInv => TypeOK
  BY DEF IInv
<1> QED BY <1>1, Invariance, PTL

\* git_remote_push without force, for any number of devices' edits, failures, power
\* losses and pushes of others: no step takes a commit off the remote.
THEOREM RemoteGrows == Spec => RemoteHistoryGrows
<1>1. IInv /\ [Next]_vars => [IsPrefix(remote, remote')]_vars
  BY RemoteStep DEF IInv
<1> QED BY <1>1, Invariance, PTL DEF Spec, RemoteHistoryGrows

-----------------------------------------------------------------------------
(* GitSync loses nothing the user saved, as long as nothing the code does  *)
(* not protect against happens.                                            *)

\* Nothing the code does not protect against has happened.
Clean == ~cut /\ ~clash /\ ~stale

\* Every commit holds what its ancestors hold.
Grows(c) == \A i, j \in 1..Len(c) : i <= j => c[i] \subseteq c[j]

\* The first n commits of c are in this text.
Holds(c, n, text) == \A i \in 1..n : c[i] \subseteq text

InRebase == {"rb_onto", "rb_detach", "rb_next", "rb_stage", "rb_many", "rb_commit", "rb_abort"}
MayUndo  == InRebase \cup {"fetch", "reconcile", "checkout", "advance", "rb_init", "rollback"}

HistoriesGrow ==
    /\ Grows(branch) /\ Grows(tracking) /\ Grows(remote)
    /\ pc \in MayUndo /\ made => Grows(before) /\ Text(before) \subseteq Text(branch)
    /\ pc \in {"rb_next", "rb_stage", "rb_commit"} => Grows(dhead)

FolderKeepsUp ==
    /\ saved \subseteq DeviceText
    /\ rebasing <=> pc \in InRebase
    /\ ~rebasing => ~detached /\ Text(branch) \subseteq work
    /\ pc = "checkout" => IsPrefix(branch, tracking)
    /\ pc = "advance" => Text(tracking) \subseteq work

RebaseKeepsUp ==
    /\ pc = "rb_onto" => work = Text(branch)
    /\ pc = "rb_detach" => work = Text(tracking) /\ index = Text(tracking)
    /\ pc \in {"rb_onto", "rb_detach"} =>
          next <= Len(branch) + 1 /\ Holds(branch, next - 1, Text(tracking))
    /\ pc = "rb_next" =>
          /\ work = Text(dhead) /\ index = Text(dhead)
          /\ next <= Len(branch) + 1 /\ Holds(branch, next - 1, Text(dhead))
    /\ pc = "rb_stage" =>
          /\ Text(dhead) \subseteq work
          /\ next <= Len(branch) /\ Holds(branch, next, work)
    /\ pc = "rb_commit" =>
          /\ work = index /\ Text(dhead) \subseteq index
          /\ next <= Len(branch) /\ Holds(branch, next, index)

Kept == HistoriesGrow /\ FolderKeepsUp /\ RebaseKeepsUp

KInv == IInv /\ (Clean => Kept)

-----------------------------------------------------------------------------
(* Texts that grow along a history.                                        *)

LEMMA EmptyGrows == Grows(<<>>) /\ Text(<<>>) = {}
BY DEF Grows, Text

LEMMA TextIsLast ==
    ASSUME NEW c \in Commits, c # <<>>
    PROVE  Len(c) \in 1..Len(c) /\ Text(c) = c[Len(c)]
<1>1. Len(c) \in 1..Len(c)
  BY DEF Commits
<1> QED BY <1>1 DEF Text, Last

LEMMA PrefixIsSmaller ==
    ASSUME NEW b \in Commits, NEW c \in Commits, Grows(c), IsPrefix(b, c)
    PROVE  Text(b) \subseteq Text(c)
<1>1. CASE b = <<>>
  BY <1>1, EmptyGrows
<1>2. CASE b # <<>>
  <2>1. Len(b) \in 1..Len(b) /\ Len(b) <= Len(c) /\ Len(c) \in Nat
    BY <1>2, TextIsLast DEF IsPrefix, Commits
  <2>2. SubSeq(b, 1, Len(b))[Len(b)] = SubSeq(c, 1, Len(b))[Len(b)]
    BY DEF IsPrefix
  <2>3. b[Len(b)] = c[Len(b)]
    BY <2>1, <2>2 DEF Commits
  <2>4. c # <<>> /\ Len(b) \in 1..Len(c) /\ Len(c) \in 1..Len(c)
    BY <2>1
  <2>5. c[Len(b)] \subseteq c[Len(c)]
    BY <2>1, <2>4 DEF Grows
  <2> QED BY <1>2, <2>3, <2>4, <2>5, TextIsLast
<1> QED BY <1>1, <1>2

LEMMA AppendGrows ==
    ASSUME NEW c \in Commits, NEW t \in Texts
    PROVE  /\ Text(Append(c, t)) = t
           /\ Grows(c) /\ Text(c) \subseteq t => Grows(Append(c, t))
<1> DEFINE d == Append(c, t)
<1>1. /\ d \in Commits /\ d # <<>> /\ Len(c) \in Nat
      /\ Len(d) = Len(c) + 1 /\ d[Len(c) + 1] = t
      /\ \A i \in 1..Len(c) : d[i] = c[i]
  BY DEF Commits
<1>2. Text(d) = t
  BY <1>1, TextIsLast
<1>3. ASSUME Grows(c), Text(c) \subseteq t PROVE Grows(d)
  <2> SUFFICES ASSUME NEW i \in 1..Len(d), NEW j \in 1..Len(d), i <= j
               PROVE  d[i] \subseteq d[j]
    BY DEF Grows
  <2> HIDE DEF d
  <2>1. CASE j \in 1..Len(c)
    <3>1. i \in 1..Len(c)
      BY <1>1, <2>1
    <3>2. c[i] \subseteq c[j]
      BY <1>3, <2>1, <3>1 DEF Grows
    <3> QED BY <1>1, <2>1, <3>1, <3>2
  <2>2. CASE j = Len(c) + 1 /\ i \in 1..Len(c)
    <3>1. c # <<>> /\ Len(c) \in 1..Len(c)
      BY <2>2, <1>1
    <3>2. c[i] \subseteq c[Len(c)]
      BY <1>3, <2>2, <3>1, <1>1 DEF Grows
    <3>3. Text(c) = c[Len(c)]
      BY <3>1, TextIsLast
    <3> QED BY <1>1, <1>3, <2>2, <3>2, <3>3
  <2>3. CASE j = Len(c) + 1 /\ i = Len(c) + 1
    BY <2>3
  <2> QED BY <1>1, <2>1, <2>2, <2>3
<1> QED BY <1>2, <1>3

\* Nothing, one commit more, a larger text, all commits.
LEMMA HoldsFacts ==
    ASSUME NEW c \in Commits, NEW n \in Nat, NEW s \in Texts, NEW t \in Texts
    PROVE  /\ Holds(c, n, s) /\ c[n + 1] \subseteq s => Holds(c, n + 1, s)
           /\ Holds(c, n, s) /\ s \subseteq t => Holds(c, n, t)
           /\ Holds(c, Len(c), s) => Text(c) \subseteq s
<1>1. Holds(c, n, s) /\ c[n + 1] \subseteq s => Holds(c, n + 1, s)
  BY DEF Holds
<1>2. Holds(c, n, s) /\ s \subseteq t => Holds(c, n, t)
  BY DEF Holds
<1>3. ASSUME Holds(c, Len(c), s) PROVE Text(c) \subseteq s
  <2>1. CASE c = <<>>
    BY <2>1, EmptyGrows
  <2>2. CASE c # <<>>
    BY <1>3, <2>2, TextIsLast DEF Holds
  <2> QED BY <2>1, <2>2
<1> QED BY <1>1, <1>2, <1>3

\* What two branches have in common is in the text of either.
LEMMA CommonIsHeld ==
    ASSUME NEW b \in Commits, NEW c \in Commits, Grows(c),
           NEW n \in Nat, n <= Len(b), IsPrefix(SubSeq(b, 1, n), c)
    PROVE  Holds(b, n, Text(c))
<1> DEFINE p == SubSeq(b, 1, n)
<1>1. p \in Commits /\ Len(p) = n /\ \A i \in 1..n : p[i] = b[i]
  BY DEF Commits
<1>2. SUFFICES ASSUME NEW i \in 1..n PROVE b[i] \subseteq Text(c)
  BY DEF Holds
<1>3. n <= Len(c) /\ SubSeq(p, 1, n) = SubSeq(c, 1, n) /\ Len(c) \in Nat
  BY <1>1 DEF IsPrefix, Commits
<1>4. SubSeq(p, 1, n)[i] = p[i] /\ SubSeq(c, 1, n)[i] = c[i]
  BY <1>1, <1>3 DEF Commits
<1>5. b[i] = c[i]
  BY <1>1, <1>3, <1>4
<1>6. c # <<>> /\ i \in 1..Len(c) /\ Len(c) \in 1..Len(c) /\ i <= Len(c)
  BY <1>3
<1>7. c[i] \subseteq c[Len(c)]
  BY <1>6 DEF Grows
<1> QED BY <1>5, <1>6, <1>7, TextIsLast

\* The parent of a commit that is replayed is in that commit, and in the text it is
\* replayed on: a merge keeps both sides.
LEMMA MergeKeeps ==
    ASSUME NEW b \in Commits, Grows(b), NEW n \in 1..Len(b),
           NEW ours \in Texts, Holds(b, n - 1, ours)
    PROVE  Merge(Text(SubSeq(b, 1, n - 1)), ours, b[n]) = ours \cup b[n]
<1> DEFINE p == SubSeq(b, 1, n - 1)
<1>1. Len(b) \in Nat /\ n - 1 \in Nat /\ n - 1 <= Len(b) /\ n \in Nat
  BY DEF Commits
<1>2. p \in Commits /\ Len(p) = n - 1 /\ \A i \in 1..(n - 1) : p[i] = b[i]
  BY <1>1 DEF Commits
<1>3. Text(p) \subseteq ours /\ Text(p) \subseteq b[n]
  <2>1. CASE p = <<>>
    BY <2>1, EmptyGrows
  <2>2. CASE p # <<>>
    <3>1. n - 1 \in 1..(n - 1) /\ Text(p) = b[n - 1]
      BY <1>2, <2>2, TextIsLast
    <3>2. n - 1 \in 1..Len(b) /\ n - 1 <= n
      BY <1>1, <3>1
    <3>3. b[n - 1] \subseteq b[n]
      BY <3>2 DEF Grows
    <3> QED BY <3>1, <3>3 DEF Holds
  <2> QED BY <2>1, <2>2
<1> HIDE DEF p
<1>4. Merge(Text(p), ours, b[n]) = ours \cup b[n]
  BY <1>3 DEF Merge
<1> QED BY <1>4 DEF p

-----------------------------------------------------------------------------
(* The steps.                                                              *)

LEMMA KeptInit == Init => Kept
BY EmptyGrows DEF Init, Kept, HistoriesGrow, FolderKeepsUp, RebaseKeepsUp, InRebase, MayUndo,
   DeviceText

\* What the code does not protect against is not forgotten.
LEMMA CleanBefore == TypeOK /\ [Next]_vars /\ Clean' => Clean
<1> SUFFICES ASSUME TypeOK, [Next]_vars, Clean' PROVE Clean
  OBVIOUS
<1> USE DEF Clean, repository, locals, history, world, outside
<1>1. CASE UNCHANGED vars
  BY <1>1 DEF vars
<1>2. CASE Start
  BY <1>2 DEF Start
<1>3. CASE Fallible
  BY <1>3 DEF Fallible, CommitFails, FetchFails, AddOriginFails, RebaseFails, RebaseBreaks,
        PushFails, SendFails
<1>4. CASE Around
  <2>1. CASE PowerLoss
    BY <2>1 DEF PowerLoss, TypeOK
  <2>2. ASSUME NEW S \in SUBSET DeviceEdits, SaveFile(S) PROVE Clean
    BY <2>2 DEF SaveFile, TypeOK
  <2> QED BY <1>4, <2>1, <2>2 DEF Around, OpenFile, OtherPush
<1>5. CASE Steady
  BY <1>5 DEF Steady, OpenOrInit, AddOrigin, Recover, Commit, Fetch, Reconcile, FastForward,
        Advance, RebaseInit, RebaseOnto, RebaseDetach, RebaseNext, RebaseStage, RebaseCrowded,
        RebaseCommit,
        RebaseFinish, RebaseAbort, Rollback, Push, Send
<1> QED BY <1>1, <1>2, <1>3, <1>4, <1>5 DEF Next

\* The failures: what they undo was made by this sync.
LEMMA KeptFallible ==
    ASSUME TypeOK, TypeOK', Kept, Clean', Fallible PROVE Kept'
<1> USE DEF Kept, HistoriesGrow, FolderKeepsUp, RebaseKeepsUp, InRebase, MayUndo, DeviceText,
        At, Go, Failing, Ends, repository, locals, history, world, outside
<1>1. CASE AddOriginFails
  BY <1>1 DEF AddOriginFails
<1>2. CASE CommitFails
  BY <1>2 DEF CommitFails
<1>3. CASE FetchFails
  BY <1>3 DEF FetchFails
<1>4. CASE RebaseFails
  BY <1>4 DEF RebaseFails
<1>5. CASE RebaseBreaks
  BY <1>5 DEF RebaseBreaks, Clean
<1>6. CASE PushFails
  BY <1>6 DEF PushFails
<1>7. CASE SendFails
  BY <1>7 DEF SendFails, Arrived
<1> QED BY <1>1, <1>2, <1>3, <1>4, <1>5, <1>6, <1>7 DEF Fallible

\* The editor and the other computers.
LEMMA KeptAround ==
    ASSUME TypeOK, TypeOK', Kept, Clean', Around PROVE Kept'
<1> USE DEF Kept, HistoriesGrow, FolderKeepsUp, RebaseKeepsUp, InRebase, MayUndo, DeviceText,
        At, Go, Ends, repository, locals, history, world, outside
<1>1. CASE OpenFile
  BY <1>1 DEF OpenFile
<1>2. ASSUME NEW S \in SUBSET DeviceEdits, SaveFile(S) PROVE Kept'
  <2>1. file = work /\ ~rebasing
    BY <1>2 DEF SaveFile, Clean, TypeOK
  <2> QED BY <1>2, <2>1 DEF SaveFile
<1>3. ASSUME NEW e \in RemoteEdits, OtherPush(e) PROVE Kept'
  <2>1. Text(remote) \cup {e} \in Texts /\ remote \in Commits
    BY TextType, WordsTyped, TextsClosed DEF TypeOK
  <2>2. Grows(remote')
    BY <1>3, <2>1, AppendGrows DEF OtherPush
  <2> QED BY <1>3, <2>2 DEF OtherPush
<1>4. CASE PowerLoss
  BY <1>4 DEF PowerLoss, Arrived, Clean, TypeOK
<1> QED BY <1>1, <1>2, <1>3, <1>4 DEF Around

\* git_sync outside of do_rebase_onto.
LEMMA KeptSync ==
    ASSUME TypeOK, TypeOK', Kept, Clean',
           \/ OpenOrInit \/ AddOrigin \/ Recover \/ Commit \/ Fetch \/ Reconcile
           \/ FastForward \/ Advance \/ Rollback \/ Push \/ Send
    PROVE  Kept'
<1> USE DEF Kept, HistoriesGrow, FolderKeepsUp, RebaseKeepsUp, InRebase, MayUndo, DeviceText,
        At, Go, Ends, repository, locals, history, world, outside
<1>1. CASE OpenOrInit
  BY <1>1 DEF OpenOrInit
<1>2. CASE AddOrigin
  BY <1>2 DEF AddOrigin
<1>3. CASE Recover
  BY <1>3 DEF Recover
<1>4. CASE Commit
  <2>1. branch \in Commits /\ work \in Texts /\ Text(branch) \subseteq work
    BY <1>4 DEF Commit, TypeOK
  <2>2. Grows(branch') /\ Text(branch') \subseteq work /\ Text(branch) \subseteq Text(branch')
    BY <1>4, <2>1, AppendGrows DEF Commit
  <2> QED BY <1>4, <2>2 DEF Commit
<1>5. CASE Fetch
  BY <1>5 DEF Fetch
<1>6. CASE Reconcile
  BY <1>6 DEF Reconcile
<1>7. CASE FastForward
  <2>1. Text(branch) \subseteq Text(tracking)
    BY <1>7, PrefixIsSmaller DEF FastForward, TypeOK
  <2> QED BY <1>7, <2>1 DEF FastForward, CanCheckOut, CheckOut
<1>8. CASE Advance
  BY <1>8 DEF Advance
<1>9. CASE Rollback
  BY <1>9 DEF Rollback
<1>10. CASE Push
  BY <1>10 DEF Push
<1>11. CASE Send
  BY <1>11 DEF Send
<1> QED BY <1>1, <1>2, <1>3, <1>4, <1>5, <1>6, <1>7, <1>8, <1>9, <1>10, <1>11

\* do_rebase_onto.
LEMMA KeptRebase ==
    ASSUME TypeOK, TypeOK', Kept, Clean',
           \/ RebaseInit \/ RebaseOnto \/ RebaseDetach \/ RebaseNext \/ RebaseStage
           \/ RebaseCrowded
           \/ RebaseCommit \/ RebaseFinish \/ RebaseAbort
    PROVE  Kept'
<1> USE DEF Kept, HistoriesGrow, FolderKeepsUp, RebaseKeepsUp, InRebase, MayUndo, DeviceText,
        At, Go, repository, locals, history, world, outside
<1>0. branch \in Commits /\ tracking \in Commits /\ dhead \in Commits /\ index \in Texts
      /\ next \in Nat /\ next > 0 /\ Len(branch) \in Nat
  BY DEF TypeOK, Commits
<1>1. CASE RebaseInit
  <2>1. CASE work = index /\ index = Text(branch) /\ rebasing'
    <3>1. PICK n \in 0..(Len(branch) - 1) : MergeBase(n) /\ next' = n + 1
      BY <1>1, <2>1 DEF RebaseInit, TypeOK
    <3>2. n \in Nat /\ n <= Len(branch) /\ next' <= Len(branch) + 1 /\ next' - 1 = n
      BY <1>0, <3>1
    <3>3. Holds(branch, n, Text(tracking))
      BY <1>0, <3>1, <3>2, CommonIsHeld DEF MergeBase
    <3> QED BY <1>1, <2>1, <3>2, <3>3 DEF RebaseInit
  <2>2. CASE pc' = "rollback" /\ UNCHANGED <<rebasing, next>>
    BY <1>1, <2>2 DEF RebaseInit
  <2> QED BY <1>1, <2>1, <2>2 DEF RebaseInit
<1>2. CASE RebaseOnto
  BY <1>2 DEF RebaseOnto, CanCheckOut, CheckOut
<1>3. CASE RebaseDetach
  BY <1>3 DEF RebaseDetach
<1>4. CASE RebaseNext
  <2> DEFINE ours   == Text(dhead)
             theirs == branch[next]
             base   == Text(SubSeq(branch, 1, next - 1))
  <2>1. next \in 1..Len(branch) /\ next - 1 \in Nat /\ (next - 1) + 1 = next
    BY <1>0, <1>4 DEF RebaseNext
  <2>2. work = ours /\ index = ours /\ Holds(branch, next - 1, ours)
    BY <1>4 DEF RebaseNext
  <2>3. ours \in Texts /\ theirs \in Texts /\ ours \cup theirs \in Texts
    <3>1. ours \in Texts
      BY <1>0, TextType
    <3>2. theirs \in Texts
      BY <1>0, <2>1 DEF Commits
    <3> HIDE DEF ours, theirs
    <3> QED BY <3>1, <3>2, TextsClosed
  <2>4. Merge(base, ours, theirs) = ours \cup theirs
    BY <1>0, <2>1, <2>2, <2>3, MergeKeeps
  <2>5. Holds(branch, next, ours \cup theirs)
    <3>1. Holds(branch, next - 1, ours \cup theirs)
      BY <1>0, <2>1, <2>2, <2>3, HoldsFacts
    <3> QED BY <1>0, <2>1, <2>3, <3>1, HoldsFacts
  <2>6. /\ work' = ours \cup theirs
        /\ (pc' = "rb_commit" /\ index' = work') \/ pc' = "rb_stage"
    BY <1>4, <2>2, <2>4 DEF RebaseNext, Replayed, Conflicted
  <2> HIDE DEF theirs, base
  <2> QED BY <1>4, <2>1, <2>5, <2>6 DEF RebaseNext
<1>5. CASE RebaseStage
  BY <1>5 DEF RebaseStage
<1>6. CASE RebaseCommit
  <2>1. Text(dhead') = index /\ Grows(dhead')
    BY <1>0, <1>6, AppendGrows DEF RebaseCommit
  <2>2. next' = next + 1 /\ next' - 1 = next /\ next' <= Len(branch) + 1
    BY <1>0, <1>6 DEF RebaseCommit
  <2> QED BY <1>6, <2>1, <2>2 DEF RebaseCommit
<1>7. CASE RebaseFinish
  <2>1. next - 1 = Len(branch) /\ Holds(branch, Len(branch), Text(dhead))
    BY <1>0, <1>7 DEF RebaseFinish
  <2>2. Text(branch) \subseteq Text(dhead)
    BY <1>0, <2>1, TextType, HoldsFacts
  <2> QED BY <1>7, <2>2 DEF RebaseFinish
<1>8. CASE RebaseAbort
  BY <1>8 DEF RebaseAbort, Aborts, Attach, ToBranch
<1>9. CASE RebaseCrowded
  BY <1>9 DEF RebaseCrowded
<1> QED BY <1>1, <1>2, <1>3, <1>4, <1>5, <1>6, <1>7, <1>8, <1>9

\* Every step keeps what the device's user saved.
LEMMA KeptNext ==
    ASSUME IInv, IInv', Clean => Kept, [Next]_vars, Clean' PROVE Kept'
<1>1. TypeOK /\ TypeOK' /\ Kept
  BY CleanBefore DEF IInv
<1>2. CASE UNCHANGED vars \/ Start
  BY <1>1, <1>2 DEF vars, Start, Kept, HistoriesGrow, FolderKeepsUp, RebaseKeepsUp, InRebase,
     MayUndo, DeviceText, At, Go, repository, locals, history, world
<1>3. CASE Fallible
  BY <1>1, <1>3, KeptFallible
<1>4. CASE Around
  BY <1>1, <1>4, KeptAround
<1>5. CASE Steady
  BY <1>1, <1>5, KeptSync, KeptRebase DEF Steady
<1> QED BY <1>2, <1>3, <1>4, <1>5 DEF Next

-----------------------------------------------------------------------------
\* git_engine.h:30, for any edits, failures, power losses and pushes of others: whatever
\* the user saved stays on the device, but for the three cases NothingLost names.
THEOREM NothingIsLost == Spec => []NothingLost
<1>1. Init => KInv
  BY TypeInit, KeptInit DEF KInv, IInv, SendsFastForward, Init
<1>2. KInv /\ [Next]_vars => KInv'
  <2> SUFFICES ASSUME KInv, [Next]_vars PROVE KInv'
    OBVIOUS
  <2>1. IInv'
    BY TypeNext, SendNext DEF KInv, IInv
  <2> QED BY <2>1, KeptNext DEF KInv
<1>3. KInv => NothingLost
  BY DEF KInv, NothingLost, Clean, Kept, FolderKeepsUp
<1> QED BY <1>1, <1>2, <1>3, PTL DEF Spec

-----------------------------------------------------------------------------
(* A sync that rolls back leaves things as it found them.                  *)

\* What the branch is taken back to, and what folder and branch hold on the way there,
\* unless the editor saved or a rebase broke meanwhile.
Undoes ==
    /\ pc # "idle" => result = "none"
    /\ ~touched /\ pc = "commit" =>
          branch = found.branch /\ work = found.text /\ ~detached /\ ~rebasing
    /\ ~touched /\ pc \in MayUndo \ {"advance"} =>
          /\ found.branch = (IF made THEN before ELSE branch)
          /\ found.text = Text(branch)
          /\ rebasing <=> pc \in InRebase
    /\ ~touched /\ pc \in {"fetch", "reconcile", "checkout", "rb_init", "rb_onto", "rollback"} =>
          work = found.text /\ ~detached

LEMMA UndoesNext == TypeOK /\ Undoes /\ [Next]_vars => Undoes'
<1> SUFFICES ASSUME TypeOK, Undoes, [Next]_vars PROVE Undoes'
  OBVIOUS
<1> USE DEF Undoes, MayUndo, InRebase, At, Go, Ends, Failing, repository, locals, history,
            world, outside, WriteFails, Aborts, Attach, ToBranch
<1>1. CASE UNCHANGED vars \/ Start
  BY <1>1 DEF vars, Start
<1>2. CASE Fallible
  <2>1. CASE RebaseBreaks
    BY <2>1 DEF RebaseBreaks
  <2>2. CASE RebaseFails
    BY <2>2 DEF RebaseFails
  <2> QED BY <1>2, <2>1, <2>2 DEF Fallible, AddOriginFails, CommitFails, FetchFails, PushFails,
                 SendFails
<1>3. CASE Around
  <2>1. CASE PowerLoss
    BY <2>1 DEF PowerLoss
  <2>2. ASSUME NEW S \in SUBSET DeviceEdits, SaveFile(S) PROVE Undoes'
    <3>1. CASE pc = "idle"
      BY <2>2, <3>1 DEF SaveFile
    <3>2. CASE pc # "idle"
      BY <2>2, <3>2 DEF SaveFile
    <3> QED BY <3>1, <3>2
  <2> QED BY <1>3, <2>1, <2>2 DEF Around, OpenFile, OtherPush
<1>4. CASE Steady
  <2>1. CASE OpenOrInit \/ AddOrigin \/ Fetch \/ Reconcile \/ Advance \/ Rollback \/ Push \/ Send
    BY <2>1 DEF OpenOrInit, AddOrigin, Fetch, Reconcile, Advance, Rollback, Push, Send
  <2>2. CASE Recover
    BY <2>2 DEF Recover
  <2>3. CASE Commit
    <3>1. Text(branch') = work
      <4>1. branch \in Commits /\ work \in Texts
        BY DEF TypeOK
      <4>2. Text(Append(branch, work)) = work
        BY <4>1, AppendGrows
      <4> HIDE DEF Undoes
      <4> QED BY <2>3, <4>2 DEF Commit, Differs
    <3>2. made' \in BOOLEAN /\ (~made' => branch' = branch) /\ before' = branch
      BY <2>3 DEF Commit
    <3>3. /\ pc = "commit" /\ pc' = "fetch"
          /\ UNCHANGED <<result, work, found, touched, detached, rebasing>>
      BY <2>3 DEF Commit
    <3> QED BY <3>1, <3>2, <3>3
  <2>4. CASE FastForward
    BY <2>4 DEF FastForward, CanCheckOut
  <2>5. CASE RebaseInit
    BY <2>5 DEF RebaseInit
  <2>6. CASE RebaseOnto
    BY <2>6 DEF RebaseOnto, CanCheckOut
  <2>7. CASE \/ RebaseDetach \/ RebaseStage \/ RebaseCrowded \/ RebaseCommit
             \/ RebaseFinish \/ RebaseAbort
    BY <2>7 DEF RebaseDetach, RebaseStage, RebaseCrowded, RebaseCommit, RebaseFinish,
       RebaseAbort
  <2>8. CASE RebaseNext
    BY <2>8 DEF RebaseNext, Replayed, Conflicted
  <2> QED BY <1>4, <2>1, <2>2, <2>3, <2>4, <2>5, <2>6, <2>7, <2>8 DEF Steady
<1> QED BY <1>1, <1>2, <1>3, <1>4 DEF Next

\* The step that ends a failed sync is the rollback.
LEMMA UndoStep ==
    ASSUME Undoes, [Next]_vars, pc = "rollback", result' = "failed", ~touched
    PROVE  branch' = found.branch /\ work' = found.text /\ ~detached' /\ ~rebasing'
<1> USE DEF Undoes, MayUndo, InRebase, At, Go, Ends, Failing, repository, locals, history,
            world, outside, Aborts
<1>1. CASE Rollback
  BY <1>1 DEF Rollback
<1>2. CASE ~Rollback
  BY <1>2 DEF Next, vars, Start, Steady, Fallible, Around, OpenFile, SaveFile, OtherPush,
     PowerLoss, AddOriginFails, CommitFails, FetchFails, RebaseFails, RebaseBreaks, PushFails,
     SendFails, OpenOrInit, AddOrigin, Recover, Commit, Fetch, Reconcile, FastForward, Advance,
     RebaseInit, RebaseOnto, RebaseDetach, RebaseNext, RebaseStage, RebaseCrowded, RebaseCommit,
     RebaseFinish, RebaseAbort, Push, Send
<1> QED BY <1>1, <1>2

\* oyobyok_git.c:299: the rollback takes the commit of this sync, and nothing else, back.
THEOREM RollbackUndoes == Spec => LeavesAsFound
<1>1. Init => Undoes
  BY DEF Init, Undoes, MayUndo, InRebase
<1>2. TypeOK /\ Undoes /\ [Next]_vars
        => [(pc = "rollback" /\ result' = "failed" /\ ~touched) =>
            /\ branch' = found.branch /\ work' = found.text
            /\ ~detached' /\ ~rebasing']_vars
  BY UndoStep
<1> QED BY <1>1, <1>2, UndoesNext, TypeCorrect, PTL DEF Spec, LeavesAsFound

-----------------------------------------------------------------------------
(* A careful user's syncs implement the exchange of Replica.               *)

\* What the device takes over came from the remote.
TakesOver ==
    /\ Text(tracking) \subseteq Text(remote)
    /\ pc \in {"rb_next", "rb_stage", "rb_commit"} =>
          Text(dhead) \subseteq Text(branch) \cup Text(tracking)
    /\ pc = "rb_stage" => work \subseteq Text(branch) \cup Text(tracking)
    /\ pc = "rb_commit" => index \subseteq Text(branch) \cup Text(tracking)

\* A commit's text is part of the text of the last one.
LEMMA CommitInText ==
    ASSUME NEW c \in Commits, Grows(c), NEW n \in 1..Len(c)
    PROVE  c[n] \in Texts /\ c[n] \subseteq Text(c)
<1>1. c # <<>> /\ n <= Len(c) /\ c[n] \in Texts
  BY DEF Commits
<1> QED BY <1>1, TextIsLast DEF Grows

\* A merge of the next commit with what was replayed.
LEMMA ReplayStep ==
    ASSUME TypeOK, Kept, RebaseNext, pc = "rb_next"
    PROVE  /\ work' = Text(dhead) \cup branch[next]
           /\ branch[next] \subseteq Text(branch)
           /\ (pc' = "rb_commit" /\ index' = work') \/ pc' = "rb_stage"
<1> DEFINE ours   == Text(dhead)
           theirs == branch[next]
           base   == Text(SubSeq(branch, 1, next - 1))
<1>1. /\ branch \in Commits /\ dhead \in Commits /\ Grows(branch)
      /\ next \in 1..Len(branch)
  BY DEF TypeOK, Kept, HistoriesGrow, RebaseNext, Commits
<1>2. work = ours /\ index = ours /\ Holds(branch, next - 1, ours)
  BY DEF Kept, RebaseKeepsUp
<1>3. ours \in Texts
  BY <1>1, TextType
<1>4. Merge(base, ours, theirs) = ours \cup theirs
  BY <1>1, <1>2, <1>3, MergeKeeps
<1>5. theirs \subseteq Text(branch)
  BY <1>1, CommitInText
<1>6. work' = ours \cup theirs /\ ((pc' = "rb_commit" /\ index' = work') \/ pc' = "rb_stage")
  BY <1>2, <1>4 DEF RebaseNext, Replayed, Conflicted, Go
<1> QED BY <1>5, <1>6

LEMMA TakesOverNext ==
    ASSUME IInv, IInv', Kept, Kept', TakesOver, [Next]_vars, Clean' PROVE TakesOver'
<1>1. TypeOK /\ TypeOK' /\ Text(remote) \subseteq Text(remote')
  <2>1. TypeOK /\ TypeOK' /\ Grows(remote')
    BY DEF IInv, Kept, HistoriesGrow
  <2>2. IsPrefix(remote, remote')
    BY RemoteStep DEF IInv
  <2> QED BY <2>1, <2>2, PrefixIsSmaller DEF TypeOK
<1> USE DEF TakesOver, At, Go, Ends, Failing, repository, locals, history, world, outside
<1>2. CASE UNCHANGED vars \/ Start
  BY <1>2 DEF vars, Start
<1>3. CASE Fallible
  BY <1>1, <1>3 DEF Fallible, AddOriginFails, CommitFails, FetchFails, RebaseFails, RebaseBreaks,
     PushFails, SendFails
<1>4. CASE Around
  <2>1. ASSUME NEW S \in SUBSET DeviceEdits, SaveFile(S) PROVE TakesOver'
    BY <2>1 DEF SaveFile, Clean, Kept, FolderKeepsUp, InRebase, TypeOK
  <2>2. CASE PowerLoss
    BY <1>1, <2>2 DEF PowerLoss
  <2> QED BY <1>1, <1>4, <2>1, <2>2 DEF Around, OpenFile, OtherPush
<1>5. CASE Steady
  <2>1. CASE \/ OpenOrInit \/ AddOrigin \/ Recover \/ Commit \/ Fetch \/ Reconcile
             \/ FastForward \/ Advance \/ Rollback \/ Push
    BY <2>1 DEF OpenOrInit, AddOrigin, Recover, Commit, Fetch, Reconcile, FastForward, Advance,
       Rollback, Push
  <2>2. CASE Send
    BY <1>1, <2>2 DEF Send
  <2>3. CASE \/ RebaseInit \/ RebaseOnto \/ RebaseDetach \/ RebaseStage \/ RebaseCrowded
             \/ RebaseFinish \/ RebaseAbort
    BY <2>3 DEF RebaseInit, RebaseOnto, RebaseDetach, RebaseStage, RebaseCrowded, RebaseFinish,
       RebaseAbort, Attach
  <2>4. CASE RebaseNext
    BY <1>1, <2>4, ReplayStep DEF RebaseNext
  <2>5. CASE RebaseCommit
    <3>1. Text(dhead') \in {Text(dhead), index}
      <4>1. dhead \in Commits /\ index \in Texts
        BY <1>1 DEF TypeOK
      <4>2. Text(Append(dhead, index)) = index
        BY <4>1, AppendGrows
      <4> QED BY <2>5, <4>2 DEF RebaseCommit
    <3> QED BY <2>5, <3>1 DEF RebaseCommit
  <2> QED BY <1>5, <2>1, <2>2, <2>3, <2>4, <2>5 DEF Steady
<1> QED BY <1>2, <1>3, <1>4, <1>5 DEF Next

\* Every step is one of Replica's or stutters.
LEMMA ExchangeStep ==
    ASSUME IInv, IInv', Kept, Kept', TakesOver, [Next]_vars, Clean'
    PROVE  [Copies!Next]_(Copies!copies)
<1>1. /\ TypeOK /\ TypeOK' /\ Text(remote) \subseteq Text(remote')
      /\ rebasing <=> pc \in InRebase
      /\ rebasing' <=> pc' \in InRebase
  <2>1. TypeOK /\ TypeOK' /\ Grows(remote')
    BY DEF IInv, Kept, HistoriesGrow
  <2>2. IsPrefix(remote, remote')
    BY RemoteStep DEF IInv
  <2> QED BY <2>1, <2>2, PrefixIsSmaller DEF TypeOK, Kept, FolderKeepsUp
<1> USE DEF At, Go, Ends, Failing, repository, locals, history, world, outside
<1>2. CASE UNCHANGED <<DeviceText, Text(remote)>>
  BY <1>2 DEF Copies!copies
<1>3. ASSUME NEW S \in SUBSET DeviceEdits, SaveFile(S) PROVE Copies!Write
  <2>1. file = work /\ ~rebasing /\ ~rebasing'
    BY <1>1, <1>3 DEF SaveFile, Clean, TypeOK
  <2> QED BY <1>3, <2>1 DEF SaveFile, Copies!Write, DeviceText
<1>4. ASSUME NEW e \in RemoteEdits, OtherPush(e) PROVE Copies!Contribute
  <2>1. Text(remote) \cup {e} \in Texts /\ remote \in Commits
    BY <1>1, TextType, WordsTyped, TextsClosed DEF TypeOK
  <2>2. Text(remote') = Text(remote) \cup {e}
    BY <1>4, <2>1, AppendGrows DEF OtherPush
  <2> QED BY <1>4, <2>2 DEF OtherPush, Copies!Contribute, DeviceText
<1>5. CASE FastForward \/ RebaseFinish
  <2>1. UNCHANGED remote /\ ~rebasing'
    BY <1>1, <1>5 DEF FastForward, RebaseFinish, InRebase
  <2>2. CASE FastForward
    <3>1. ~rebasing /\ Text(branch) \subseteq Text(tracking) /\ Text(tracking) \subseteq Text(remote)
      BY <1>1, <2>2, PrefixIsSmaller DEF FastForward, InRebase, Kept, FolderKeepsUp, HistoriesGrow,
         TypeOK, TakesOver
    <3>2. work' = work \/ (work = Text(branch) /\ work' = Text(tracking))
      BY <2>2 DEF FastForward, CheckOut
    <3>3. DeviceText' = DeviceText \cup {} \/ DeviceText' = DeviceText \cup Text(tracking)
      BY <2>1, <3>1, <3>2 DEF DeviceText
    <3>4. {} \in SUBSET Text(remote) /\ Text(tracking) \in SUBSET Text(remote)
      BY <3>1
    <3> QED BY <2>1, <3>3, <3>4 DEF Copies!Pull, Copies!Next
  <2>3. CASE RebaseFinish
    <3>1. rebasing /\ work' = Text(dhead) /\ Text(dhead) \subseteq Text(branch) \cup Text(remote)
      BY <1>1, <2>3 DEF RebaseFinish, InRebase, Kept, RebaseKeepsUp, TakesOver
    <3>2. Text(branch) \subseteq Text(dhead)
      <4>1. branch \in Commits /\ next <= Len(branch) + 1 /\ next > Len(branch) /\ next \in Nat
        BY <1>1, <2>3 DEF RebaseFinish, Kept, RebaseKeepsUp, TypeOK
      <4>2. next - 1 = Len(branch)
        BY <4>1 DEF Commits
      <4>3. Holds(branch, Len(branch), Text(dhead))
        BY <2>3, <4>2 DEF RebaseFinish, Kept, RebaseKeepsUp
      <4> QED BY <1>1, <4>1, <4>3, TextType, HoldsFacts DEF TypeOK
    <3>3. DeviceText' = DeviceText \cup (Text(dhead) \ Text(branch))
      BY <2>1, <3>1, <3>2 DEF DeviceText
    <3>4. Text(dhead) \ Text(branch) \in SUBSET Text(remote)
      BY <3>1
    <3> QED BY <2>1, <3>3, <3>4 DEF Copies!Pull, Copies!Next
  <2> QED BY <1>5, <2>2, <2>3
<1>6. CASE Send \/ SendFails \/ (PowerLoss /\ pc = "send")
  <2>1. UNCHANGED <<work, rebasing, branch>> /\ ~rebasing
    BY <1>1, <1>6 DEF Send, SendFails, PowerLoss, InRebase
  <2>2. remote' = remote \/ remote' = branch
    BY <1>6 DEF Send, SendFails, PowerLoss, Arrived
  <2>3. Text(branch) \subseteq work
    BY <2>1 DEF Kept, FolderKeepsUp
  <2> QED BY <1>1, <2>1, <2>2, <2>3 DEF DeviceText, Copies!Push, Copies!Next, Copies!copies
<1>7. \/ UNCHANGED <<DeviceText, Text(remote)>>
      \/ \E S \in SUBSET DeviceEdits : SaveFile(S)
      \/ \E e \in RemoteEdits : OtherPush(e)
      \/ FastForward \/ RebaseFinish \/ Send \/ SendFails \/ (PowerLoss /\ pc = "send")
  <2> USE DEF DeviceText
  <2>1. CASE UNCHANGED vars \/ Start \/ OpenFile
    BY <2>1 DEF vars, Start, OpenFile
  <2>2. CASE PowerLoss
    BY <2>2 DEF PowerLoss, Arrived
  <2>3. CASE Fallible
    BY <1>1, <2>3 DEF Fallible, AddOriginFails, CommitFails, FetchFails, RebaseFails, RebaseBreaks,
       PushFails, Clean
  <2>4. CASE OpenOrInit \/ AddOrigin \/ Fetch \/ Reconcile \/ Advance \/ Rollback \/ Push
    BY <1>1, <2>4 DEF OpenOrInit, AddOrigin, Fetch, Reconcile, Advance, Rollback, Push, InRebase
  <2>5. CASE Recover \/ Commit
    BY <1>1, <2>5 DEF Recover, Commit, InRebase
  <2>6. CASE RebaseInit
    BY <1>1, <2>6 DEF RebaseInit, InRebase
  <2>7. CASE RebaseOnto
    BY <1>1, <2>7 DEF RebaseOnto, InRebase, Kept, RebaseKeepsUp, CanCheckOut
  <2>8. CASE RebaseDetach \/ RebaseStage \/ RebaseCrowded \/ RebaseCommit \/ RebaseAbort
    BY <1>1, <2>8 DEF RebaseDetach, RebaseStage, RebaseCrowded, RebaseCommit, RebaseAbort, Aborts,
       ToBranch, InRebase
  <2>9. CASE RebaseNext
    BY <1>1, <2>9 DEF RebaseNext, InRebase
  <2> QED BY <2>1, <2>2, <2>3, <2>4, <2>5, <2>6, <2>7, <2>8, <2>9 DEF Next, Steady, Around
<1> QED BY <1>2, <1>3, <1>4, <1>5, <1>6, <1>7 DEF Copies!Next

\* A careful user's syncs, with any failures, power losses and pushes of others, implement
\* the exchange of two replicas: no step takes away what either side wrote.
THEOREM SyncExchanges == CarefulSpec => Exchanges
<1> DEFINE XInv == IInv /\ Clean /\ Kept /\ TakesOver
<1>1. Init => XInv /\ Copies!Init
  BY TypeInit, KeptInit, EmptyGrows DEF IInv, SendsFastForward, Init, Clean, TakesOver,
     Copies!Init, DeviceText
<1>2. XInv /\ [CarefulNext]_vars => XInv' /\ [Copies!Next]_(Copies!copies)
  <2> SUFFICES ASSUME XInv, [CarefulNext]_vars PROVE XInv' /\ [Copies!Next]_(Copies!copies)
    OBVIOUS
  <2>1. [Next]_vars /\ Clean'
    BY DEF CarefulNext, Clean, vars, history
  <2>2. IInv'
    BY <2>1, TypeNext, SendNext DEF IInv
  <2>3. Kept'
    BY <2>1, <2>2, KeptNext
  <2> QED BY <2>1, <2>2, <2>3, TakesOverNext, ExchangeStep
<1> QED BY <1>1, <1>2, PTL DEF CarefulSpec, Exchanges, Copies!Spec
=============================================================================
