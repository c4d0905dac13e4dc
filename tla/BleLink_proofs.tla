---------------------------- MODULE BleLink_proofs ----------------------------
(***************************************************************************)
(* Proofs about BleLink, for any keyboards, any number of connection tasks *)
(* and any number of the user's calls and of troubles.                     *)
(***************************************************************************)
EXTENDS BleLink, TLAPS

Reports == [type : EventTypes, kb : Keyboards]
Ends    == {"close", "refused"}

\* An end of k's link is under way; an open of it is, with no end behind it.
Lost(s, k) == \E i \in 1..Len(s) : s[i].kb = k /\ s[i].type \in Ends
FreshOpen(s, k) ==
    \E i \in 1..Len(s) : /\ s[i].kb = k /\ s[i].type = "open"
                         /\ \A j \in i..Len(s) : ~(s[j].kb = k /\ s[j].type \in Ends)

-----------------------------------------------------------------------------
(* The invariant.                                                          *)

OpenIsUp == \A k \in Keyboards : FreshOpen(events, k) => link[k] # "down"

Active(t) == pc[t] \notin {"none", "new"}

\* With one task at a time the flag tells whether there is one.
OneTask == ~tangled => /\ \A t, u \in Tasks : Active(t) /\ Active(u) => t = u
                       /\ \A t \in Tasks : Active(t) => running

\* Somebody to look for, before anybody looks.
SomebodyWanted ==
    /\ (name = None \/ conn = None) =>
          ~want /\ kickers = {} /\ ui # "ensure" /\ \A t \in Tasks : pc[t] = "none"
    /\ ui = "pick_wait" => picked \in Keyboards
    /\ \A t \in Tasks : pc[t] \in {"connecting", "discovering"} => target[t] \in Keyboards

\* Nothing is under way for a keyboard that was forgotten.
NothingForgotten ==
    saved = None /\ ~raced =>
        ~want /\ kickers = {} /\ ui # "ensure" /\ \A t \in Tasks : pc[t] = "none"

IInv == /\ TypeOK /\ OpenIsUp /\ NoGhost /\ OneTask /\ ScanOwnsRadio
        /\ SomebodyWanted /\ NothingForgotten

-----------------------------------------------------------------------------
(* Reports under way.                                                      *)

LEMMA AppendFacts ==
    ASSUME NEW s \in Seq(Reports), NEW e \in Reports
    PROVE  /\ Append(s, e) \in Seq(Reports)
           /\ \A k \in Keyboards :
                /\ Lost(s, k) \/ (e.kb = k /\ e.type \in Ends) => Lost(Append(s, e), k)
                /\ FreshOpen(Append(s, e), k) =>
                       /\ ~(e.kb = k /\ e.type \in Ends)
                       /\ FreshOpen(s, k) \/ (e.kb = k /\ e.type = "open")
<1> DEFINE a == Append(s, e)
<1>1. a \in Seq(Reports) /\ Len(a) = Len(s) + 1 /\ Len(s) \in Nat
  OBVIOUS
<1>2. /\ \A i \in 1..Len(s) : a[i] = s[i] /\ i \in 1..Len(a)
      /\ \A i \in 1..Len(a) : i \in 1..Len(s) \/ i = Len(a)
      /\ a[Len(a)] = e /\ Len(a) \in 1..Len(a)
  BY <1>1
<1> SUFFICES ASSUME NEW k \in Keyboards
             PROVE  /\ Lost(s, k) \/ (e.kb = k /\ e.type \in Ends) => Lost(a, k)
                    /\ FreshOpen(a, k) =>
                           /\ ~(e.kb = k /\ e.type \in Ends)
                           /\ FreshOpen(s, k) \/ (e.kb = k /\ e.type = "open")
  BY <1>1
<1>3. Lost(s, k) \/ (e.kb = k /\ e.type \in Ends) => Lost(a, k)
  BY <1>2 DEF Lost
<1>4. ASSUME FreshOpen(a, k)
      PROVE  /\ ~(e.kb = k /\ e.type \in Ends)
             /\ FreshOpen(s, k) \/ (e.kb = k /\ e.type = "open")
  <2>1. PICK i \in 1..Len(a) :
           /\ a[i].kb = k /\ a[i].type = "open"
           /\ \A j \in i..Len(a) : ~(a[j].kb = k /\ a[j].type \in Ends)
    BY <1>4 DEF FreshOpen
  <2>2. Len(a) \in i..Len(a)
    BY <1>1, <2>1
  <2>3. ~(e.kb = k /\ e.type \in Ends)
    BY <1>2, <2>1, <2>2
  <2>4. CASE i = Len(a)
    BY <1>2, <2>1, <2>3, <2>4
  <2>5. CASE i # Len(a)
    <3>1. i \in 1..Len(s) /\ s[i] = a[i]
      BY <1>2, <2>5
    <3>2. \A j \in i..Len(s) : j \in i..Len(a) /\ j \in 1..Len(s)
      BY <1>1, <3>1
    <3>3. \A j \in i..Len(s) : ~(s[j].kb = k /\ s[j].type \in Ends)
      BY <1>2, <2>1, <3>2
    <3> QED BY <2>1, <2>3, <3>1, <3>3 DEF FreshOpen
  <2> QED BY <2>4, <2>5
<1> QED BY <1>3, <1>4

LEMMA TailFacts ==
    ASSUME NEW s \in Seq(Reports), s # <<>>
    PROVE  /\ Tail(s) \in Seq(Reports) /\ Head(s) \in Reports
           /\ \A k \in Keyboards :
                /\ Lost(s, k) => Lost(Tail(s), k) \/ (Head(s).kb = k /\ Head(s).type \in Ends)
                /\ FreshOpen(Tail(s), k) => FreshOpen(s, k)
                /\ Head(s).kb = k /\ Head(s).type = "open" => FreshOpen(s, k) \/ Lost(Tail(s), k)
<1> DEFINE r == Tail(s)
<1>1. r \in Seq(Reports) /\ Len(r) = Len(s) - 1 /\ Len(s) \in Nat \ {0} /\ Head(s) \in Reports
  OBVIOUS
<1>2. /\ \A i \in 1..Len(r) : r[i] = s[i + 1] /\ i + 1 \in 1..Len(s)
      /\ \A i \in 1..Len(s) : i = 1 \/ (i - 1 \in 1..Len(r) /\ r[i - 1] = s[i])
      /\ Head(s) = s[1] /\ 1 \in 1..Len(s)
  BY <1>1
<1> SUFFICES ASSUME NEW k \in Keyboards
             PROVE  /\ Lost(s, k) => Lost(r, k) \/ (Head(s).kb = k /\ Head(s).type \in Ends)
                    /\ FreshOpen(r, k) => FreshOpen(s, k)
                    /\ Head(s).kb = k /\ Head(s).type = "open" => FreshOpen(s, k) \/ Lost(r, k)
  BY <1>1
<1>3. Lost(s, k) => Lost(r, k) \/ (Head(s).kb = k /\ Head(s).type \in Ends)
  BY <1>2 DEF Lost
<1>4. ASSUME FreshOpen(r, k) PROVE FreshOpen(s, k)
  <2>1. PICK i \in 1..Len(r) :
           /\ r[i].kb = k /\ r[i].type = "open"
           /\ \A j \in i..Len(r) : ~(r[j].kb = k /\ r[j].type \in Ends)
    BY <1>4 DEF FreshOpen
  <2>2. i + 1 \in 1..Len(s) /\ s[i + 1] = r[i]
    BY <1>2, <2>1
  <2>3. \A j \in i + 1..Len(s) : j \in 1..Len(s) /\ j # 1 /\ j - 1 \in i..Len(r)
    BY <1>1, <2>1
  <2>4. \A j \in i + 1..Len(s) : ~(s[j].kb = k /\ s[j].type \in Ends)
    BY <1>2, <2>1, <2>3
  <2> QED BY <2>1, <2>2, <2>4 DEF FreshOpen
<1>5. ASSUME Head(s).kb = k, Head(s).type = "open", ~Lost(r, k) PROVE FreshOpen(s, k)
  <2>1. \A j \in 1..Len(s) : ~(s[j].kb = k /\ s[j].type \in Ends)
    BY <1>2, <1>5 DEF Lost, Ends
  <2> QED BY <1>2, <1>5, <2>1 DEF FreshOpen
<1> QED BY <1>3, <1>4, <1>5

LEMMA PendingIs ==
    /\ \A k : Pending(k) <=> Lost(events, k)
    /\ \A k : Pending(k)' <=> Lost(events', k)
BY DEF Pending, Lost, Ends

-----------------------------------------------------------------------------
(* Types.                                                                  *)

USE DEF flags, who, screens, tasks, radio, history, bounds

FlagsOK   == want \in BOOLEAN /\ running \in BOOLEAN /\ byname \in BOOLEAN /\ fresh \in BOOLEAN
WhoOK     == /\ dev \in Known /\ name \in Names \cup {None} /\ conn \in Known
             /\ saved \in {None} \cup [addr : Keyboards, name : Names]
ScreensOK == ui \in UiPoints /\ hits \in SUBSET Keyboards /\ picked \in Known
TasksOK   == /\ pc \in [Tasks -> TaskPoints] /\ attempt \in [Tasks -> 0..2]
             /\ target \in [Tasks -> Known]
RadioOK   == /\ kickers \in SUBSET Keyboards /\ link \in [Keyboards -> {"down", "up", "secure"}]
             /\ events \in Seq(Reports)
             /\ bonded \in SUBSET Keyboards /\ keys \in SUBSET Keyboards
HistoryOK == /\ told \in BOOLEAN /\ missed \in BOOLEAN /\ joined \in BOOLEAN
             /\ tangled \in BOOLEAN /\ raced \in BOOLEAN
BoundsOK  == ops \in 0..MaxOps /\ troubles \in 0..MaxTroubles

LEMMA TypeGroups ==
    /\ TypeOK => /\ FlagsOK /\ WhoOK /\ ScreensOK /\ TasksOK
                 /\ RadioOK /\ HistoryOK /\ BoundsOK
    /\ FlagsOK' /\ WhoOK' /\ ScreensOK' /\ TasksOK' /\ RadioOK' /\ HistoryOK' /\ BoundsOK' =>
          TypeOK'
<1>1. TypeOK => FlagsOK /\ WhoOK
  BY DEF TypeOK, FlagsOK, WhoOK
<1>2. TypeOK => ScreensOK /\ TasksOK
  BY DEF TypeOK, ScreensOK, TasksOK
<1>3. TypeOK => RadioOK
  BY DEF TypeOK, RadioOK, Reports
<1>4. TypeOK => HistoryOK /\ BoundsOK
  BY DEF TypeOK, HistoryOK, BoundsOK
<1>5. FlagsOK' /\ WhoOK' /\ ScreensOK' /\ TasksOK' /\ RadioOK' /\ HistoryOK' /\ BoundsOK' =>
          TypeOK'
  BY DEF TypeOK, FlagsOK, WhoOK, ScreensOK, TasksOK, RadioOK, HistoryOK, BoundsOK, Reports
<1> QED BY <1>1, <1>2, <1>3, <1>4, <1>5

LEMMA TypeInit == Init => TypeOK
<1> SUFFICES ASSUME Init PROVE TypeOK
  OBVIOUS
<1> USE BleLinkAssumption
<1>1. FlagsOK /\ HistoryOK
  BY DEF Init, FlagsOK, HistoryOK
<1>2. WhoOK
  BY DEF Init, WhoOK, Known, Names
<1>3. ScreensOK
  BY DEF Init, ScreensOK, UiPoints, Known
<1>4. TasksOK
  BY DEF Init, TasksOK, TaskPoints, Known
<1>5. RadioOK
  BY DEF Init, RadioOK
<1>6. BoundsOK
  BY DEF Init, BoundsOK
<1> QED BY <1>1, <1>2, <1>3, <1>4, <1>5, <1>6
        DEF TypeOK, FlagsOK, WhoOK, ScreensOK, TasksOK, RadioOK, HistoryOK, BoundsOK, Reports

\* A new task takes a free place, and only while the flag is down.
LEMMA EnsureFacts ==
    ASSUME TasksOK, EnsureTask
    PROVE  /\ pc' \in [Tasks -> TaskPoints]
           /\ \A t \in Tasks : pc'[t] = pc[t] \/ (pc[t] = "none" /\ pc'[t] = "new")
<1>1. CASE running
  BY <1>1 DEF EnsureTask, TasksOK
<1>2. CASE ~running
  <2> DEFINE idle == {t \in Tasks : At(t, "none")}
             new  == CHOOSE t \in idle : TRUE
  <2>1. CASE idle = {}
    BY <1>2, <2>1 DEF EnsureTask, TasksOK
  <2>2. CASE idle # {}
    <3>1. new \in Tasks /\ pc[new] = "none"
      BY <2>2 DEF At
    <3>2. pc' = [pc EXCEPT ![new] = "new"]
      BY <1>2, <2>2 DEF EnsureTask, Go
    <3> QED BY <3>1, <3>2 DEF TasksOK, TaskPoints
  <2> QED BY <2>1, <2>2
<1> QED BY <1>1, <1>2

LEMMA HappensType ==
    ASSUME RadioOK, NEW type \in EventTypes, NEW k \in Keyboards
    PROVE  /\ Happens(type, k) => events' \in Seq(Reports)
           /\ \A more \in EventTypes :
                 events' = events \o <<[type |-> type, kb |-> k], [type |-> more, kb |-> k]>> =>
                     events' \in Seq(Reports)
<1>1. \A e \in Reports : Append(events, e) \in Seq(Reports)
  BY AppendFacts DEF RadioOK
<1>2. \A e, f \in Reports : events \o <<e, f>> \in Seq(Reports)
  BY DEF RadioOK
<1>3. \A any \in EventTypes : [type |-> any, kb |-> k] \in Reports
  BY DEF Reports
<1> QED BY <1>1, <1>2, <1>3 DEF Happens

LEMMA UnfinishedType == Unfinished \in BOOLEAN
BY DEF Unfinished

LEMMA TypeNext ==
    ASSUME TypeOK, SomebodyWanted, [Next]_vars
    PROVE  TypeOK'
<1> DEFINE Typed == /\ FlagsOK' /\ WhoOK' /\ ScreensOK' /\ TasksOK'
                    /\ RadioOK' /\ HistoryOK' /\ BoundsOK'
<1>0. SUFFICES Typed
  BY TypeGroups
<1> FlagsOK /\ WhoOK /\ ScreensOK /\ TasksOK /\ RadioOK /\ HistoryOK /\ BoundsOK
  BY TypeGroups
<1> USE BleLinkAssumption
<1>head. events # <<>> => Head(events).kb \in Known
  <2>1. events # <<>> => Head(events) \in Reports
    BY TailFacts DEF RadioOK
  <2> QED BY <2>1 DEF Reports, Known
<1>1. CASE Autoreconnect
  <2>1. FlagsOK'
    BY <1>1 DEF FlagsOK, Autoreconnect
  <2>2. WhoOK'
    BY <1>1 DEF WhoOK, Known, Autoreconnect
  <2>3. ScreensOK'
    BY <1>1 DEF ScreensOK, UiPoints, Known, Autoreconnect
  <2>4. TasksOK' /\ RadioOK' /\ HistoryOK' /\ BoundsOK'
    BY <1>1 DEF TasksOK, RadioOK, HistoryOK, BoundsOK, Autoreconnect
  <2> QED BY <2>1, <2>2, <2>3, <2>4
<1>2. CASE Scan
  <2>1. FlagsOK'
    BY <1>2 DEF FlagsOK, Scan, UserActs, Cancel
  <2>2. ScreensOK'
    BY <1>2 DEF ScreensOK, UiPoints, Known, Scan, UserActs, Cancel
  <2>3. TasksOK'
    BY <1>2 DEF TasksOK, TaskPoints, Known, Scan, UserActs, Cancel
  <2>4. BoundsOK'
    BY <1>2 DEF BoundsOK, Scan, UserActs, Cancel
  <2>5. WhoOK' /\ RadioOK' /\ HistoryOK'
    BY <1>2 DEF WhoOK, RadioOK, HistoryOK, Scan
  <2> QED BY <2>1, <2>2, <2>3, <2>4, <2>5
<1>3. CASE ScanStarts
  <2>1. ScreensOK'
    BY <1>3 DEF ScreensOK, UiPoints, Known, ScanStarts
  <2>2. FlagsOK' /\ WhoOK' /\ TasksOK' /\ RadioOK' /\ HistoryOK' /\ BoundsOK'
    BY <1>3 DEF FlagsOK, WhoOK, TasksOK, RadioOK, HistoryOK, BoundsOK, ScanStarts
  <2> QED BY <2>1, <2>2
<1>4. CASE ScanEnds
  <2>1. ScreensOK'
    BY <1>4 DEF ScreensOK, UiPoints, Known, ScanEnds
  <2>2. FlagsOK' /\ WhoOK' /\ TasksOK' /\ RadioOK' /\ HistoryOK' /\ BoundsOK'
    BY <1>4 DEF FlagsOK, WhoOK, TasksOK, RadioOK, HistoryOK, BoundsOK, ScanEnds
  <2> QED BY <2>1, <2>2
<1>5. CASE LeaveList
  <2>1. ScreensOK'
    BY <1>5 DEF ScreensOK, UiPoints, Known, LeaveList
  <2>2. FlagsOK' /\ WhoOK' /\ TasksOK' /\ RadioOK' /\ HistoryOK' /\ BoundsOK'
    BY <1>5 DEF FlagsOK, WhoOK, TasksOK, RadioOK, HistoryOK, BoundsOK, LeaveList
  <2> QED BY <2>1, <2>2
<1>6. ASSUME NEW k \in Keyboards, Pick(k) PROVE Typed
  <2>1. FlagsOK'
    BY <1>6 DEF FlagsOK, Pick, UserActs, Cancel
  <2>2. ScreensOK'
    BY <1>6 DEF ScreensOK, UiPoints, Known, Pick, UserActs, Cancel
  <2>3. TasksOK'
    BY <1>6 DEF TasksOK, TaskPoints, Known, Pick, UserActs, Cancel
  <2>4. BoundsOK'
    BY <1>6 DEF BoundsOK, Pick, UserActs, Cancel
  <2>5. WhoOK' /\ RadioOK' /\ HistoryOK'
    BY <1>6 DEF WhoOK, RadioOK, HistoryOK, Pick
  <2> QED BY <2>1, <2>2, <2>3, <2>4, <2>5
<1>7. CASE PickSets
  <2>1. FlagsOK'
    BY <1>7 DEF FlagsOK, PickSets, CloseDev
  <2>2. WhoOK'
    BY <1>7, SomebodyWanted DEF WhoOK, Known, Names, PickSets, CloseDev, SomebodyWanted
  <2>3. ScreensOK'
    BY <1>7 DEF ScreensOK, UiPoints, Known, PickSets, CloseDev
  <2>4. RadioOK'
    BY <1>7, HappensType DEF RadioOK, PickSets, CloseDev, GoesDown, EventTypes, WhoOK, Known
  <2>5. HistoryOK'
    BY <1>7, UnfinishedType DEF HistoryOK, PickSets, CloseDev
  <2>6. TasksOK' /\ BoundsOK'
    BY <1>7 DEF TasksOK, BoundsOK, PickSets
  <2> QED BY <2>1, <2>2, <2>3, <2>4, <2>5, <2>6
<1>8. CASE Ensure
  <2>1. ScreensOK'
    BY <1>8 DEF ScreensOK, UiPoints, Known, Ensure
  <2>2. TasksOK'
    BY <1>8, EnsureFacts DEF TasksOK, TaskPoints, Known, Ensure
  <2>3. HistoryOK'
    BY <1>8 DEF HistoryOK, Ensure
  <2>4. FlagsOK' /\ WhoOK' /\ RadioOK' /\ BoundsOK'
    BY <1>8 DEF FlagsOK, WhoOK, RadioOK, BoundsOK, Ensure
  <2> QED BY <2>1, <2>2, <2>3, <2>4
<1>9. CASE Forget
  <2>1. FlagsOK'
    BY <1>9 DEF FlagsOK, Forget, CloseDev, UserActs
  <2>2. WhoOK'
    BY <1>9 DEF WhoOK, Known, Forget, CloseDev, UserActs
  <2>3. RadioOK'
    <3>1. dev \in Keyboards \/ dev = None
      BY DEF WhoOK, Known
    <3>2. \/ dev # None /\ GoesDown(dev) /\ Happens("close", dev)
          \/ UNCHANGED <<link, events>>
      BY <1>9 DEF Forget, CloseDev
    <3>3. link' \in [Keyboards -> {"down", "up", "secure"}]
      BY <3>1, <3>2 DEF RadioOK, GoesDown
    <3>4. events' \in Seq(Reports)
      <4>1. CASE UNCHANGED <<link, events>>
        BY <4>1 DEF RadioOK
      <4>2. CASE dev \in Keyboards /\ Happens("close", dev)
        BY <4>2, HappensType DEF EventTypes
      <4> QED BY <3>1, <3>2, <4>1, <4>2
    <3>5. /\ kickers' \in SUBSET Keyboards
          /\ bonded' \in SUBSET Keyboards /\ keys' \in SUBSET Keyboards
      BY <1>9 DEF RadioOK, Forget
    <3> QED BY <3>3, <3>4, <3>5 DEF RadioOK
  <2>4. HistoryOK'
    BY <1>9 DEF HistoryOK, Forget, CloseDev, UserActs
  <2>5. BoundsOK'
    BY <1>9 DEF BoundsOK, Forget, CloseDev, UserActs
  <2>6. ScreensOK' /\ TasksOK'
    BY <1>9 DEF ScreensOK, TasksOK, Forget
  <2> QED BY <2>1, <2>2, <2>3, <2>4, <2>5, <2>6
<1>10. CASE Reboot
  <2>1. FlagsOK'
    BY <1>10 DEF FlagsOK, Reboot, UserActs
  <2>2. WhoOK'
    BY <1>10 DEF WhoOK, Known, Reboot, UserActs
  <2>3. ScreensOK'
    BY <1>10 DEF ScreensOK, UiPoints, Known, Reboot, UserActs
  <2>4. TasksOK'
    BY <1>10 DEF TasksOK, TaskPoints, Known, Reboot, UserActs
  <2>5. RadioOK'
    BY <1>10 DEF RadioOK, Reboot, UserActs
  <2>6. HistoryOK'
    BY <1>10 DEF HistoryOK, Reboot, UserActs
  <2>7. BoundsOK'
    BY <1>10 DEF BoundsOK, Reboot, UserActs
  <2> QED BY <2>1, <2>2, <2>3, <2>4, <2>5, <2>6, <2>7
<1>11. ASSUME NEW t \in Tasks, Starts(t) PROVE Typed
  <2>1. FlagsOK'
    BY <1>11 DEF FlagsOK, Starts, At, Go
  <2>2. TasksOK'
    BY <1>11 DEF TasksOK, TaskPoints, Known, Starts, At, Go
  <2>3. HistoryOK'
    BY <1>11 DEF HistoryOK, Starts, At, Go
  <2>4. WhoOK' /\ ScreensOK' /\ RadioOK' /\ BoundsOK'
    BY <1>11 DEF WhoOK, ScreensOK, RadioOK, BoundsOK, Starts
  <2> QED BY <2>1, <2>2, <2>3, <2>4
<1>12. ASSUME NEW t \in Tasks, Looks(t) PROVE Typed
  <2>1. TasksOK'
    BY <1>12 DEF TasksOK, TaskPoints, Known, Looks, At, Go
  <2>2. FlagsOK' /\ WhoOK' /\ ScreensOK' /\ RadioOK' /\ HistoryOK' /\ BoundsOK'
    BY <1>12 DEF FlagsOK, WhoOK, ScreensOK, RadioOK, HistoryOK, BoundsOK, Looks
  <2> QED BY <2>1, <2>2
<1>13. ASSUME NEW t \in Tasks, Finds(t) PROVE Typed
  <2>1. WhoOK'
    BY <1>13 DEF WhoOK, Known, Finds, Findable, At, Go
  <2>2. TasksOK'
    BY <1>13 DEF TasksOK, TaskPoints, Known, Finds, At, Go
  <2>3. FlagsOK' /\ ScreensOK' /\ RadioOK' /\ HistoryOK' /\ BoundsOK'
    BY <1>13 DEF FlagsOK, ScreensOK, RadioOK, HistoryOK, BoundsOK, Finds
  <2> QED BY <2>1, <2>2, <2>3
<1>14. ASSUME NEW t \in Tasks, FindsNothing(t) PROVE Typed
  <2>1. TasksOK'
    BY <1>14 DEF TasksOK, TaskPoints, Known, FindsNothing, At, Go, More, Trouble
  <2>2. HistoryOK'
    BY <1>14 DEF HistoryOK, FindsNothing, At, Go, More, Trouble
  <2>3. BoundsOK'
    BY <1>14 DEF BoundsOK, FindsNothing, At, Go, More, Trouble
  <2>4. FlagsOK' /\ WhoOK' /\ ScreensOK' /\ RadioOK'
    BY <1>14 DEF FlagsOK, WhoOK, ScreensOK, RadioOK, FindsNothing
  <2> QED BY <2>1, <2>2, <2>3, <2>4
<1>15. ASSUME NEW t \in Tasks, Opens(t) PROVE Typed
  <2>1. FlagsOK'
    BY <1>15 DEF FlagsOK, Opens, At, Go
  <2>2. TasksOK'
    BY <1>15 DEF TasksOK, TaskPoints, Known, Opens, At, Go, WhoOK
  <2>3. RadioOK'
    BY <1>15, SomebodyWanted DEF RadioOK, Opens, At, Go, SomebodyWanted, WhoOK, Known
  <2>4. WhoOK' /\ ScreensOK' /\ HistoryOK' /\ BoundsOK'
    BY <1>15 DEF WhoOK, ScreensOK, HistoryOK, BoundsOK, Opens
  <2> QED BY <2>1, <2>2, <2>3, <2>4
<1>16. ASSUME NEW t \in Tasks, Connects(t) PROVE Typed
  <2>1. TasksOK'
    BY <1>16 DEF TasksOK, TaskPoints, Known, Connects, At, Go
  <2>2. RadioOK'
    BY <1>16, SomebodyWanted DEF RadioOK, Connects, At, Go, SomebodyWanted
  <2>3. FlagsOK' /\ WhoOK' /\ ScreensOK' /\ HistoryOK' /\ BoundsOK'
    BY <1>16 DEF FlagsOK, WhoOK, ScreensOK, HistoryOK, BoundsOK, Connects
  <2> QED BY <2>1, <2>2, <2>3
<1>17. ASSUME NEW t \in Tasks, ConnectFails(t) PROVE Typed
  <2>1. TasksOK'
    BY <1>17 DEF TasksOK, TaskPoints, Known, ConnectFails, At, Go, Opened, Trouble
  <2>2. BoundsOK'
    BY <1>17 DEF BoundsOK, ConnectFails, At, Go, Opened, Trouble
  <2>3. FlagsOK' /\ WhoOK' /\ ScreensOK' /\ RadioOK' /\ HistoryOK'
    BY <1>17 DEF FlagsOK, WhoOK, ScreensOK, RadioOK, HistoryOK, ConnectFails
  <2> QED BY <2>1, <2>2, <2>3
<1>18. ASSUME NEW t \in Tasks, Discovers(t) PROVE Typed
  <2>1. TasksOK'
    BY <1>18 DEF TasksOK, TaskPoints, Known, Discovers, At, Go, Opened
  <2>2. RadioOK'
    BY <1>18, SomebodyWanted, HappensType
    DEF RadioOK, Discovers, At, Go, Opened, SomebodyWanted, EventTypes
  <2>3. FlagsOK' /\ WhoOK' /\ ScreensOK' /\ HistoryOK' /\ BoundsOK'
    BY <1>18 DEF FlagsOK, WhoOK, ScreensOK, HistoryOK, BoundsOK, Discovers
  <2> QED BY <2>1, <2>2, <2>3
<1>19. ASSUME NEW t \in Tasks, DiscoverFails(t) PROVE Typed
  <2>1. TasksOK'
    BY <1>19 DEF TasksOK, TaskPoints, Known, DiscoverFails, At, Go, Opened, Trouble
  <2>2. RadioOK'
    BY <1>19, SomebodyWanted, HappensType
    DEF RadioOK, DiscoverFails, At, Go, Opened, Trouble, SomebodyWanted, EventTypes, GoesDown
  <2>3. BoundsOK'
    BY <1>19 DEF BoundsOK, DiscoverFails, At, Go, Opened, Trouble
  <2>4. FlagsOK' /\ WhoOK' /\ ScreensOK' /\ HistoryOK'
    BY <1>19 DEF FlagsOK, WhoOK, ScreensOK, HistoryOK, DiscoverFails
  <2> QED BY <2>1, <2>2, <2>3, <2>4
<1>20. ASSUME NEW t \in Tasks, Judges(t) PROVE Typed
  <2>1. TasksOK'
    BY <1>20 DEF TasksOK, TaskPoints, Known, Judges, At, Go, More
  <2>2. HistoryOK'
    BY <1>20 DEF HistoryOK, Judges, At, Go, More
  <2>3. FlagsOK' /\ WhoOK' /\ ScreensOK' /\ RadioOK' /\ BoundsOK'
    BY <1>20 DEF FlagsOK, WhoOK, ScreensOK, RadioOK, BoundsOK, Judges
  <2> QED BY <2>1, <2>2, <2>3
<1>21. ASSUME NEW t \in Tasks, Leaves(t) PROVE Typed
  <2>1. FlagsOK'
    BY <1>21 DEF FlagsOK, Leaves, At, Go
  <2>2. TasksOK'
    BY <1>21 DEF TasksOK, TaskPoints, Known, Leaves, At, Go
  <2>3. WhoOK' /\ ScreensOK' /\ RadioOK' /\ HistoryOK' /\ BoundsOK'
    BY <1>21 DEF WhoOK, ScreensOK, RadioOK, HistoryOK, BoundsOK, Leaves
  <2> QED BY <2>1, <2>2, <2>3
<1>22. ASSUME NEW k \in Keyboards, KickerSecures(k) PROVE Typed
  <2>1. RadioOK'
    BY <1>22 DEF RadioOK, KickerSecures
  <2>2. FlagsOK' /\ WhoOK' /\ ScreensOK' /\ TasksOK' /\ HistoryOK' /\ BoundsOK'
    BY <1>22 DEF FlagsOK, WhoOK, ScreensOK, TasksOK, HistoryOK, BoundsOK, KickerSecures
  <2> QED BY <2>1, <2>2
<1>23. ASSUME NEW k \in Keyboards, KickerSaves(k) PROVE Typed
  <2>1. WhoOK'
    BY <1>23, SomebodyWanted DEF WhoOK, Known, KickerSaves, SomebodyWanted
  <2>2. RadioOK'
    BY <1>23 DEF RadioOK, KickerSaves
  <2>3. FlagsOK' /\ ScreensOK' /\ TasksOK' /\ HistoryOK' /\ BoundsOK'
    BY <1>23 DEF FlagsOK, ScreensOK, TasksOK, HistoryOK, BoundsOK, KickerSaves
  <2> QED BY <2>1, <2>2, <2>3
<1>24. ASSUME NEW k \in Keyboards, KickerStalls(k) PROVE Typed
  <2>1. FlagsOK'
    BY <1>24 DEF FlagsOK, KickerStalls, Trouble
  <2>2. RadioOK'
    BY <1>24, HappensType DEF RadioOK, KickerStalls, Trouble, GoesDown, EventTypes
  <2>3. BoundsOK'
    BY <1>24 DEF BoundsOK, KickerStalls, Trouble
  <2>4. WhoOK' /\ ScreensOK' /\ TasksOK' /\ HistoryOK'
    BY <1>24 DEF WhoOK, ScreensOK, TasksOK, HistoryOK, KickerStalls
  <2> QED BY <2>1, <2>2, <2>3, <2>4
<1>25. ASSUME NEW k \in Keyboards, KickerEnds(k) PROVE Typed
  <2>1. RadioOK'
    BY <1>25 DEF RadioOK, KickerEnds, Trouble
  <2>2. BoundsOK'
    BY <1>25 DEF BoundsOK, KickerEnds, Trouble
  <2>3. FlagsOK' /\ WhoOK' /\ ScreensOK' /\ TasksOK' /\ HistoryOK'
    BY <1>25 DEF FlagsOK, WhoOK, ScreensOK, TasksOK, HistoryOK, KickerEnds
  <2> QED BY <2>1, <2>2, <2>3
<1>26. CASE Handle
  <2>1. FlagsOK'
    BY <1>26 DEF FlagsOK, Handle, Tells, ClosedDev
  <2>2. WhoOK'
    BY <1>26, <1>head DEF WhoOK, Known, Handle, Tells, ClosedDev
  <2>3. TasksOK'
    BY <1>26, EnsureFacts DEF TasksOK, TaskPoints, Known, Handle, Tells, ClosedDev
  <2>4. RadioOK'
    BY <1>26, TailFacts DEF RadioOK, Handle, Tells, ClosedDev
  <2>5. HistoryOK'
    BY <1>26 DEF HistoryOK, Handle, Tells, ClosedDev
  <2>6. ScreensOK' /\ BoundsOK'
    BY <1>26 DEF ScreensOK, BoundsOK, Handle
  <2> QED BY <2>1, <2>2, <2>3, <2>4, <2>5, <2>6
<1>27. ASSUME NEW k \in Keyboards, Drops(k) PROVE Typed
  <2>1. RadioOK'
    BY <1>27, HappensType DEF RadioOK, Drops, Trouble, GoesDown, EventTypes
  <2>2. BoundsOK'
    BY <1>27 DEF BoundsOK, Drops, Trouble
  <2>3. FlagsOK' /\ WhoOK' /\ ScreensOK' /\ TasksOK' /\ HistoryOK'
    BY <1>27 DEF FlagsOK, WhoOK, ScreensOK, TasksOK, HistoryOK, Drops
  <2> QED BY <2>1, <2>2, <2>3
<1>28. ASSUME NEW k \in Keyboards, Refuses(k) PROVE Typed
  <2>1. RadioOK'
    BY <1>28, HappensType DEF RadioOK, Refuses, GoesDown, EventTypes
  <2>2. FlagsOK' /\ WhoOK' /\ ScreensOK' /\ TasksOK' /\ HistoryOK' /\ BoundsOK'
    BY <1>28 DEF FlagsOK, WhoOK, ScreensOK, TasksOK, HistoryOK, BoundsOK, Refuses
  <2> QED BY <2>1, <2>2
<1>29. ASSUME NEW k \in Keyboards, LosesKey(k) PROVE Typed
  <2>1. RadioOK'
    BY <1>29 DEF RadioOK, LosesKey, Trouble
  <2>2. BoundsOK'
    BY <1>29 DEF BoundsOK, LosesKey, Trouble
  <2>3. FlagsOK' /\ WhoOK' /\ ScreensOK' /\ TasksOK' /\ HistoryOK'
    BY <1>29 DEF FlagsOK, WhoOK, ScreensOK, TasksOK, HistoryOK, LosesKey
  <2> QED BY <2>1, <2>2, <2>3
<1>30. CASE UNCHANGED vars
  BY <1>30 DEF vars, FlagsOK, WhoOK, ScreensOK, TasksOK, RadioOK, HistoryOK, BoundsOK
<1> QED
  BY <1>1, <1>2, <1>3, <1>4, <1>5, <1>6, <1>7, <1>8, <1>9, <1>10, <1>11, <1>12,
     <1>13, <1>14, <1>15, <1>16, <1>17, <1>18, <1>19, <1>20, <1>21, <1>22, <1>23, <1>24,
     <1>25, <1>26, <1>27, <1>28, <1>29, <1>30
  DEF Next, Ui, User, Task, Kicker, Keyboard

-----------------------------------------------------------------------------
(* Links and what is told of them.                                         *)

\* A link that goes down leaves word of it, and no word of a link is lost.
Quiet ==
    \A k \in Keyboards :
        /\ FreshOpen(events', k) => FreshOpen(events, k) \/ link'[k] # "down"
        /\ link'[k] = "down" => link[k] = "down" \/ (Lost(events', k) /\ ~FreshOpen(events', k))
        /\ Lost(events, k) => Lost(events', k)

LEMMA QuietKeeps ==
    ASSUME WhoOK, OpenIsUp, NoGhost, Quiet, dev' \in {dev, None}
    PROVE  OpenIsUp' /\ NoGhost'
<1>1. OpenIsUp'
  BY DEF OpenIsUp, Quiet
<1>2. NoGhost'
  <2>1. SUFFICES ASSUME dev' # None PROVE link'[dev'] # "down" \/ Lost(events', dev')
    BY PendingIs DEF NoGhost
  <2>2. dev' = dev /\ dev \in Keyboards
    BY <2>1 DEF WhoOK, Known
  <2> QED BY <2>1, <2>2, PendingIs DEF NoGhost, Quiet
<1> QED BY <1>1, <1>2

LEMMA QuietStays ==
    ASSUME events' = events, \A k \in Keyboards : link'[k] = "down" => link[k] = "down"
    PROVE  Quiet
BY DEF Quiet

LEMMA QuietDown ==
    ASSUME RadioOK, NEW k \in Keyboards, NEW type \in Ends, GoesDown(k), Happens(type, k)
    PROVE  Quiet
<1> DEFINE e == [type |-> type, kb |-> k]
<1>1. e \in Reports
  BY DEF Reports, Ends, EventTypes
<1>2. events' = Append(events, e) /\ events \in Seq(Reports)
  BY DEF Happens, RadioOK
<1> HIDE DEF e
<1>3. e.type \in Ends /\ e.kb = k /\ e.type # "open"
  BY DEF e, Ends
<1>4. \A j \in Keyboards : j # k => link'[j] = link[j]
  BY DEF GoesDown, RadioOK
<1> QED BY <1>1, <1>2, <1>3, <1>4, AppendFacts DEF Quiet

LEMMA AppendTwice ==
    ASSUME NEW s \in Seq(Reports), NEW f \in Reports, NEW c \in Reports,
           f.type = "fail", c.type = "close"
    PROVE  /\ s \o <<f, c>> = Append(Append(s, f), c)
           /\ \A j \in Keyboards :
                /\ Lost(s, j) \/ j = c.kb => Lost(Append(Append(s, f), c), j)
                /\ FreshOpen(Append(Append(s, f), c), j) => FreshOpen(s, j) /\ j # c.kb
<1>1. Append(s, f) \in Seq(Reports)
  OBVIOUS
<1>2. \A j \in Keyboards :
        /\ Lost(s, j) => Lost(Append(s, f), j)
        /\ FreshOpen(Append(s, f), j) => FreshOpen(s, j)
  BY AppendFacts DEF Ends
<1>3. \A j \in Keyboards :
        /\ Lost(Append(s, f), j) \/ j = c.kb => Lost(Append(Append(s, f), c), j)
        /\ FreshOpen(Append(Append(s, f), c), j) => FreshOpen(Append(s, f), j) /\ j # c.kb
  BY <1>1, AppendFacts DEF Ends
<1>4. s \o <<f, c>> = Append(Append(s, f), c)
  OBVIOUS
<1>5. ASSUME NEW j \in Keyboards
      PROVE  /\ Lost(s, j) \/ j = c.kb => Lost(Append(Append(s, f), c), j)
             /\ FreshOpen(Append(Append(s, f), c), j) => FreshOpen(s, j) /\ j # c.kb
  BY <1>2, <1>3
<1> QED BY <1>4, <1>5

LEMMA QuietDownTwice ==
    ASSUME RadioOK, NEW k \in Keyboards, GoesDown(k),
           events' = events \o <<[type |-> "fail", kb |-> k], [type |-> "close", kb |-> k]>>
    PROVE  Quiet
<1>1. PICK f \in Reports, c \in Reports :
         /\ f.type = "fail" /\ c.type = "close" /\ c.kb = k
         /\ events' = events \o <<f, c>>
  <2>1. \A type \in EventTypes : [type |-> type, kb |-> k] \in Reports
    BY DEF Reports
  <2> QED BY <2>1 DEF EventTypes
<1>2. events \in Seq(Reports)
  BY DEF RadioOK
<1>3. \A j \in Keyboards :
        /\ Lost(events, j) \/ j = k => Lost(events', j)
        /\ FreshOpen(events', j) => FreshOpen(events, j) /\ j # k
  <2>1. events' = Append(Append(events, f), c)
    BY <1>1, <1>2, AppendTwice
  <2> SUFFICES ASSUME NEW j \in Keyboards
               PROVE  /\ Lost(events, j) \/ j = k => Lost(events', j)
                      /\ FreshOpen(events', j) => FreshOpen(events, j) /\ j # k
    OBVIOUS
  <2>2. /\ Lost(events, j) \/ j = k => Lost(Append(Append(events, f), c), j)
        /\ FreshOpen(Append(Append(events, f), c), j) => FreshOpen(events, j) /\ j # k
    BY <1>1, <1>2, AppendTwice
  <2> QED BY <2>1, <2>2
<1>4. \A j \in Keyboards : j # k => link'[j] = link[j]
  BY DEF GoesDown, RadioOK
<1>5. link'[k] = "down" => ~FreshOpen(events', k) /\ Lost(events', k)
  BY <1>3
<1> SUFFICES ASSUME NEW j \in Keyboards
             PROVE  /\ FreshOpen(events', j) => FreshOpen(events, j) \/ link'[j] # "down"
                    /\ link'[j] = "down" =>
                          link[j] = "down" \/ (Lost(events', j) /\ ~FreshOpen(events', j))
                    /\ Lost(events, j) => Lost(events', j)
  BY DEF Quiet
<1>6. CASE j = k
  BY <1>3, <1>5, <1>6
<1>7. CASE j # k
  BY <1>3, <1>4, <1>7
<1> QED BY <1>6, <1>7

LEMMA QuietTold ==
    ASSUME RadioOK, NEW k \in Keyboards, NEW type \in {"open", "fail"}, link' = link,
           Happens(type, k), type = "open" => link[k] # "down"
    PROVE  Quiet
<1> DEFINE e == [type |-> type, kb |-> k]
<1>1. e \in Reports
  BY DEF Reports, EventTypes
<1>2. events' = Append(events, e) /\ events \in Seq(Reports)
  BY DEF Happens, RadioOK
<1> HIDE DEF e
<1>3. e.kb = k /\ e.type = type /\ e.type \notin Ends
  BY DEF e, Ends
<1> QED BY <1>1, <1>2, <1>3, AppendFacts DEF Quiet

LEMMA QuietClose ==
    ASSUME WhoOK, RadioOK, CloseDev
    PROVE  Quiet
<1>1. CASE dev # None /\ link[dev] # "down"
  BY <1>1, QuietDown DEF CloseDev, WhoOK, Known, Ends
<1>2. CASE ~(dev # None /\ link[dev] # "down")
  BY <1>2, QuietStays DEF CloseDev
<1> QED BY <1>1, <1>2

LEMMA LinksNext ==
    ASSUME TypeOK, OpenIsUp, NoGhost, SomebodyWanted, [Next]_vars
    PROVE  OpenIsUp' /\ NoGhost'
<1> DEFINE Good == OpenIsUp' /\ NoGhost'
<1> SUFFICES Good
  OBVIOUS
<1> WhoOK /\ RadioOK /\ TasksOK
  BY TypeGroups
<1>1. CASE Autoreconnect
  <2>1. Quiet
    BY <1>1, QuietStays DEF Autoreconnect
  <2>2. dev' \in {dev, None}
    BY <1>1 DEF Autoreconnect
  <2> QED BY <2>1, <2>2, QuietKeeps
<1>2. CASE Scan
  <2>1. Quiet
    BY <1>2, QuietStays DEF Scan
  <2>2. dev' \in {dev, None}
    BY <1>2 DEF Scan
  <2> QED BY <2>1, <2>2, QuietKeeps
<1>3. CASE ScanStarts
  <2>1. Quiet
    BY <1>3, QuietStays DEF ScanStarts
  <2>2. dev' \in {dev, None}
    BY <1>3 DEF ScanStarts
  <2> QED BY <2>1, <2>2, QuietKeeps
<1>4. CASE ScanEnds
  <2>1. Quiet
    BY <1>4, QuietStays DEF ScanEnds
  <2>2. dev' \in {dev, None}
    BY <1>4 DEF ScanEnds
  <2> QED BY <2>1, <2>2, QuietKeeps
<1>5. CASE LeaveList
  <2>1. Quiet
    BY <1>5, QuietStays DEF LeaveList
  <2>2. dev' \in {dev, None}
    BY <1>5 DEF LeaveList
  <2> QED BY <2>1, <2>2, QuietKeeps
<1>6. ASSUME NEW k \in Keyboards, Pick(k) PROVE Good
  <2>1. Quiet
    BY <1>6, QuietStays DEF Pick
  <2>2. dev' \in {dev, None}
    BY <1>6 DEF Pick
  <2> QED BY <2>1, <2>2, QuietKeeps
<1>7. CASE PickSets
  <2>1. Quiet
    BY <1>7, QuietClose DEF PickSets
  <2>2. dev' \in {dev, None}
    BY <1>7 DEF PickSets, CloseDev
  <2> QED BY <2>1, <2>2, QuietKeeps
<1>8. CASE Ensure
  <2>1. Quiet
    BY <1>8, QuietStays DEF Ensure
  <2>2. dev' \in {dev, None}
    BY <1>8 DEF Ensure
  <2> QED BY <2>1, <2>2, QuietKeeps
<1>9. CASE Forget
  <2>1. Quiet
    BY <1>9, QuietClose DEF Forget
  <2>2. dev' \in {dev, None}
    BY <1>9 DEF Forget, CloseDev
  <2> QED BY <2>1, <2>2, QuietKeeps
<1>10. CASE Reboot
  <2>1. events' = <<>> /\ dev' = None
    BY <1>10 DEF Reboot
  <2>2. \A k : ~FreshOpen(events', k)
    BY <2>1 DEF FreshOpen
  <2> QED BY <2>1, <2>2 DEF OpenIsUp, NoGhost
<1>11. ASSUME NEW t \in Tasks, Starts(t) PROVE Good
  <2>1. Quiet
    BY <1>11, QuietStays DEF Starts
  <2>2. dev' \in {dev, None}
    BY <1>11 DEF Starts
  <2> QED BY <2>1, <2>2, QuietKeeps
<1>12. ASSUME NEW t \in Tasks, Looks(t) PROVE Good
  <2>1. Quiet
    BY <1>12, QuietStays DEF Looks
  <2>2. dev' \in {dev, None}
    BY <1>12 DEF Looks
  <2> QED BY <2>1, <2>2, QuietKeeps
<1>13. ASSUME NEW t \in Tasks, Finds(t) PROVE Good
  <2>1. Quiet
    BY <1>13, QuietStays DEF Finds
  <2>2. dev' \in {dev, None}
    BY <1>13 DEF Finds
  <2> QED BY <2>1, <2>2, QuietKeeps
<1>14. ASSUME NEW t \in Tasks, FindsNothing(t) PROVE Good
  <2>1. Quiet
    BY <1>14, QuietStays DEF FindsNothing
  <2>2. dev' \in {dev, None}
    BY <1>14 DEF FindsNothing
  <2> QED BY <2>1, <2>2, QuietKeeps
<1>15. ASSUME NEW t \in Tasks, Opens(t) PROVE Good
  <2>1. Quiet
    BY <1>15, QuietStays DEF Opens
  <2>2. dev' \in {dev, None}
    BY <1>15 DEF Opens
  <2> QED BY <2>1, <2>2, QuietKeeps
<1>16. ASSUME NEW t \in Tasks, Connects(t) PROVE Good
  <2>1. Quiet
    BY <1>16, QuietStays, SomebodyWanted DEF Connects, At, SomebodyWanted, RadioOK
  <2>2. dev' \in {dev, None}
    BY <1>16 DEF Connects
  <2> QED BY <2>1, <2>2, QuietKeeps
<1>17. ASSUME NEW t \in Tasks, ConnectFails(t) PROVE Good
  <2>1. Quiet
    BY <1>17, QuietStays DEF ConnectFails
  <2>2. dev' \in {dev, None}
    BY <1>17 DEF ConnectFails
  <2> QED BY <2>1, <2>2, QuietKeeps
<1>18. ASSUME NEW t \in Tasks, Discovers(t) PROVE Good
  <2>1. Quiet
    BY <1>18, QuietTold, SomebodyWanted DEF Discovers, At, SomebodyWanted
  <2>2. dev' \in {dev, None}
    BY <1>18 DEF Discovers
  <2> QED BY <2>1, <2>2, QuietKeeps
<1>19. ASSUME NEW t \in Tasks, DiscoverFails(t) PROVE Good
  <2>1. target[t] \in Keyboards
    BY <1>19 DEF DiscoverFails, At, SomebodyWanted
  <2>2. Quiet
    BY <1>19, <2>1, QuietTold, QuietDownTwice DEF DiscoverFails
  <2>3. dev' \in {dev, None}
    BY <1>19 DEF DiscoverFails
  <2> QED BY <2>2, <2>3, QuietKeeps
<1>20. ASSUME NEW t \in Tasks, Judges(t) PROVE Good
  <2>1. Quiet
    BY <1>20, QuietStays DEF Judges
  <2>2. dev' \in {dev, None}
    BY <1>20 DEF Judges
  <2> QED BY <2>1, <2>2, QuietKeeps
<1>21. ASSUME NEW t \in Tasks, Leaves(t) PROVE Good
  <2>1. Quiet
    BY <1>21, QuietStays DEF Leaves
  <2>2. dev' \in {dev, None}
    BY <1>21 DEF Leaves
  <2> QED BY <2>1, <2>2, QuietKeeps
<1>22. ASSUME NEW k \in Keyboards, KickerSecures(k) PROVE Good
  <2>1. Quiet
    BY <1>22, QuietStays DEF KickerSecures, RadioOK
  <2>2. dev' \in {dev, None}
    BY <1>22 DEF KickerSecures
  <2> QED BY <2>1, <2>2, QuietKeeps
<1>23. ASSUME NEW k \in Keyboards, KickerSaves(k) PROVE Good
  <2>1. Quiet
    BY <1>23, QuietStays DEF KickerSaves
  <2>2. dev' \in {dev, None}
    BY <1>23 DEF KickerSaves
  <2> QED BY <2>1, <2>2, QuietKeeps
<1>24. ASSUME NEW k \in Keyboards, KickerStalls(k) PROVE Good
  <2>1. Quiet
    BY <1>24, QuietDown DEF KickerStalls, Ends
  <2>2. dev' \in {dev, None}
    BY <1>24 DEF KickerStalls
  <2> QED BY <2>1, <2>2, QuietKeeps
<1>25. ASSUME NEW k \in Keyboards, KickerEnds(k) PROVE Good
  <2>1. Quiet
    BY <1>25, QuietStays DEF KickerEnds
  <2>2. dev' \in {dev, None}
    BY <1>25 DEF KickerEnds
  <2> QED BY <2>1, <2>2, QuietKeeps
<1>26. CASE Handle
  <2> DEFINE e == Head(events)
  <2>1. events # <<>> /\ events' = Tail(events) /\ link' = link /\ events \in Seq(Reports)
    BY <1>26 DEF Handle, RadioOK
  <2>2. /\ e \in Reports
        /\ \A k \in Keyboards :
             /\ Lost(events, k) => Lost(events', k) \/ (e.kb = k /\ e.type \in Ends)
             /\ FreshOpen(events', k) => FreshOpen(events, k)
             /\ e.kb = k /\ e.type = "open" => FreshOpen(events, k) \/ Lost(events', k)
    BY <2>1, TailFacts
  <2>3. OpenIsUp'
    BY <2>1, <2>2 DEF OpenIsUp
  <2>4. CASE e.type = "open" /\ dev' = e.kb
    <3>1. e.kb \in Keyboards
      BY <2>2 DEF Reports
    <3>2. link'[dev'] # "down" \/ Lost(events', dev')
      BY <2>1, <2>2, <2>4, <3>1 DEF OpenIsUp
    <3> QED BY <2>3, <3>2, PendingIs DEF NoGhost
  <2>5. CASE e.type = "fail" /\ dev' = dev
    <3>1. SUFFICES ASSUME dev # None PROVE link'[dev'] # "down" \/ Lost(events', dev')
      BY <2>3, <2>5, PendingIs DEF NoGhost
    <3>2. dev \in Keyboards /\ (link[dev] # "down" \/ Lost(events, dev))
      BY <3>1, PendingIs DEF NoGhost, WhoOK, Known
    <3> QED BY <2>1, <2>2, <2>5, <3>2 DEF Ends
  <2>6. CASE dev' = None
    BY <2>3, <2>6 DEF NoGhost
  <2> QED BY <1>26, <2>4, <2>5, <2>6 DEF Handle, ClosedDev
<1>27. ASSUME NEW k \in Keyboards, Drops(k) PROVE Good
  <2>1. Quiet
    BY <1>27, QuietDown DEF Drops, Ends
  <2>2. dev' \in {dev, None}
    BY <1>27 DEF Drops
  <2> QED BY <2>1, <2>2, QuietKeeps
<1>28. ASSUME NEW k \in Keyboards, Refuses(k) PROVE Good
  <2>1. Quiet
    BY <1>28, QuietDown DEF Refuses, Ends
  <2>2. dev' \in {dev, None}
    BY <1>28 DEF Refuses
  <2> QED BY <2>1, <2>2, QuietKeeps
<1>29. ASSUME NEW k \in Keyboards, LosesKey(k) PROVE Good
  <2>1. Quiet
    BY <1>29, QuietStays DEF LosesKey
  <2>2. dev' \in {dev, None}
    BY <1>29 DEF LosesKey
  <2> QED BY <2>1, <2>2, QuietKeeps
<1>30. CASE UNCHANGED vars
  <2>1. Quiet
    BY <1>30, QuietStays DEF vars
  <2> QED BY <1>30, <2>1, QuietKeeps DEF vars
<1> QED
  BY <1>1, <1>2, <1>3, <1>4, <1>5, <1>6, <1>7, <1>8, <1>9, <1>10, <1>11, <1>12,
     <1>13, <1>14, <1>15, <1>16, <1>17, <1>18, <1>19, <1>20, <1>21, <1>22, <1>23, <1>24,
     <1>25, <1>26, <1>27, <1>28, <1>29, <1>30
  DEF Next, Ui, User, Task, Kicker, Keyboard

-----------------------------------------------------------------------------
(* One task at a time, and the scan.                                       *)

Seeks == {"search", "open"}

\* Nobody begins, nobody begins to look, and no scan begins.
TasksQuiet ==
    /\ tangled' = tangled /\ running' = running /\ (ui' = "scan" => ui = "scan")
    /\ \A t \in Tasks : /\ pc'[t] \notin {"none", "new"} => Active(t)
                        /\ pc'[t] \in Seeks => pc[t] \in Seeks

LEMMA TasksQuietKeeps ==
    ASSUME OneTask, ScanOwnsRadio, TasksQuiet
    PROVE  OneTask' /\ ScanOwnsRadio'
<1>1. OneTask'
  BY DEF OneTask, TasksQuiet, Active
<1>2. ScanOwnsRadio'
  BY DEF ScanOwnsRadio, TasksQuiet, Seeks
<1> QED BY <1>1, <1>2

LEMMA CancelFacts ==
    ASSUME TasksOK, Cancel
    PROVE  \A t \in Tasks : pc'[t] = pc[t] \/ (pc[t] = "connecting" /\ pc'[t] = "opened")
BY DEF Cancel, At

LEMMA TasksNext ==
    ASSUME TypeOK, OneTask, ScanOwnsRadio, [Next]_vars
    PROVE  OneTask' /\ ScanOwnsRadio'
<1> DEFINE Good == OneTask' /\ ScanOwnsRadio'
<1> SUFFICES Good
  OBVIOUS
<1> TasksOK
  BY TypeGroups
<1>1. CASE Autoreconnect
  <2>1. TasksQuiet
    BY <1>1 DEF TasksQuiet, Active, Seeks, Autoreconnect
  <2> QED BY <2>1, TasksQuietKeeps
<1>2. CASE Scan
  <2>1. TasksQuiet
    BY <1>2, CancelFacts DEF TasksQuiet, Active, Seeks, Scan
  <2> QED BY <2>1, TasksQuietKeeps
<1>3. CASE ScanStarts
  <2>1. OneTask'
    BY <1>3 DEF ScanStarts, OneTask, Active
  <2>2. ASSUME ~tangled, NEW t \in Tasks PROVE pc[t] \notin Seeks
    BY <1>3, <2>2 DEF ScanStarts, OneTask, Active, Seeks
  <2>3. ScanOwnsRadio'
    BY <1>3, <2>2 DEF ScanStarts, ScanOwnsRadio, Seeks
  <2> QED BY <2>1, <2>3
<1>4. CASE ScanEnds
  <2>1. TasksQuiet
    BY <1>4 DEF TasksQuiet, Active, Seeks, ScanEnds
  <2> QED BY <2>1, TasksQuietKeeps
<1>5. CASE LeaveList
  <2>1. TasksQuiet
    BY <1>5 DEF TasksQuiet, Active, Seeks, LeaveList
  <2> QED BY <2>1, TasksQuietKeeps
<1>6. ASSUME NEW k \in Keyboards, Pick(k) PROVE Good
  <2>1. TasksQuiet
    BY <1>6, CancelFacts DEF TasksQuiet, Active, Seeks, Pick
  <2> QED BY <2>1, TasksQuietKeeps
<1>7. CASE PickSets
  <2>1. TasksQuiet
    BY <1>7 DEF TasksQuiet, Active, Seeks, PickSets
  <2> QED BY <2>1, TasksQuietKeeps
<1>8. CASE Ensure
  <2>1. TasksQuiet
    BY <1>8, EnsureFacts DEF TasksQuiet, Active, Seeks, Ensure
  <2> QED BY <2>1, TasksQuietKeeps
<1>9. CASE Forget
  <2>1. TasksQuiet
    BY <1>9 DEF TasksQuiet, Active, Seeks, Forget
  <2> QED BY <2>1, TasksQuietKeeps
<1>10. CASE Reboot
  BY <1>10 DEF Reboot, OneTask, ScanOwnsRadio, Active
<1>11. ASSUME NEW t \in Tasks, Starts(t) PROVE Good
  <2>1. pc' = [pc EXCEPT ![t] = "loop"] /\ running' = TRUE /\ ui' = ui
    BY <1>11 DEF Starts, Go
  <2>2. ~tangled' => ~tangled /\ \A u \in Tasks \ {t} : ~Active(u)
    BY <1>11 DEF Starts, Active
  <2>3. OneTask'
    BY <2>1, <2>2 DEF OneTask, Active, TasksOK
  <2>4. \A u \in Tasks : pc'[u] \in Seeks => pc[u] \in Seeks
    BY <2>1 DEF Seeks, TasksOK
  <2>5. ScanOwnsRadio'
    BY <2>1, <2>2, <2>4 DEF ScanOwnsRadio, Seeks
  <2> QED BY <2>3, <2>5
<1>12. ASSUME NEW t \in Tasks, Looks(t) PROVE Good
  <2>1. \A u \in Tasks : Active(u)' <=> Active(u)
    BY <1>12 DEF Looks, At, Go, Active, TasksOK
  <2>2. OneTask'
    BY <1>12, <2>1 DEF Looks, OneTask
  <2>3. \A u \in Tasks : pc'[u] \in Seeks => pc[u] \in Seeks \/ ui # "scan"
    BY <1>12 DEF Looks, At, Go, Seeks, TasksOK, scanning
  <2>4. ScanOwnsRadio'
    BY <1>12, <2>3 DEF Looks, ScanOwnsRadio, Seeks
  <2> QED BY <2>2, <2>4
<1>13. ASSUME NEW t \in Tasks, Finds(t) PROVE Good
  <2>1. TasksQuiet
    BY <1>13 DEF TasksQuiet, Active, Seeks, Finds, At, Go, TasksOK
  <2> QED BY <2>1, TasksQuietKeeps
<1>14. ASSUME NEW t \in Tasks, FindsNothing(t) PROVE Good
  <2>1. TasksQuiet
    BY <1>14 DEF TasksQuiet, Active, Seeks, FindsNothing, At, Go, TasksOK
  <2> QED BY <2>1, TasksQuietKeeps
<1>15. ASSUME NEW t \in Tasks, Opens(t) PROVE Good
  <2>1. TasksQuiet
    BY <1>15 DEF TasksQuiet, Active, Seeks, Opens, At, Go, TasksOK
  <2> QED BY <2>1, TasksQuietKeeps
<1>16. ASSUME NEW t \in Tasks, Connects(t) PROVE Good
  <2>1. TasksQuiet
    BY <1>16 DEF TasksQuiet, Active, Seeks, Connects, At, Go, TasksOK
  <2> QED BY <2>1, TasksQuietKeeps
<1>17. ASSUME NEW t \in Tasks, ConnectFails(t) PROVE Good
  <2>1. TasksQuiet
    BY <1>17 DEF TasksQuiet, Active, Seeks, ConnectFails, At, Go, Opened, TasksOK
  <2> QED BY <2>1, TasksQuietKeeps
<1>18. ASSUME NEW t \in Tasks, Discovers(t) PROVE Good
  <2>1. TasksQuiet
    BY <1>18 DEF TasksQuiet, Active, Seeks, Discovers, At, Go, Opened, TasksOK
  <2> QED BY <2>1, TasksQuietKeeps
<1>19. ASSUME NEW t \in Tasks, DiscoverFails(t) PROVE Good
  <2>1. TasksQuiet
    BY <1>19 DEF TasksQuiet, Active, Seeks, DiscoverFails, At, Go, Opened, TasksOK
  <2> QED BY <2>1, TasksQuietKeeps
<1>20. ASSUME NEW t \in Tasks, Judges(t) PROVE Good
  <2>1. TasksQuiet
    BY <1>20 DEF TasksQuiet, Active, Seeks, Judges, At, Go, TasksOK
  <2> QED BY <2>1, TasksQuietKeeps
<1>21. ASSUME NEW t \in Tasks, Leaves(t) PROVE Good
  <2>1. pc' = [pc EXCEPT ![t] = "none"] /\ ui' = ui /\ tangled' = tangled
    BY <1>21 DEF Leaves, Go
  <2>2. Active(t)
    BY <1>21 DEF Leaves, At, Active
  <2>3. \A u \in Tasks : Active(u)' => Active(u) /\ u # t
    BY <2>1 DEF Active, TasksOK
  <2>4. OneTask'
    BY <2>1, <2>2, <2>3 DEF OneTask
  <2>5. \A u \in Tasks : pc'[u] \in Seeks => pc[u] \in Seeks
    BY <2>1 DEF Seeks, TasksOK
  <2>6. ScanOwnsRadio'
    BY <2>1, <2>5 DEF ScanOwnsRadio, Seeks
  <2> QED BY <2>4, <2>6
<1>22. ASSUME NEW k \in Keyboards, KickerSecures(k) PROVE Good
  <2>1. TasksQuiet
    BY <1>22 DEF TasksQuiet, Active, Seeks, KickerSecures
  <2> QED BY <2>1, TasksQuietKeeps
<1>23. ASSUME NEW k \in Keyboards, KickerSaves(k) PROVE Good
  <2>1. TasksQuiet
    BY <1>23 DEF TasksQuiet, Active, Seeks, KickerSaves
  <2> QED BY <2>1, TasksQuietKeeps
<1>24. ASSUME NEW k \in Keyboards, KickerStalls(k) PROVE Good
  <2>1. TasksQuiet
    BY <1>24 DEF TasksQuiet, Active, Seeks, KickerStalls
  <2> QED BY <2>1, TasksQuietKeeps
<1>25. ASSUME NEW k \in Keyboards, KickerEnds(k) PROVE Good
  <2>1. TasksQuiet
    BY <1>25 DEF TasksQuiet, Active, Seeks, KickerEnds
  <2> QED BY <2>1, TasksQuietKeeps
<1>26. CASE Handle
  <2>1. \A t \in Tasks : pc'[t] = pc[t] \/ (pc[t] = "none" /\ pc'[t] = "new")
    BY <1>26, EnsureFacts DEF Handle
  <2>2. TasksQuiet
    BY <1>26, <2>1 DEF Handle, TasksQuiet, Active, Seeks
  <2> QED BY <2>2, TasksQuietKeeps
<1>27. ASSUME NEW k \in Keyboards, Drops(k) PROVE Good
  <2>1. TasksQuiet
    BY <1>27 DEF TasksQuiet, Active, Seeks, Drops
  <2> QED BY <2>1, TasksQuietKeeps
<1>28. ASSUME NEW k \in Keyboards, Refuses(k) PROVE Good
  <2>1. TasksQuiet
    BY <1>28 DEF TasksQuiet, Active, Seeks, Refuses
  <2> QED BY <2>1, TasksQuietKeeps
<1>29. ASSUME NEW k \in Keyboards, LosesKey(k) PROVE Good
  <2>1. TasksQuiet
    BY <1>29 DEF TasksQuiet, Active, Seeks, LosesKey
  <2> QED BY <2>1, TasksQuietKeeps
<1>30. CASE UNCHANGED vars
  <2>1. TasksQuiet
    BY <1>30 DEF TasksQuiet, Active, vars
  <2> QED BY <2>1, TasksQuietKeeps
<1> QED
  BY <1>1, <1>2, <1>3, <1>4, <1>5, <1>6, <1>7, <1>8, <1>9, <1>10, <1>11, <1>12,
     <1>13, <1>14, <1>15, <1>16, <1>17, <1>18, <1>19, <1>20, <1>21, <1>22, <1>23, <1>24,
     <1>25, <1>26, <1>27, <1>28, <1>29, <1>30
  DEF Next, Ui, User, Task, Kicker, Keyboard

-----------------------------------------------------------------------------
(* Who is wanted, and who was forgotten.                                   *)

\* Nobody is looked for: there is no task, no kicker, and none is about to start.
Idle == ~want /\ kickers = {} /\ ui # "ensure" /\ \A t \in Tasks : pc[t] = "none"

LEMMA IdleIs ==
    /\ SomebodyWanted <=>
         /\ name = None \/ conn = None => Idle
         /\ ui = "pick_wait" => picked \in Keyboards
         /\ \A t \in Tasks : pc[t] \in {"connecting", "discovering"} => target[t] \in Keyboards
    /\ NothingForgotten <=> (saved = None /\ ~raced => Idle)
BY DEF SomebodyWanted, NothingForgotten, Idle

\* Only a pick, and the look at what is saved after booting, begin anything from there.
LEMMA IdleStays ==
    ASSUME TypeOK, Idle, [Next]_vars, ~PickSets, Autoreconnect => saved = None
    PROVE  Idle'
<1> TasksOK
  BY TypeGroups
<1>1. ASSUME NEW t \in Tasks PROVE ~Task(t)
  BY <1>1 DEF Idle, Task, At, Starts, Looks, Finds, FindsNothing, Opens, Connects, ConnectFails,
              Discovers, DiscoverFails, Judges, Leaves
<1>2. ASSUME NEW k \in Keyboards PROVE ~Kicker(k)
  BY <1>2 DEF Idle, Kicker, KickerSecures, KickerSaves, KickerStalls, KickerEnds
<1>3. CASE Ui
  <2>1. CASE Autoreconnect
    BY <2>1 DEF Autoreconnect, Idle
  <2>2. CASE ScanStarts \/ ScanEnds
    BY <2>2 DEF ScanStarts, ScanEnds, Idle
  <2>3. ~Ensure
    BY DEF Ensure, Idle
  <2> QED BY <1>3, <2>1, <2>2, <2>3 DEF Ui
<1>4. CASE User
  <2>1. CASE Scan
    BY <2>1, CancelFacts DEF Scan, Idle
  <2>2. ASSUME NEW k \in Keyboards, Pick(k) PROVE Idle'
    BY <2>2, CancelFacts DEF Pick, Idle
  <2>3. CASE LeaveList \/ Forget
    BY <2>3 DEF LeaveList, Forget, Idle
  <2>4. CASE Reboot
    BY <2>4 DEF Reboot, Idle
  <2> QED BY <1>4, <2>1, <2>2, <2>3, <2>4 DEF User
<1>5. CASE Handle
  BY <1>5 DEF Handle, Idle
<1>6. ASSUME NEW k \in Keyboards, Keyboard(k) PROVE Idle'
  BY <1>6 DEF Keyboard, Drops, Refuses, LosesKey, Idle
<1>7. CASE UNCHANGED vars
  BY <1>7 DEF vars, Idle
<1> QED BY <1>1, <1>2, <1>3, <1>4, <1>5, <1>6, <1>7 DEF Next

LEMMA SavedIsARecord ==
    /\ \A a \in Keyboards, n \in Names : [addr |-> a, name |-> n] # None
    /\ \A k \in Keyboards : NameOf[k] \in Names /\ NameOf[k] # None
BY BleLinkAssumption DEF Names

\* Names stay names, and what is saved is let go by Forget alone.
LEMMA NamesStay ==
    ASSUME TypeOK, SomebodyWanted, [Next]_vars, ~Reboot
    PROVE  /\ name # None /\ conn # None => name' # None /\ conn' # None
           /\ ~Forget /\ saved' = None /\ ~raced' => saved = None /\ ~raced
<1> DEFINE Good == /\ name # None /\ conn # None => name' # None /\ conn' # None
                   /\ ~Forget /\ saved' = None /\ ~raced' => saved = None /\ ~raced
<1> SUFFICES Good
  OBVIOUS
<1> WhoOK
  BY TypeGroups
<1> USE BleLinkAssumption
<1>1. CASE Autoreconnect
  <2>1. CASE saved = None
    BY <1>1, <2>1 DEF Autoreconnect
  <2>2. CASE saved # None
    BY <1>1, <2>2 DEF Autoreconnect, WhoOK
  <2> QED BY <2>1, <2>2
<1>2. CASE Scan
  BY <1>2 DEF Scan
<1>3. CASE ScanStarts
  BY <1>3 DEF ScanStarts
<1>4. CASE ScanEnds
  BY <1>4 DEF ScanEnds
<1>5. CASE LeaveList
  BY <1>5 DEF LeaveList
<1>6. ASSUME NEW k \in Keyboards, Pick(k) PROVE Good
  BY <1>6 DEF Pick
<1>7. CASE PickSets
  <2>1. picked \in Keyboards
    BY <1>7 DEF PickSets, SomebodyWanted
  <2>2. name' = NameOf[picked] /\ conn' = picked /\ saved' # None
    BY <1>7, <2>1, SavedIsARecord DEF PickSets
  <2> QED BY <2>1, <2>2, SavedIsARecord
<1>8. CASE Ensure
  BY <1>8 DEF Ensure
<1>9. CASE Forget
  BY <1>9 DEF Forget
<1>10. CASE Reboot
  BY <1>10
<1>11. ASSUME NEW t \in Tasks, Starts(t) PROVE Good
  BY <1>11 DEF Starts
<1>12. ASSUME NEW t \in Tasks, Looks(t) PROVE Good
  BY <1>12 DEF Looks
<1>13. ASSUME NEW t \in Tasks, Finds(t) PROVE Good
  BY <1>13 DEF Finds, Findable
<1>14. ASSUME NEW t \in Tasks, FindsNothing(t) PROVE Good
  BY <1>14 DEF FindsNothing
<1>15. ASSUME NEW t \in Tasks, Opens(t) PROVE Good
  BY <1>15 DEF Opens
<1>16. ASSUME NEW t \in Tasks, Connects(t) PROVE Good
  BY <1>16 DEF Connects
<1>17. ASSUME NEW t \in Tasks, ConnectFails(t) PROVE Good
  BY <1>17 DEF ConnectFails
<1>18. ASSUME NEW t \in Tasks, Discovers(t) PROVE Good
  BY <1>18 DEF Discovers
<1>19. ASSUME NEW t \in Tasks, DiscoverFails(t) PROVE Good
  BY <1>19 DEF DiscoverFails
<1>20. ASSUME NEW t \in Tasks, Judges(t) PROVE Good
  BY <1>20 DEF Judges
<1>21. ASSUME NEW t \in Tasks, Leaves(t) PROVE Good
  BY <1>21 DEF Leaves
<1>22. ASSUME NEW k \in Keyboards, KickerSecures(k) PROVE Good
  BY <1>22 DEF KickerSecures
<1>23. ASSUME NEW k \in Keyboards, KickerSaves(k) PROVE Good
  <2>1. CASE UNCHANGED <<conn, saved>>
    BY <1>23, <2>1 DEF KickerSaves
  <2>2. CASE conn' = k /\ saved' = [addr |-> k, name |-> name]
    <3>1. name \in Names
      BY <1>23 DEF KickerSaves, SomebodyWanted, WhoOK
    <3> QED BY <1>23, <2>2, <3>1, SavedIsARecord DEF KickerSaves
  <2> QED BY <1>23, <2>1, <2>2 DEF KickerSaves
<1>24. ASSUME NEW k \in Keyboards, KickerStalls(k) PROVE Good
  BY <1>24 DEF KickerStalls
<1>25. ASSUME NEW k \in Keyboards, KickerEnds(k) PROVE Good
  BY <1>25 DEF KickerEnds
<1>26. CASE Handle
  BY <1>26 DEF Handle
<1>27. ASSUME NEW k \in Keyboards, Drops(k) PROVE Good
  BY <1>27 DEF Drops
<1>28. ASSUME NEW k \in Keyboards, Refuses(k) PROVE Good
  BY <1>28 DEF Refuses
<1>29. ASSUME NEW k \in Keyboards, LosesKey(k) PROVE Good
  BY <1>29 DEF LosesKey
<1>30. CASE UNCHANGED vars
  BY <1>30 DEF vars
<1> QED
  BY <1>1, <1>2, <1>3, <1>4, <1>5, <1>6, <1>7, <1>8, <1>9, <1>10, <1>11, <1>12,
     <1>13, <1>14, <1>15, <1>16, <1>17, <1>18, <1>19, <1>20, <1>21, <1>22, <1>23, <1>24,
     <1>25, <1>26, <1>27, <1>28, <1>29, <1>30
  DEF Next, Ui, User, Task, Kicker, Keyboard

LEMMA TargetsStay ==
    ASSUME TypeOK, SomebodyWanted, [Next]_vars
    PROVE  \A u \in Tasks : pc'[u] \in {"connecting", "discovering"} => target'[u] \in Keyboards
<1> DEFINE Good ==
             \A u \in Tasks : pc'[u] \in {"connecting", "discovering"} => target'[u] \in Keyboards
<1> SUFFICES Good
  OBVIOUS
<1> TasksOK /\ WhoOK
  BY TypeGroups
<1>before. \A u \in Tasks : pc[u] \in {"connecting", "discovering"} => target[u] \in Keyboards
  BY DEF SomebodyWanted
<1>1. CASE Autoreconnect
  BY <1>1, <1>before DEF Autoreconnect
<1>2. CASE Scan
  BY <1>2, <1>before DEF Scan, Cancel, At
<1>3. CASE ScanStarts
  BY <1>3, <1>before DEF ScanStarts
<1>4. CASE ScanEnds
  BY <1>4, <1>before DEF ScanEnds
<1>5. CASE LeaveList
  BY <1>5, <1>before DEF LeaveList
<1>6. ASSUME NEW k \in Keyboards, Pick(k) PROVE Good
  BY <1>6, <1>before DEF Pick, Cancel, At
<1>7. CASE PickSets
  BY <1>7, <1>before DEF PickSets
<1>8. CASE Ensure
  BY <1>8, <1>before, EnsureFacts DEF Ensure
<1>9. CASE Forget
  BY <1>9, <1>before DEF Forget
<1>10. CASE Reboot
  BY <1>10, <1>before DEF Reboot
<1>11. ASSUME NEW t \in Tasks, Starts(t) PROVE Good
  BY <1>11, <1>before DEF Starts, At, Go, Opened, TasksOK
<1>12. ASSUME NEW t \in Tasks, Looks(t) PROVE Good
  BY <1>12, <1>before DEF Looks, At, Go, Opened, TasksOK
<1>13. ASSUME NEW t \in Tasks, Finds(t) PROVE Good
  BY <1>13, <1>before DEF Finds, At, Go, Opened, TasksOK
<1>14. ASSUME NEW t \in Tasks, FindsNothing(t) PROVE Good
  BY <1>14, <1>before DEF FindsNothing, At, Go, Opened, TasksOK
<1>15. ASSUME NEW t \in Tasks, Opens(t) PROVE Good
  <2>1. conn \in Keyboards
    BY <1>15 DEF Opens, At, SomebodyWanted, WhoOK, Known
  <2> QED BY <1>15, <1>before, <2>1 DEF Opens, At, Go, TasksOK
<1>16. ASSUME NEW t \in Tasks, Connects(t) PROVE Good
  BY <1>16, <1>before DEF Connects, At, Go, Opened, TasksOK
<1>17. ASSUME NEW t \in Tasks, ConnectFails(t) PROVE Good
  BY <1>17, <1>before DEF ConnectFails, At, Go, Opened, TasksOK
<1>18. ASSUME NEW t \in Tasks, Discovers(t) PROVE Good
  BY <1>18, <1>before DEF Discovers, At, Go, Opened, TasksOK
<1>19. ASSUME NEW t \in Tasks, DiscoverFails(t) PROVE Good
  BY <1>19, <1>before DEF DiscoverFails, At, Go, Opened, TasksOK
<1>20. ASSUME NEW t \in Tasks, Judges(t) PROVE Good
  BY <1>20, <1>before DEF Judges, At, Go, Opened, TasksOK
<1>21. ASSUME NEW t \in Tasks, Leaves(t) PROVE Good
  BY <1>21, <1>before DEF Leaves, At, Go, Opened, TasksOK
<1>22. ASSUME NEW k \in Keyboards, KickerSecures(k) PROVE Good
  BY <1>22, <1>before DEF KickerSecures
<1>23. ASSUME NEW k \in Keyboards, KickerSaves(k) PROVE Good
  BY <1>23, <1>before DEF KickerSaves
<1>24. ASSUME NEW k \in Keyboards, KickerStalls(k) PROVE Good
  BY <1>24, <1>before DEF KickerStalls
<1>25. ASSUME NEW k \in Keyboards, KickerEnds(k) PROVE Good
  BY <1>25, <1>before DEF KickerEnds
<1>26. CASE Handle
  <2>1. \A u \in Tasks : pc'[u] = pc[u] \/ pc'[u] = "new"
    BY <1>26, EnsureFacts DEF Handle
  <2> QED BY <1>26, <1>before, <2>1 DEF Handle
<1>27. ASSUME NEW k \in Keyboards, Drops(k) PROVE Good
  BY <1>27, <1>before DEF Drops
<1>28. ASSUME NEW k \in Keyboards, Refuses(k) PROVE Good
  BY <1>28, <1>before DEF Refuses
<1>29. ASSUME NEW k \in Keyboards, LosesKey(k) PROVE Good
  BY <1>29, <1>before DEF LosesKey
<1>30. CASE UNCHANGED vars
  BY <1>30, <1>before DEF vars
<1> QED
  BY <1>1, <1>2, <1>3, <1>4, <1>5, <1>6, <1>7, <1>8, <1>9, <1>10, <1>11, <1>12,
     <1>13, <1>14, <1>15, <1>16, <1>17, <1>18, <1>19, <1>20, <1>21, <1>22, <1>23, <1>24,
     <1>25, <1>26, <1>27, <1>28, <1>29, <1>30
  DEF Next, Ui, User, Task, Kicker, Keyboard

LEMMA PickedStays ==
    ASSUME SomebodyWanted, [Next]_vars
    PROVE  ui' = "pick_wait" => picked' \in Keyboards
<1> DEFINE Good == ui' = "pick_wait" => picked' \in Keyboards
<1> SUFFICES Good
  OBVIOUS
<1>before. ui = "pick_wait" => picked \in Keyboards
  BY DEF SomebodyWanted
<1>1. CASE Autoreconnect
  BY <1>1, <1>before DEF Autoreconnect
<1>2. CASE Scan
  BY <1>2, <1>before DEF Scan
<1>3. CASE ScanStarts
  BY <1>3, <1>before DEF ScanStarts
<1>4. CASE ScanEnds
  BY <1>4, <1>before DEF ScanEnds
<1>5. CASE LeaveList
  BY <1>5, <1>before DEF LeaveList
<1>6. ASSUME NEW k \in Keyboards, Pick(k) PROVE Good
  BY <1>6, <1>before DEF Pick
<1>7. CASE PickSets
  BY <1>7, <1>before DEF PickSets
<1>8. CASE Ensure
  BY <1>8, <1>before DEF Ensure
<1>9. CASE Forget
  BY <1>9, <1>before DEF Forget
<1>10. CASE Reboot
  BY <1>10, <1>before DEF Reboot
<1>11. ASSUME NEW t \in Tasks, Starts(t) PROVE Good
  BY <1>11, <1>before DEF Starts
<1>12. ASSUME NEW t \in Tasks, Looks(t) PROVE Good
  BY <1>12, <1>before DEF Looks
<1>13. ASSUME NEW t \in Tasks, Finds(t) PROVE Good
  BY <1>13, <1>before DEF Finds
<1>14. ASSUME NEW t \in Tasks, FindsNothing(t) PROVE Good
  BY <1>14, <1>before DEF FindsNothing
<1>15. ASSUME NEW t \in Tasks, Opens(t) PROVE Good
  BY <1>15, <1>before DEF Opens
<1>16. ASSUME NEW t \in Tasks, Connects(t) PROVE Good
  BY <1>16, <1>before DEF Connects
<1>17. ASSUME NEW t \in Tasks, ConnectFails(t) PROVE Good
  BY <1>17, <1>before DEF ConnectFails
<1>18. ASSUME NEW t \in Tasks, Discovers(t) PROVE Good
  BY <1>18, <1>before DEF Discovers
<1>19. ASSUME NEW t \in Tasks, DiscoverFails(t) PROVE Good
  BY <1>19, <1>before DEF DiscoverFails
<1>20. ASSUME NEW t \in Tasks, Judges(t) PROVE Good
  BY <1>20, <1>before DEF Judges
<1>21. ASSUME NEW t \in Tasks, Leaves(t) PROVE Good
  BY <1>21, <1>before DEF Leaves
<1>22. ASSUME NEW k \in Keyboards, KickerSecures(k) PROVE Good
  BY <1>22, <1>before DEF KickerSecures
<1>23. ASSUME NEW k \in Keyboards, KickerSaves(k) PROVE Good
  BY <1>23, <1>before DEF KickerSaves
<1>24. ASSUME NEW k \in Keyboards, KickerStalls(k) PROVE Good
  BY <1>24, <1>before DEF KickerStalls
<1>25. ASSUME NEW k \in Keyboards, KickerEnds(k) PROVE Good
  BY <1>25, <1>before DEF KickerEnds
<1>26. CASE Handle
  BY <1>26, <1>before DEF Handle
<1>27. ASSUME NEW k \in Keyboards, Drops(k) PROVE Good
  BY <1>27, <1>before DEF Drops
<1>28. ASSUME NEW k \in Keyboards, Refuses(k) PROVE Good
  BY <1>28, <1>before DEF Refuses
<1>29. ASSUME NEW k \in Keyboards, LosesKey(k) PROVE Good
  BY <1>29, <1>before DEF LosesKey
<1>30. CASE UNCHANGED vars
  BY <1>30, <1>before DEF vars
<1> QED
  BY <1>1, <1>2, <1>3, <1>4, <1>5, <1>6, <1>7, <1>8, <1>9, <1>10, <1>11, <1>12,
     <1>13, <1>14, <1>15, <1>16, <1>17, <1>18, <1>19, <1>20, <1>21, <1>22, <1>23, <1>24,
     <1>25, <1>26, <1>27, <1>28, <1>29, <1>30
  DEF Next, Ui, User, Task, Kicker, Keyboard

LEMMA WantedNext ==
    ASSUME TypeOK, SomebodyWanted, NothingForgotten, [Next]_vars
    PROVE  SomebodyWanted' /\ NothingForgotten'
<1> USE BleLinkAssumption
<1>1. ASSUME Reboot PROVE Idle'
  BY <1>1 DEF Reboot, Idle
<1>2. ASSUME Forget, ~raced' PROVE Idle'
  BY <1>2 DEF Forget, At, Idle
<1>3. PickSets => saved' # None /\ name' # None /\ conn' # None
  <2>1. PickSets => picked \in Keyboards
    BY DEF PickSets, SomebodyWanted
  <2>2. PickSets => saved' = [addr |-> picked, name |-> NameOf[picked]]
    BY DEF PickSets
  <2> QED BY <2>1, <2>2, SavedIsARecord DEF PickSets
<1>4. Autoreconnect /\ saved # None => saved' # None /\ name' # None /\ conn' # None
  <2>1. saved # None => saved.name \in Names /\ saved.addr \in Keyboards
    BY DEF TypeOK
  <2> QED BY <2>1 DEF Autoreconnect
<1>5. ASSUME name' = None \/ conn' = None PROVE Idle'
  <2>1. CASE ~Reboot
    <3>1. Idle
      BY <1>5, <2>1, NamesStay DEF SomebodyWanted, Idle
    <3> QED BY <1>3, <1>4, <1>5, <3>1, IdleStays
  <2> QED BY <1>1, <2>1
<1>6. ASSUME saved' = None, ~raced' PROVE Idle'
  <2>1. CASE ~Reboot /\ ~Forget
    <3>1. Idle
      BY <1>6, <2>1, NamesStay DEF NothingForgotten, Idle
    <3> QED BY <1>3, <1>4, <1>6, <3>1, IdleStays
  <2> QED BY <1>1, <1>2, <1>6, <2>1
<1>7. ui' = "pick_wait" => picked' \in Keyboards
  BY PickedStays
<1> QED BY <1>5, <1>6, <1>7, TargetsStay DEF SomebodyWanted, NothingForgotten, Idle

-----------------------------------------------------------------------------
(* The theorems.                                                           *)

LEMMA InitInvariant == Init => IInv
<1> SUFFICES ASSUME Init PROVE IInv
  OBVIOUS
<1> USE BleLinkAssumption
<1>1. OpenIsUp /\ NoGhost
  BY DEF Init, OpenIsUp, FreshOpen, NoGhost
<1>2. OneTask /\ ScanOwnsRadio
  BY DEF Init, OneTask, Active, ScanOwnsRadio
<1>3. SomebodyWanted /\ NothingForgotten
  BY DEF Init, SomebodyWanted, NothingForgotten
<1> QED BY <1>1, <1>2, <1>3, TypeInit DEF IInv

LEMMA NextInvariant == IInv /\ [Next]_vars => IInv'
BY TypeNext, LinksNext, TasksNext, WantedNext DEF IInv

\* The inductive invariant holds in every state of every execution.
THEOREM Invariance == Spec => []IInv
BY InitInvariant, NextInvariant, PTL DEF Spec

\* Every variable keeps its type, and the radio, the tasks and the screens their places.
THEOREM TypeCorrect == Spec => []TypeOK
BY Invariance, PTL DEF IInv

\* A keyboard shown as connected has its link, or its loss is on the way to hidh_cb,
\* however opens, drops, picks and forgets interleave.
THEOREM GhostCorrect == Spec => []NoGhost
BY Invariance, PTL DEF IInv

\* While a scan of the screens runs no connection task looks for the keyboard or begins to
\* connect, unless two tasks have been at work at once.
THEOREM ScanCorrect == Spec => []ScanOwnsRadio
BY Invariance, PTL DEF IInv

\* A forgotten keyboard is saved again only by a pick, unless it was forgotten in the middle
\* of an attempt.
THEOREM ForgottenCorrect == Spec => ForgottenStays
<1> DEFINE Stays == saved = None /\ saved' # None => ui = "pick_wait" \/ raced
<1>1. IInv /\ [Next]_vars => [Stays]_vars
  <2> SUFFICES ASSUME IInv, [Next]_vars, saved = None, saved' # None, ~raced
               PROVE  ui = "pick_wait"
    OBVIOUS
  <2>1. Idle
    BY DEF IInv, NothingForgotten, Idle
  <2>2. ASSUME NEW k \in Keyboards PROVE ~KickerSaves(k)
    BY <2>1 DEF Idle, KickerSaves
  <2>3. PickSets
    BY <2>2 DEF Next, Ui, User, Task, Kicker, Keyboard, vars, Autoreconnect, Scan, ScanStarts,
                ScanEnds, LeaveList, Pick, Ensure, Forget, Reboot, Starts, Looks, Finds,
                FindsNothing, Opens, Connects, ConnectFails, Discovers, DiscoverFails, Judges,
                Leaves, KickerSecures, KickerStalls, KickerEnds, Handle, Drops, Refuses, LosesKey
  <2> QED BY <2>3 DEF PickSets
<1> QED BY Invariance, <1>1, PTL DEF Spec, ForgottenStays

-----------------------------------------------------------------------------
(* Somebody is always at it.  A wanted keyboard is never left to nobody,   *)
(* and neither is a pick without an answer: what the two promises of       *)
(* liveness need of every state.                                           *)

AtWork  == \E t \in Tasks : pc[t] \notin {"none", "leave"}
Unclear == joined \/ tangled

ScanUnwanted == scanning => ~want
ToldAtBoot   == ui = "boot" => told
NewAttempt   == \A t \in Tasks : pc[t] \in {"none", "new"} => attempt[t] = 0

\* No try of the task has ended before the pick has its answer.
FirstTry == ~told /\ ~Unclear => ~byname /\ dev = None /\ \A t \in Tasks : attempt[t] = 0

\* A wanted keyboard that is not in use is looked for.
Sought == want /\ byname /\ dev = None => missed \/ Unclear \/ ui = "ensure" \/ AtWork

\* A pick without an answer is worked at.
Awaited == ~told /\ want => Unclear \/ ui = "ensure" \/ AtWork

Hunt == ScanUnwanted /\ ToldAtBoot /\ NewAttempt /\ FirstTry /\ Sought /\ Awaited

\* A step that ends no work and brings no news.
Onward ==
    /\ UNCHANGED <<byname, dev, told, joined, missed, attempt>>
    /\ (want' => want) /\ (tangled => tangled')
    /\ (scanning' => scanning \/ ~want') /\ (ui = "ensure" => ui' = "ensure")
    /\ (ui' = "boot" => ui = "boot") /\ (AtWork => AtWork')
    /\ \A t \in Tasks : pc'[t] \in {"none", "new"} => pc[t] \in {"none", "new"}

LEMMA OnwardKeeps == Hunt /\ Onward => Hunt'
BY DEF Hunt, ScanUnwanted, ToldAtBoot, NewAttempt, FirstTry, Sought, Awaited, Unclear, Onward

\* Whoever asks for a task and finds the flag down has somebody at work.
LEMMA EnsureWorks ==
    ASSUME TasksOK, OneTask, ~tangled, ~running, EnsureTask
    PROVE  AtWork'
<1> DEFINE idle == {t \in Tasks : At(t, "none")}
           new  == CHOOSE t \in idle : TRUE
<1>1. \A t \in Tasks : pc[t] \in {"none", "new"}
  BY DEF OneTask, Active
<1>2. CASE idle = {}
  <2>1. PICK t \in Tasks : TRUE
    BY BleLinkAssumption
  <2>2. pc' = pc
    BY <1>2 DEF EnsureTask
  <2>3. pc[t] = "new"
    BY <1>1, <1>2 DEF At
  <2> QED BY <2>2, <2>3 DEF AtWork
<1>3. CASE idle # {}
  <2>1. new \in Tasks
    BY <1>3
  <2>2. pc' = [pc EXCEPT ![new] = "new"]
    BY <1>3 DEF EnsureTask, Go
  <2> HIDE DEF new
  <2>3. pc'[new] = "new"
    BY <2>1, <2>2 DEF TasksOK
  <2> QED BY <2>1, <2>3 DEF AtWork
<1> QED BY <1>2, <1>3

\* The steps of the screens.
LEMMA UiHunts ==
    ASSUME TypeOK, OneTask, Hunt, Ui
    PROVE  Hunt'
<1> TasksOK
  BY TypeGroups
<1> USE DEF Hunt
<1>1. CASE Autoreconnect
  <2>1. UNCHANGED <<dev, told, joined, missed, tangled, pc, attempt>>
    BY <1>1 DEF Autoreconnect
  <2>2. told /\ ui' # "boot" /\ ~scanning'
    BY <1>1 DEF Autoreconnect, ToldAtBoot, scanning
  <2>3. ui' = "ensure" \/ (want' = want /\ byname' = byname)
    BY <1>1 DEF Autoreconnect
  <2>4. ui # "ensure"
    BY <1>1 DEF Autoreconnect
  <2> QED BY <2>1, <2>2, <2>3, <2>4
          DEF ScanUnwanted, ToldAtBoot, NewAttempt, FirstTry, Sought, Awaited, Unclear, AtWork
<1>2. CASE ScanStarts
  <2>1. Onward
    BY <1>2 DEF ScanStarts, Onward, scanning, AtWork
  <2> QED BY <2>1, OnwardKeeps
<1>3. CASE ScanEnds
  <2>1. Onward
    BY <1>3 DEF ScanEnds, Onward, scanning, AtWork
  <2> QED BY <2>1, OnwardKeeps
<1>4. CASE PickSets
  <2>1. /\ ui' = "ensure" /\ ~byname' /\ dev' = None /\ joined' = Unfinished
        /\ UNCHANGED <<pc, attempt, running, tangled>>
    BY <1>4 DEF PickSets, CloseDev
  <2>2. ~joined' => ~running
    BY <2>1 DEF Unfinished
  <2>3. ~joined' /\ ~tangled' => \A t \in Tasks : attempt[t] = 0
    BY <2>1, <2>2 DEF OneTask, Active, NewAttempt
  <2> QED BY <2>1, <2>3
          DEF ScanUnwanted, ToldAtBoot, NewAttempt, FirstTry, Sought, Awaited, Unclear, scanning
<1>5. CASE Ensure
  <2>1. /\ ui' = "free" /\ joined' = (joined \/ running) /\ EnsureTask
        /\ UNCHANGED <<want, byname, dev, told, missed, tangled, attempt, running>>
    BY <1>5 DEF Ensure
  <2>2. joined' \/ tangled' \/ AtWork'
    BY <2>1, EnsureWorks
  <2>3. \A t \in Tasks : pc'[t] \in {"none", "new"} => pc[t] \in {"none", "new"}
    BY <2>1, EnsureFacts
  <2> QED BY <2>1, <2>2, <2>3
          DEF ScanUnwanted, ToldAtBoot, NewAttempt, FirstTry, Sought, Awaited, Unclear, scanning
<1> QED BY <1>1, <1>2, <1>3, <1>4, <1>5 DEF Ui

\* The user's.
LEMMA UserHunts ==
    ASSUME TypeOK, Hunt, User
    PROVE  Hunt'
<1> TasksOK
  BY TypeGroups
<1>cancel. Cancel => /\ AtWork => AtWork'
                     /\ \A t \in Tasks : pc'[t] \in {"none", "new"} => pc[t] \in {"none", "new"}
  <2> SUFFICES ASSUME Cancel
               PROVE  /\ AtWork => AtWork'
                      /\ \A t \in Tasks : pc'[t] \in {"none", "new"} => pc[t] \in {"none", "new"}
    OBVIOUS
  <2>1. \A t \in Tasks : pc'[t] = pc[t] \/ (pc[t] = "connecting" /\ pc'[t] = "opened")
    BY CancelFacts
  <2> QED BY <2>1 DEF AtWork
<1>1. CASE Scan
  <2>1. Onward
    BY <1>1, <1>cancel DEF Scan, Onward, scanning
  <2> QED BY <2>1, OnwardKeeps
<1>2. CASE LeaveList
  <2>1. Onward
    BY <1>2 DEF LeaveList, Onward, scanning, AtWork
  <2> QED BY <2>1, OnwardKeeps
<1>3. ASSUME NEW k \in Keyboards, Pick(k) PROVE Hunt'
  <2>1. Onward
    BY <1>3, <1>cancel DEF Pick, Onward, scanning
  <2> QED BY <2>1, OnwardKeeps
<1>4. CASE Forget
  <2>1. /\ ~want' /\ dev' = None
        /\ UNCHANGED <<byname, told, joined, missed, tangled, ui, pc, attempt>>
    BY <1>4 DEF Forget, CloseDev
  <2> QED BY <2>1 DEF Hunt, ScanUnwanted, ToldAtBoot, NewAttempt, FirstTry, Sought, Awaited,
                      Unclear, scanning
<1>5. CASE Reboot
  BY <1>5 DEF Reboot, Hunt, ScanUnwanted, ToldAtBoot, NewAttempt, FirstTry, Sought, Awaited,
              Unclear, scanning
<1> QED BY <1>1, <1>2, <1>3, <1>4, <1>5 DEF User

\* A connection task's.
LEMMA TaskHunts ==
    ASSUME TypeOK, Hunt, NEW t \in Tasks, Task(t)
    PROVE  Hunt'
<1> TasksOK
  BY TypeGroups
\* The task itself is at work before, and stays at it.
<1>goes. ASSUME NEW p \in TaskPoints \ {"none", "new", "leave"}, Go(t, p),
                pc[t] # "none"
         PROVE  /\ AtWork'
                /\ \A u \in Tasks : pc'[u] \in {"none", "new"} => pc[u] \in {"none", "new"}
  BY <1>goes DEF Go, AtWork, TasksOK
<1>1. CASE Starts(t)
  <2>1. Onward
    BY <1>1, <1>goes DEF Starts, At, TaskPoints, Onward, scanning
  <2> QED BY <2>1, OnwardKeeps
<1>2. CASE Finds(t)
  <2>1. Onward
    BY <1>2, <1>goes DEF Finds, At, TaskPoints, Onward, scanning
  <2> QED BY <2>1, OnwardKeeps
<1>3. CASE Opens(t)
  <2>1. Onward
    BY <1>3, <1>goes DEF Opens, At, TaskPoints, Onward, scanning
  <2> QED BY <2>1, OnwardKeeps
<1>4. CASE Connects(t)
  <2>1. Onward
    BY <1>4, <1>goes DEF Connects, At, TaskPoints, Onward, scanning
  <2> QED BY <2>1, OnwardKeeps
<1>5. CASE ConnectFails(t)
  <2>1. Onward
    BY <1>5, <1>goes DEF ConnectFails, Opened, At, TaskPoints, Onward, scanning
  <2> QED BY <2>1, OnwardKeeps
<1>6. CASE Discovers(t)
  <2>1. Onward
    BY <1>6, <1>goes DEF Discovers, Opened, At, TaskPoints, Onward, scanning
  <2> QED BY <2>1, OnwardKeeps
<1>7. CASE DiscoverFails(t)
  <2>1. Onward
    BY <1>7, <1>goes DEF DiscoverFails, Opened, At, TaskPoints, Onward, scanning
  <2> QED BY <2>1, OnwardKeeps
<1>8. CASE Looks(t)
  <2>1. UNCHANGED <<want, byname, dev, told, joined, missed, tangled, ui, attempt>>
    BY <1>8 DEF Looks
  <2>2. want /\ dev = None => AtWork'
    <3>1. ASSUME want, dev = None PROVE ~scanning
      BY <3>1 DEF Hunt, ScanUnwanted
    <3>2. want /\ dev = None => Go(t, "search") \/ Go(t, "open")
      BY <1>8, <3>1 DEF Looks
    <3> QED BY <1>8, <3>2, <1>goes DEF Looks, At, TaskPoints
  <2>3. \A u \in Tasks : pc'[u] \in {"none", "new"} => pc[u] \in {"none", "new"}
    BY <1>8 DEF Looks, Go, TasksOK
  <2> QED BY <2>1, <2>2, <2>3 DEF Hunt, ScanUnwanted, ToldAtBoot, NewAttempt, FirstTry, Sought,
                                  Awaited, Unclear, scanning
<1>9. CASE FindsNothing(t)
  <2>1. /\ UNCHANGED <<want, byname, dev, joined, missed, tangled, ui>>
        /\ told' = (told \/ attempt[t] = 0) /\ attempt' = [attempt EXCEPT ![t] = More(@)]
        /\ pc[t] = "search" /\ Go(t, "loop")
    BY <1>9 DEF FindsNothing, At
  <2>2. /\ AtWork'
        /\ \A u \in Tasks : pc'[u] \in {"none", "new"} =>
              pc[u] \in {"none", "new"} /\ attempt'[u] = attempt[u]
    BY <2>1, <1>goes DEF TaskPoints, Go, TasksOK
  <2>3. ~told' => ~told /\ attempt[t] # 0
    BY <2>1
  <2> QED BY <2>1, <2>2, <2>3 DEF Hunt, ScanUnwanted, ToldAtBoot, NewAttempt, FirstTry, Sought,
                                  Awaited, Unclear, scanning
<1>10. CASE Judges(t)
  <2>1. UNCHANGED <<want, byname, dev, joined, missed, tangled, ui>> /\ pc[t] = "opened"
    BY <1>10 DEF Judges, At
  <2>2. \A u \in Tasks : pc'[u] \in {"none", "new"} =>
           pc[u] \in {"none", "new"} /\ attempt'[u] = attempt[u]
    BY <1>10 DEF Judges, At, Go, TasksOK
  <2>3. CASE dev # None
    <3>1. UNCHANGED <<attempt, told>>
      BY <1>10, <2>3 DEF Judges
    <3> QED BY <2>1, <2>2, <2>3, <3>1
            DEF Hunt, ScanUnwanted, ToldAtBoot, NewAttempt, FirstTry, Sought, Awaited, Unclear,
                scanning
  <2>4. CASE dev = None
    <3>1. ~told' => ~told /\ (attempt[t] # 0 \/ byname)
      BY <1>10, <2>4 DEF Judges
    <3>2. byname => AtWork'
      BY <1>10, <2>1, <2>4, <1>goes DEF Judges, TaskPoints
    <3> QED BY <2>1, <2>2, <2>4, <3>1, <3>2
            DEF Hunt, ScanUnwanted, ToldAtBoot, NewAttempt, FirstTry, Sought, Awaited, Unclear,
                scanning
  <2> QED BY <2>3, <2>4
<1>11. CASE Leaves(t)
  <2>1. /\ UNCHANGED <<want, byname, dev, told, joined, missed, tangled, ui>>
        /\ pc[t] = "leave" /\ Go(t, "none") /\ attempt' = [attempt EXCEPT ![t] = 0]
    BY <1>11 DEF Leaves, At
  <2>2. /\ AtWork => AtWork'
        /\ \A u \in Tasks : attempt'[u] = 0 \/ (attempt'[u] = attempt[u] /\ pc'[u] = pc[u])
    BY <2>1 DEF AtWork, Go, TasksOK
  <2> QED BY <2>1, <2>2 DEF Hunt, ScanUnwanted, ToldAtBoot, NewAttempt, FirstTry, Sought,
                            Awaited, Unclear, scanning
<1> QED BY <1>1, <1>2, <1>3, <1>4, <1>5, <1>6, <1>7, <1>8, <1>9, <1>10, <1>11 DEF Task

\* The handler's.
LEMMA HandleHunts ==
    ASSUME TypeOK, OneTask, Hunt, Handle
    PROVE  Hunt'
<1> TasksOK
  BY TypeGroups
<1>1. /\ told' = TRUE
      /\ UNCHANGED <<want, running, joined, tangled, ui, attempt>>
  BY DEF Handle, Tells
<1>2. \A t \in Tasks : pc'[t] \in {"none", "new"} => pc[t] \in {"none", "new"}
  BY EnsureFacts DEF Handle
<1>3. Sought'
  <2>1. CASE Head(events).type = "open"
    <3>1. Head(events).kb \in Keyboards
      BY TailFacts, TypeGroups DEF Handle, RadioOK, Reports
    <3>2. dev' # None
      BY <2>1, <3>1, BleLinkAssumption DEF Handle
    <3> QED BY <3>2 DEF Sought
  <2>2. CASE Head(events).type = "fail"
    <3>1. UNCHANGED <<dev, byname, pc, missed>>
      BY <2>2 DEF Handle
    <3> QED BY <1>1, <3>1 DEF Hunt, Sought, Unclear, AtWork
  <2>3. CASE Head(events).type \in {"close", "refused"} /\ want
    <3>1. ~scanning
      BY <2>3 DEF Hunt, ScanUnwanted
    <3>2. /\ EnsureTask
          /\ missed' = (missed \/ (running /\ \A t \in Tasks : pc[t] \in {"none", "leave"}))
      BY <2>3, <3>1 DEF Handle
    <3>3. CASE running
      <4>1. pc' = pc
        BY <3>2, <3>3 DEF EnsureTask
      <4> QED BY <3>2, <3>3, <4>1 DEF Sought, AtWork
    <3>4. CASE ~running
      BY <1>1, <3>2, <3>4, EnsureWorks DEF Sought, Unclear
    <3> QED BY <3>3, <3>4
  <2>4. CASE ~want
    BY <1>1, <2>4 DEF Sought
  <2> QED BY <2>1, <2>2, <2>3, <2>4 DEF Handle
<1> QED BY <1>1, <1>2, <1>3 DEF Hunt, ScanUnwanted, ToldAtBoot, NewAttempt, FirstTry, Awaited,
                                scanning

LEMMA HuntNext == IInv /\ Hunt /\ [Next]_vars => Hunt'
<1> SUFFICES ASSUME IInv, Hunt, [Next]_vars PROVE Hunt'
  OBVIOUS
<1> TypeOK /\ OneTask
  BY DEF IInv
<1>1. ASSUME NEW k \in Keyboards, Kicker(k) \/ Keyboard(k) PROVE Hunt'
  <2>1. UNCHANGED <<want, byname, dev, told, joined, missed, tangled, ui, pc, attempt>>
    BY <1>1 DEF Kicker, KickerSecures, KickerSaves, KickerStalls, KickerEnds, Keyboard, Drops,
                Refuses, LosesKey
  <2>2. Onward
    BY <2>1 DEF Onward, scanning, AtWork
  <2> QED BY <2>2, OnwardKeeps
<1>2. CASE UNCHANGED vars
  <2>1. Onward
    BY <1>2 DEF vars, Onward, scanning, AtWork
  <2> QED BY <2>1, OnwardKeeps
<1> QED BY <1>1, <1>2, UiHunts, UserHunts, TaskHunts, HandleHunts DEF Next

LEMMA HuntInit == Init => Hunt
BY DEF Init, Hunt, ScanUnwanted, ToldAtBoot, NewAttempt, FirstTry, Sought, Awaited, scanning

\* The search is on in every state of every execution, with what its tries and its answers
\* need.
THEOREM HuntInvariance == Spec => []Hunt
<1>1. IInv /\ Hunt /\ [Next]_vars => Hunt'
  BY HuntNext
<1> QED BY Invariance, HuntInit, <1>1, PTL DEF Spec

\* A wanted keyboard that is not in use always has somebody who looks for it: a connection
\* task, or the screen about to start one; but for a close missed in the task's last moment,
\* a pick that found something unfinished and two tasks at once.  (What Reconnects needs of
\* every state.)
THEOREM LostIsSought == Spec => []Sought
BY HuntInvariance, PTL DEF Hunt

\* A pick that has had no answer always has somebody who works at it, or the screen about to
\* start one; but for a pick that found something unfinished and two tasks at once.  (What
\* OutcomeArrives needs of every state.)
THEOREM PickIsAwaited == Spec => []Awaited
BY HuntInvariance, PTL DEF Hunt
=============================================================================
