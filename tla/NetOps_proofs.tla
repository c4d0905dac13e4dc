---------------------------- MODULE NetOps_proofs ----------------------------
(***************************************************************************)
(* Proofs about NetOps, for any set of projects, any queue length, any set *)
(* of rows, with and without the task stack.                               *)
(*                                                                         *)
(* The steps fall in four groups: the queue moves and nothing of the       *)
(* network changes (quiet steps); the network task moves; an operation is  *)
(* started; an operation's DONE code is handled.                           *)
(***************************************************************************)
EXTENDS NetOps, TLAPS

\* The codes that do not come from the SFTP server or a push.
Foreign(queue) == \E i \in 1..Len(queue) : queue[i] \in {"GIT_DONE", "SSH_DONE"}

USE DEF Points, Tasks

-----------------------------------------------------------------------------
(* The queue.                                                              *)

\* Taking the head of the queue removes that message and no other.
LEMMA ConsumeFacts ==
    ASSUME NEW s \in Seq(Codes), Len(s) <= QCap, s # <<>>
    PROVE  /\ Tail(s) \in Seq(Codes) /\ Len(Tail(s)) < QCap
           /\ HasDone(s) <=> Head(s) \in DoneCodes \/ HasDone(Tail(s))
           /\ Foreign(s) <=> Head(s) \in {"GIT_DONE", "SSH_DONE"} \/ Foreign(Tail(s))
<1> USE NetOpsAssumption
<1>1. Tail(s) \in Seq(Codes) /\ Len(Tail(s)) = Len(s) - 1 /\ Len(s) \in Nat \ {0}
  OBVIOUS
<1>2. \A i \in 1..Len(Tail(s)) : Tail(s)[i] = s[i+1] /\ i+1 \in 1..Len(s)
  BY <1>1
<1>3. \A i \in 1..Len(s) : i = 1 \/ (i-1 \in 1..Len(Tail(s)) /\ Tail(s)[i-1] = s[i])
  BY <1>1
<1>4. Head(s) = s[1] /\ 1 \in 1..Len(s)
  BY <1>1
<1>5. HasDone(s) <=> Head(s) \in DoneCodes \/ HasDone(Tail(s))
  BY <1>2, <1>3, <1>4 DEF HasDone
<1>6. Foreign(s) <=> Head(s) \in {"GIT_DONE", "SSH_DONE"} \/ Foreign(Tail(s))
  BY <1>2, <1>3, <1>4 DEF Foreign
<1> QED BY <1>1, <1>5, <1>6

\* Posting adds its message, or drops it at a full queue and remembers that.
LEMMA PostFacts ==
    ASSUME NEW rest \in Seq(Codes), Len(rest) <= QCap, NEW code \in Codes,
           lost \in BOOLEAN, Post(rest, code)
    PROVE  /\ q' \in Seq(Codes) /\ Len(q') <= QCap
           /\ lost' \in BOOLEAN /\ (lost => lost')
           /\ HasDone(rest) => HasDone(q')
           /\ HasDone(q') => HasDone(rest) \/ code \in DoneCodes
           /\ code \in DoneCodes => lost' \/ HasDone(q')
           /\ Foreign(q') => Foreign(rest) \/ code \in {"GIT_DONE", "SSH_DONE"}
<1> USE NetOpsAssumption
<1>1. lost' \in BOOLEAN /\ (lost => lost') /\ (code \in DoneCodes /\ Len(rest) >= QCap => lost')
  BY DEF Post
<1>2. CASE Len(rest) < QCap
  <2>1. q' = Append(rest, code)
    BY <1>2 DEF Post
  <2>2. q' \in Seq(Codes) /\ Len(q') = Len(rest) + 1 /\ Len(rest) \in Nat
    BY <2>1
  <2>3. /\ \A i \in 1..Len(rest) : q'[i] = rest[i] /\ i \in 1..Len(q')
        /\ \A i \in 1..Len(q') : i \in 1..Len(rest) \/ i = Len(q')
        /\ q'[Len(q')] = code /\ Len(q') \in 1..Len(q')
    BY <2>1, <2>2
  <2>4. HasDone(q') <=> HasDone(rest) \/ code \in DoneCodes
    BY <2>3 DEF HasDone
  <2>5. Foreign(q') => Foreign(rest) \/ code \in {"GIT_DONE", "SSH_DONE"}
    BY <2>3 DEF Foreign
  <2> QED BY <1>1, <1>2, <2>2, <2>4, <2>5
<1>3. CASE ~(Len(rest) < QCap)
  <2>1. q' = rest /\ Len(rest) >= QCap
    BY <1>3 DEF Post
  <2> QED BY <1>1, <2>1
<1> QED BY <1>2, <1>3

-----------------------------------------------------------------------------
(* Quiet steps: nothing of the network changes but the radio, and the      *)
(* queue loses and gains only messages that are no DONE codes.             *)

QueueQuiet ==
    /\ HasDone(q') <=> HasDone(q)
    /\ Foreign(q') => Foreign(q)
    /\ lost => lost'

AlertQuiet ==
    /\ BusyIsShown'
    /\ NetworkAlertUp' /\ ~left' => NetworkAlertUp
    /\ left => left'
    /\ s_serving /\ screen = "ALERT" /\ alert.busy /\ alert.title # "WIFI" /\ wifi # "off" /\ ~left' =>
         screen' = screen /\ alert'.title # "WIFI" /\ alert'.busy /\ wifi' # "off"

LEMMA QuietStep ==
    ASSUME IInv, TypeOK', QueueQuiet, AlertQuiet,
           UNCHANGED <<s_sync_busy, s_serving, s_net_running, task, crossed>>
    PROVE  IInv'
<1>1. Pending' <=> Pending
  BY DEF QueueQuiet, Pending, InFlight
<1>2. BusyHasCompletion'
  BY <1>1 DEF IInv, QueueQuiet, AlertQuiet, BusyHasCompletion
<1>3. ServerAlone'
  BY DEF IInv, QueueQuiet, AlertQuiet, ServerAlone, Foreign, InFlight
<1>4. SlotIsTaken' /\ OneDone' /\ TaskHoldsRadio' /\ ServerHasOwner'
  BY DEF IInv, QueueQuiet, SlotIsTaken, OneDone, TaskHoldsRadio, ServerHasOwner, InFlight
<1> QED BY <1>2, <1>3, <1>4 DEF IInv, AlertQuiet

\* A message that is no DONE code leaves the queue, and perhaps one such joins it.
LEMMA ConsumeIsQuiet ==
    ASSUME TypeOK, q # <<>>, Head(q) \notin DoneCodes, Consume
    PROVE  /\ QueueQuiet
           /\ q' \in Seq(Codes) /\ Len(q') <= QCap /\ lost' \in BOOLEAN
<1>1. q \in Seq(Codes) /\ Len(q) <= QCap /\ q' = Tail(q) /\ lost' = lost /\ lost \in BOOLEAN
  BY DEF TypeOK, Consume
<1>2. HasDone(q) <=> HasDone(Tail(q))
  BY <1>1, ConsumeFacts
<1>3. Foreign(Tail(q)) => Foreign(q)
  BY <1>1, ConsumeFacts
<1>4. Tail(q) \in Seq(Codes) /\ Len(Tail(q)) < QCap
  BY <1>1, ConsumeFacts
<1>5. Len(Tail(q)) <= QCap
  BY <1>1, <1>4, NetOpsAssumption
<1> QED BY <1>1, <1>2, <1>3, <1>4, <1>5 DEF QueueQuiet

LEMMA PostIsQuiet ==
    ASSUME TypeOK, NEW code \in Codes \ DoneCodes,
           \/ Post(q, code)
           \/ q # <<>> /\ Head(q) \notin DoneCodes /\ Post(Tail(q), code)
    PROVE  /\ QueueQuiet
           /\ q' \in Seq(Codes) /\ Len(q') <= QCap /\ lost' \in BOOLEAN
<1>1. q \in Seq(Codes) /\ Len(q) <= QCap /\ lost \in BOOLEAN
  BY DEF TypeOK
<1>2. code \notin {"GIT_DONE", "SSH_DONE"}
  BY DEF DoneCodes
<1>3. CASE Post(q, code)
  BY <1>1, <1>2, <1>3, PostFacts DEF QueueQuiet
<1>4. CASE q # <<>> /\ Head(q) \notin DoneCodes /\ Post(Tail(q), code)
  <2>1. Tail(q) \in Seq(Codes) /\ Len(Tail(q)) <= QCap
    BY <1>1, <1>4, ConsumeFacts, NetOpsAssumption
  <2>2. (HasDone(q) <=> HasDone(Tail(q))) /\ (Foreign(Tail(q)) => Foreign(q))
    BY <1>1, <1>4, ConsumeFacts
  <2> QED BY <1>1, <1>2, <1>4, <2>1, <2>2, PostFacts DEF QueueQuiet
<1> QED BY <1>3, <1>4

\* The part of TypeOK about what a quiet step changes.
UiTypeOK ==
    /\ screen \in Screens /\ curmenu \in Menus /\ listType \in Lists
    /\ entry \subseteq {"NAME", "PASS"} /\ have_editor \in BOOLEAN
    /\ curProject \in Projects \cup {NoProject}
    /\ alert \in Alerts
    /\ wifi \in Radio /\ s_stop \in BOOLEAN /\ left \in BOOLEAN

netFrame == <<s_sync_busy, s_serving, s_syncing, slot, status, crossed>>

\* A message that is no DONE code and starts nothing.
LEMMA MoveStep ==
    ASSUME IInv, UNCHANGED netFrame, UiTypeOK', AlertQuiet,
           q # <<>>, Head(q) \notin DoneCodes,
           \/ Consume
           \/ Post(Tail(q), "WIFI_FAIL")
    PROVE  IInv'
<1>1. TypeOK
  BY DEF IInv
<1>2. "WIFI_FAIL" \in Codes \ DoneCodes
  BY DEF Codes, DoneCodes
<1>3. QueueQuiet /\ q' \in Seq(Codes) /\ Len(q') <= QCap /\ lost' \in BOOLEAN
  BY <1>1, <1>2, ConsumeIsQuiet, PostIsQuiet
<1>4. TypeOK'
  BY <1>1, <1>3 DEF TypeOK, UiTypeOK, netFrame, slot, status
<1> QED BY <1>3, <1>4, QuietStep DEF netFrame, slot

LEMMA MovesKeepIInv ==
    ASSUME IInv, Moves
    PROVE  IInv'
<1> USE DEF Selects, InList, Receives, DoneCodes, calm, work, place, netFrame, slot, status,
            UiTypeOK, AlertQuiet, NetworkAlertUp, oyobyok_app_busy, BusyIsShown
<1>0. TypeOK /\ BusyIsShown
  BY DEF IInv
<1>1. CASE OpenSynchronise
  BY <1>0, <1>1, MoveStep DEF OpenSynchronise, RadioOn, TypeOK, Screens, Menus, Lists, Radio, Alerts, Titles
<1>2. CASE OpenProjects
  BY <1>0, <1>2, MoveStep DEF OpenProjects, TypeOK, Screens, Menus, Lists, Radio, Alerts, Titles
<1>3. CASE OpenList
  BY <1>0, <1>3, MoveStep DEF OpenList, RadioForScan, TypeOK, Screens, Menus, Lists, Radio, Alerts, Titles
<1>4. CASE \E m \in {"WIFI", "SFTP"} : OpenSubmenu(m)
  BY <1>0, <1>4, MoveStep DEF OpenSubmenu, TypeOK, Screens, Menus, Lists, Radio, Alerts, Titles
<1>5. CASE \E k \in Leaving : MenuBack(k)
  BY <1>0, <1>5, MoveStep DEF MenuBack, ReleaseRadio, RadioOff, Leaving, TypeOK, Screens, Menus, Lists, Radio, Alerts, Titles
<1>6. CASE \E k \in Leaving : ListBack(k)
  BY <1>0, <1>6, MoveStep DEF ListBack, Leaving, TypeOK, Screens, Menus, Lists, Radio, Alerts, Titles
<1>7. CASE \E k \in Leaving : Browse(k)
  <2>1. q # <<>> /\ Head(q) \notin DoneCodes /\ UNCHANGED netFrame
    BY <1>7 DEF Browse, Leaving
  <2>2. Consume
    BY <1>7 DEF Browse, Leaving
  <2>3. UiTypeOK'
    BY ZenonT(30), <1>0, <1>7 DEF Browse, Leaving, TypeOK, Screens, Menus, Lists, Radio, Alerts, Titles
  <2>4. AlertQuiet
    BY <1>0, <1>7 DEF Browse, Leaving, TypeOK
  <2> QED BY <2>1, <2>2, <2>3, <2>4, MoveStep
<1>8. CASE \E k \in Leaving : DismissStatus(k)
  BY <1>0, <1>8, MoveStep DEF DismissStatus, Leaving, TypeOK, Screens, Menus, Lists, Radio, Alerts, Titles
<1>9. CASE \E p \in Projects : PickRepo(p)
  BY <1>0, <1>9, MoveStep DEF PickRepo, TypeOK, Screens, Menus, Lists, Radio, Alerts, Titles
<1>10. CASE PickForPush
  BY <1>0, <1>10, MoveStep DEF PickForPush, TypeOK, Screens, Menus, Lists, Radio, Alerts, Titles
<1>11. CASE PickKnown
  <2>1. q # <<>> /\ Head(q) \notin DoneCodes /\ UNCHANGED netFrame
    BY <1>11 DEF PickKnown, Busy
  <2>2. \/ Consume \/ Post(Tail(q), "WIFI_FAIL")
    BY <1>11 DEF PickKnown, Connect, Busy, Consume
  <2>3. UiTypeOK'
    BY <1>0, <1>11 DEF PickKnown, Connect, Busy, TypeOK, Screens, Menus, Lists, Radio, Alerts, Titles
  <2>4. AlertQuiet
    BY <1>0, <1>11 DEF PickKnown, Connect, Busy, TypeOK
  <2> QED BY <2>1, <2>2, <2>3, <2>4, MoveStep
<1>12. CASE PickNetwork
  BY <1>0, <1>12, MoveStep DEF PickNetwork, TypeOK, Screens, Menus, Lists, Radio, Alerts, Titles
<1>13. CASE EnterName
  <2>1. /\ q # <<>> /\ Head(q) \notin DoneCodes /\ UNCHANGED netFrame /\ Consume
        /\ screen = "ENTRY"
    BY <1>13 DEF EnterName
  <2>2. UNCHANGED <<listType, have_editor, curProject, alert, wifi, s_stop, left>>
    BY <1>13 DEF EnterName
  <2>3. screen' \in Screens /\ curmenu' \in Menus /\ entry' \subseteq {"NAME", "PASS"}
    BY <1>0, <1>13 DEF EnterName, TypeOK, Screens, Menus
  <2>4. UiTypeOK'
    BY <1>0, <2>2, <2>3 DEF TypeOK
  <2>5. AlertQuiet
    BY <1>0, <2>1, <2>2
  <2> QED BY <2>1, <2>4, <2>5, MoveStep
<1>14. CASE EnterPassword
  <2>1. q # <<>> /\ Head(q) \notin DoneCodes /\ UNCHANGED netFrame
    BY <1>14 DEF EnterPassword, Busy
  <2>2. \/ Consume \/ Post(Tail(q), "WIFI_FAIL")
    BY <1>14 DEF EnterPassword, Connect, Busy, Consume
  <2>3. UiTypeOK'
    BY <1>0, <1>14 DEF EnterPassword, Connect, Busy, TypeOK, Screens, Menus, Lists, Radio, Alerts, Titles
  <2>4. AlertQuiet
    BY <1>0, <1>14 DEF EnterPassword, Connect, Busy, TypeOK
  <2> QED BY <2>1, <2>2, <2>3, <2>4, MoveStep
<1>15. CASE LeaveEntry
  BY <1>0, <1>15, MoveStep DEF LeaveEntry, TypeOK, Screens, Menus, Lists, Radio, Alerts, Titles
<1>16. CASE SaveClose
  <2>1. q # <<>> /\ Head(q) \notin DoneCodes /\ UNCHANGED netFrame
    BY <1>16 DEF SaveClose
  <2>2. Consume
    BY <1>16 DEF SaveClose
  <2>3. \/ alert' = alert /\ screen' = "LIST" /\ left' = (left \/ alert.busy)
        \/ alert' = Says("OTHER") /\ screen' = "ALERT" /\ left' = left
    BY <1>16 DEF SaveClose, Tell
  <2>4. /\ alert' \in Alerts /\ alert'.busy = alert.busy
        /\ screen' = "ALERT" => alert'.title = "OTHER"
    <3>1. alert \in Alerts /\ "OTHER" \in Titles
      BY <1>0 DEF TypeOK, Titles
    <3> QED BY <2>3, <3>1 DEF Says, Alerts
  <2>5. left' \in BOOLEAN /\ (left => left') /\ alert.busy \in BOOLEAN
    BY <1>0, <2>3 DEF TypeOK, Alerts
  <2>6. UiTypeOK'
    BY <1>0, <1>16, <2>4, <2>5 DEF SaveClose, Tell, TypeOK, Screens, Lists
  <2>7. AlertQuiet
    <3>1. BusyIsShown'
      BY <2>3, <2>4
    <3>2. NetworkAlertUp' => NetworkAlertUp
      BY <2>3, <2>4
    <3>3. CASE screen' = "LIST"
      BY <2>3, <2>5, <3>1, <3>2, <3>3
    <3>4. CASE screen' = "ALERT" /\ left' = left
      BY <1>16, <2>4, <2>5, <3>1, <3>2, <3>4 DEF SaveClose
    <3> QED BY <2>3, <3>3, <3>4
  <2> QED BY <2>1, <2>2, <2>6, <2>7, MoveStep
<1>17. CASE DismissAlert
  BY <1>0, <1>17, MoveStep DEF DismissAlert, Dismissed, TypeOK, Screens, Menus, Lists, Radio, Alerts, Titles
<1>18. CASE EscapeAlert
  <2>1. q # <<>> /\ Head(q) \notin DoneCodes /\ UNCHANGED netFrame
    BY <1>18 DEF EscapeAlert
  <2>2. Consume
    BY <1>18 DEF EscapeAlert
  <2>3. alert \in Alerts /\ screen = "ALERT" /\ UNCHANGED left
    BY <1>0, <1>18 DEF TypeOK, EscapeAlert
  <2>4. CASE s_serving
    <3>1. UNCHANGED <<screen, alert, wifi>> /\ s_stop' = TRUE
      BY <1>18, <2>4 DEF EscapeAlert
    <3>2. UiTypeOK'
      BY <1>0, <1>18, <2>3, <3>1 DEF EscapeAlert, TypeOK
    <3>3. AlertQuiet
      BY <1>0, <2>3, <3>1
    <3> QED BY <2>1, <2>2, <3>2, <3>3, MoveStep
  <2>5. CASE ~s_serving
    <3>1. alert' = [alert EXCEPT !.busy = FALSE] /\ Dismissed /\ UNCHANGED s_stop
      BY <1>18, <2>5 DEF EscapeAlert, Settled
    <3>2. alert' \in Alerts /\ ~alert'.busy
      BY <2>3, <3>1 DEF Alerts
    <3>3. UiTypeOK'
      BY <1>0, <1>18, <3>1, <3>2 DEF EscapeAlert, TypeOK, Dismissed, Screens
    <3>4. AlertQuiet
      BY <2>3, <2>5, <3>2
    <3> QED BY <2>1, <2>2, <3>3, <3>4, MoveStep
  <2> QED BY <2>4, <2>5
<1>19. CASE IgnoreKey
  BY <1>0, <1>19, MoveStep DEF IgnoreKey, nav, TypeOK, Screens, Menus, Lists, Radio, Alerts, Titles
<1> QED BY <1>1, <1>2, <1>3, <1>4, <1>5, <1>6, <1>7, <1>8, <1>9, <1>10, <1>11, <1>12, <1>13, <1>14, <1>15, <1>16, <1>17, <1>18, <1>19 DEF Moves

-----------------------------------------------------------------------------
(* Starting an operation.                                                  *)

\* net_spawn starts the task on a free slot, or posts the operation's DONE
\* code; either way something is pending, and only one thing unless crossed.
LEMMA SpawnFacts ==
    ASSUME IInv, NEW kind \in Kinds, q # <<>>, Head(q) \notin DoneCodes,
           net_spawn(kind, Tail(q))
    PROVE  /\ q' \in Seq(Codes) /\ Len(q') <= QCap
           /\ lost' \in BOOLEAN /\ crossed' \in BOOLEAN /\ (crossed => crossed')
           /\ s_net_running' \in BOOLEAN
           /\ task' \in Tasks
           /\ lost' \/ Pending'
           /\ SlotIsTaken' /\ OneDone'
           /\ \/ /\ ~s_net_running /\ s_net_running' /\ task'.kind = kind /\ InFlight'
                 /\ ~crossed' => ~Foreign(q')
              \/ /\ s_net_running' = s_net_running /\ task' = task
                 /\ crossed' \/ ~InFlight'
<1>1. /\ q \in Seq(Codes) /\ Len(q) <= QCap /\ lost \in BOOLEAN /\ crossed \in BOOLEAN
      /\ s_net_running \in BOOLEAN
      /\ task \in Tasks
  BY DEF IInv, TypeOK
<1>2. Tail(q) \in Seq(Codes) /\ Len(Tail(q)) <= QCap
  BY <1>1, ConsumeFacts, NetOpsAssumption
<1>3. DoneOf[kind] \in DoneCodes /\ DoneOf[kind] \in Codes
  BY DEF Kinds, DoneOf, DoneCodes, Codes
<1>4. /\ crossed' = (crossed \/ s_net_running \/ (HasStack /\ HasDone(Tail(q))))
  BY DEF net_spawn
<1>5. crossed' \in BOOLEAN /\ (crossed => crossed')
  BY <1>1, <1>4
<1>6. CASE s_net_running \/ ~HasStack
  <2>1. /\ Post(Tail(q), DoneOf[kind])
        /\ UNCHANGED <<s_net_running, task>>
    BY <1>6 DEF net_spawn
  <2>3. /\ q' \in Seq(Codes) /\ Len(q') <= QCap /\ lost' \in BOOLEAN
        /\ lost' \/ HasDone(q')
    BY <1>1, <1>2, <1>3, <2>1, PostFacts
  <2>4. crossed' \/ ~InFlight'
    BY <1>4, <1>6, <2>1 DEF IInv, SlotIsTaken, InFlight
  <2>5. SlotIsTaken'
    BY <2>1 DEF IInv, SlotIsTaken
  <2> QED BY <1>1, <1>5, <2>1, <2>3, <2>4, <2>5 DEF Pending, OneDone
<1>7. CASE ~s_net_running /\ HasStack
  <2>1. /\ s_net_running' = TRUE
        /\ task' = [kind |-> kind, pc |-> "created", proj |-> NoProject]
        /\ q' = Tail(q) /\ UNCHANGED lost
    BY <1>7 DEF net_spawn
  <2>2. /\ task'.kind = kind /\ task'.pc = "created" /\ kind # "none"
        /\ task' \in Tasks
    BY <2>1 DEF Kinds
  <2>3. InFlight' /\ SlotIsTaken'
    BY <1>7, <2>1, <2>2 DEF InFlight, SlotIsTaken
  <2>4. ~crossed' => ~HasDone(q')
    BY <1>4, <1>7, <2>1
  <2>5. HasDone(q') \/ ~Foreign(q')
    BY DEF HasDone, Foreign, DoneCodes
  <2> QED BY <1>1, <1>2, <1>5, <1>7, <2>1, <2>2, <2>3, <2>4, <2>5 DEF Pending, OneDone
<1> QED BY <1>6, <1>7, NetOpsAssumption DEF IInv, TypeOK

\* What every operation but serving shares.
LEMMA StartOpStep ==
    ASSUME IInv, NEW kind \in Kinds \ {"serve"}, NEW title \in {"Git", "SSH", "SFTP"},
           q # <<>>, Head(q) \notin DoneCodes, screen # "ALERT",
           StartOp(kind, title), s_syncing' \in BOOLEAN, listType' \in Lists,
           s_git_project' \in Projects \cup {NoProject}
    PROVE  IInv'
<1>1. /\ alert' = Busy(title, TRUE) /\ screen' = "ALERT" /\ s_sync_busy' = TRUE
      /\ net_spawn(kind, Tail(q))
      /\ UNCHANGED <<curmenu, place, curProject, wifi, s_serving, status, s_stop, left>>
  BY DEF StartOp
<1>2. alert' \in Alerts /\ alert'.busy /\ alert'.title = title
  BY <1>1 DEF Busy, Alerts, Titles
<1>3. TypeOK'
  BY ZenonT(30), <1>1, <1>2, SpawnFacts DEF IInv, TypeOK, place, status, Screens
<1>4. BusyHasCompletion' /\ BusyIsShown'
  BY <1>1, SpawnFacts DEF BusyHasCompletion, BusyIsShown
<1>5. s_serving' => crossed' \/ left'
  BY <1>1, SpawnFacts DEF IInv, ServerAlone
<1>6. TaskHoldsRadio' /\ ServerAlone'
  BY <1>1, <1>5 DEF TaskHoldsRadio, ServerAlone
<1>7. ServerHasOwner'
  BY <1>1, SpawnFacts DEF ServerHasOwner
<1>8. SlotIsTaken' /\ OneDone'
  BY <1>1, SpawnFacts
<1> QED BY <1>3, <1>4, <1>6, <1>7, <1>8 DEF IInv

LEMMA ServeStep ==
    ASSUME IInv, SftpServe
    PROVE  IInv'
<1>1. /\ q # <<>> /\ Head(q) \notin DoneCodes /\ screen = "MENU" /\ wifi = "up"
      /\ net_spawn("serve", Tail(q)) /\ screen' = "ALERT"
      /\ UNCHANGED <<curmenu, listType, place, curProject, wifi, s_git_project, status, s_stop, left>>
  BY DEF SftpServe, Selects, Receives, DoneCodes
<1>2. (~alert.busy \/ left) /\ (s_serving => crossed \/ left) /\ alert \in Alerts
  BY <1>1 DEF IInv, BusyIsShown, ServerAlone, TypeOK
<1>3. "serve" \in Kinds
  BY DEF Kinds
<1>4. CASE s_net_running' # s_net_running
  <2>1. s_serving' /\ s_sync_busy' /\ s_serving' \in BOOLEAN /\ s_sync_busy' \in BOOLEAN
        /\ s_syncing' \in BOOLEAN /\ alert' = Busy("SERVE", FALSE)
    BY <1>4 DEF SftpServe
  <2>2. alert' \in Alerts /\ alert'.busy /\ alert'.title = "SERVE"
    BY <2>1 DEF Busy, Alerts, Titles
  <2>3. TypeOK'
    BY ZenonT(30), <1>1, <1>3, <2>1, <2>2, SpawnFacts DEF IInv, TypeOK, place, status, Screens
  <2>4. task'.kind = "serve" /\ (~crossed' => ~Foreign(q'))
    BY <1>1, <1>3, <1>4, SpawnFacts
  <2>5. ServerAlone'
    BY <1>1, <2>2, <2>4 DEF ServerAlone, Foreign
  <2> QED BY <1>1, <1>3, <2>1, <2>3, <2>5, SpawnFacts
          DEF IInv, BusyHasCompletion, BusyIsShown, TaskHoldsRadio, ServerHasOwner
<1>5. CASE s_net_running' = s_net_running
  <2>1. alert' = Says("SERVE") /\ UNCHANGED <<s_serving, s_sync_busy, s_syncing>>
    BY <1>5 DEF SftpServe
  <2>2. alert' \in Alerts /\ (~alert'.busy \/ left')
    BY <1>1, <1>2, <2>1 DEF Says, Alerts, Titles
  <2>3. TypeOK'
    BY <1>1, <1>3, <2>1, <2>2, SpawnFacts DEF IInv, TypeOK, place, status, Screens
  <2>4. crossed' \/ ~InFlight'
    BY <1>1, <1>3, <1>5, SpawnFacts
  <2>5. s_serving' => crossed' \/ left'
    BY <1>1, <1>2, <1>3, <2>1, SpawnFacts
  <2> QED BY <1>1, <1>3, <2>2, <2>3, <2>4, <2>5, SpawnFacts
          DEF IInv, BusyHasCompletion, BusyIsShown, TaskHoldsRadio, ServerHasOwner, ServerAlone
<1> QED BY <1>4, <1>5

LEMMA StartsKeepIInv ==
    ASSUME IInv, Starts
    PROVE  IInv'
<1>0. TypeOK /\ BusyIsShown
  BY DEF IInv
<1>1. CASE GitSync
  <2>1. /\ q # <<>> /\ Head(q) \notin DoneCodes /\ screen # "ALERT" /\ StartOp("sync", "Git")
        /\ s_syncing' = TRUE /\ s_git_project' = curProject /\ listType' = listType
    BY <1>1 DEF GitSync, Selects, Receives, DoneCodes
  <2>2. "sync" \in Kinds \ {"serve"} /\ "Git" \in {"Git", "SSH", "SFTP"}
    BY DEF Kinds
  <2> QED BY <1>0, <2>1, <2>2, StartOpStep DEF TypeOK
<1>2. CASE GitStatus
  <2>1. /\ q # <<>> /\ Head(q) \notin DoneCodes /\ screen # "ALERT" /\ StartOp("status", "Git")
        /\ s_syncing' = s_syncing /\ s_git_project' = curProject /\ listType' = listType
    BY <1>2 DEF GitStatus, Selects, Receives, DoneCodes
  <2>2. "status" \in Kinds \ {"serve"} /\ "Git" \in {"Git", "SSH", "SFTP"}
    BY DEF Kinds
  <2> QED BY <1>0, <2>1, <2>2, StartOpStep DEF TypeOK
<1>3. CASE SshTest
  <2>1. /\ q # <<>> /\ Head(q) \notin DoneCodes /\ screen # "ALERT" /\ StartOp("ssh", "SSH")
        /\ UNCHANGED <<listType, s_git_project, s_syncing>>
    BY <1>3 DEF SshTest, Selects, Receives, DoneCodes
  <2>2. "ssh" \in Kinds \ {"serve"} /\ "SSH" \in {"Git", "SSH", "SFTP"}
    BY DEF Kinds
  <2> QED BY <1>0, <2>1, <2>2, StartOpStep DEF TypeOK
<1>4. CASE SftpPush
  <2>1. /\ q # <<>> /\ Head(q) \notin DoneCodes /\ screen # "ALERT" /\ StartOp("push", "SFTP")
        /\ listType' = "NONE" /\ UNCHANGED <<s_git_project, s_syncing>>
    BY <1>4 DEF SftpPush, InList, Receives, DoneCodes
  <2>2. "push" \in Kinds \ {"serve"} /\ "SFTP" \in {"Git", "SSH", "SFTP"} /\ "NONE" \in Lists
    BY DEF Kinds, Lists
  <2> QED BY <1>0, <2>1, <2>2, StartOpStep DEF TypeOK
<1>5. CASE SftpServe
  BY <1>5, ServeStep
<1>6. CASE NotReady \/ DiskMode \/ ToggleWifi \/ DisconnectWifi
  <2>1. q # <<>> /\ Head(q) \notin DoneCodes /\ Consume /\ UNCHANGED netFrame /\ screen = "MENU"
    BY <1>6 DEF NotReady, DiskMode, ToggleWifi, DisconnectWifi, Selects, Receives, DoneCodes,
                calm, work, netFrame
  <2>2. \/ alert' = alert
        \/ \E t \in {"Git", "OTHER", "WIFI"} : alert' = Says(t)
    BY <1>6 DEF NotReady, DiskMode, ToggleWifi, DisconnectWifi, Tell
  <2>3. alert' \in Alerts /\ (~alert'.busy \/ left) /\ UNCHANGED left
    BY <1>0, <1>6, <2>1, <2>2 DEF TypeOK, BusyIsShown, Says, Alerts, Titles, calm, work,
                                NotReady, DiskMode, ToggleWifi, DisconnectWifi
  <2>4. wifi' \in Radio /\ screen' \in Screens
    BY <1>0, <1>6 DEF NotReady, DiskMode, ToggleWifi, DisconnectWifi, Tell, RadioOn, RadioOff,
                      Radio, Screens, TypeOK
  <2>5. UNCHANGED <<curmenu, listType, place, curProject, s_stop>>
    BY <1>6 DEF NotReady, DiskMode, ToggleWifi, DisconnectWifi, calm, work
  <2>6. UiTypeOK'
    BY <1>0, <2>3, <2>4, <2>5 DEF UiTypeOK, TypeOK, place
  <2>7. AlertQuiet
    BY <2>1, <2>3 DEF AlertQuiet, BusyIsShown, NetworkAlertUp, oyobyok_app_busy
  <2> QED BY <2>1, <2>6, <2>7, MoveStep
<1> QED BY <1>1, <1>2, <1>3, <1>4, <1>5, <1>6 DEF Starts

-----------------------------------------------------------------------------
(* The task.                                                               *)

TaskTypeOK ==
    /\ task \in Tasks
    /\ s_net_running \in BOOLEAN /\ s_stop \in BOOLEAN
    /\ s_git_stat_ready \in BOOLEAN /\ s_git_stat \in Projects \cup {NoProject}

\* A task step that posts nothing changes nothing the invariant relates but its
\* program point, and is in flight as before.
LEMMA TaskFrame ==
    ASSUME IInv, UNCHANGED <<taskOnly, q, lost>>, TaskTypeOK', SlotIsTaken',
           InFlight' <=> InFlight, InFlight => task'.kind = task.kind
    PROVE  IInv'
<1>1. TypeOK'
  BY DEF IInv, TypeOK, TaskTypeOK, taskOnly, nav
<1>2. UNCHANGED <<screen, alert, s_sync_busy, s_serving, wifi, crossed, left, q, lost>>
  BY DEF taskOnly, nav
<1>3. BusyHasCompletion' /\ BusyIsShown'
  BY <1>2 DEF IInv, BusyHasCompletion, BusyIsShown, NetworkAlertUp, oyobyok_app_busy,
              Pending, HasDone
<1>4. OneDone' /\ TaskHoldsRadio' /\ ServerHasOwner'
  BY <1>2 DEF IInv, OneDone, TaskHoldsRadio, ServerHasOwner, HasDone
<1>5. ServerAlone'
  BY <1>2 DEF IInv, ServerAlone
<1> QED BY <1>1, <1>3, <1>4, <1>5 DEF IInv

LEMMA TaskQuietStep ==
    ASSUME IInv,
           TaskBegin \/ TaskStatus \/ TaskClear \/ TaskExit \/ TaskWorks \/ TaskServed
    PROVE  IInv'
<1>0. TaskTypeOK /\ SlotIsTaken /\ s_git_project \in Projects \cup {NoProject}
  BY DEF IInv, TypeOK, TaskTypeOK
<1>1. CASE TaskBegin
  <2>1. UNCHANGED <<taskOnly, q, lost>>
    BY <1>1 DEF TaskBegin
  <2>2. TaskTypeOK'
    BY <1>0, <1>1 DEF TaskBegin, TaskTypeOK
  <2>3. SlotIsTaken' /\ (InFlight' <=> InFlight) /\ (InFlight => task'.kind = task.kind)
    BY <1>0, <1>1 DEF TaskBegin, TaskTypeOK, SlotIsTaken, InFlight
  <2> QED BY <2>1, <2>2, <2>3, TaskFrame
<1>2. CASE TaskStatus
  <2>1. UNCHANGED <<taskOnly, q, lost>>
    BY <1>2 DEF TaskStatus
  <2>2. TaskTypeOK'
    BY <1>0, <1>2 DEF TaskStatus, TaskTypeOK
  <2>3. SlotIsTaken' /\ (InFlight' <=> InFlight) /\ (InFlight => task'.kind = task.kind)
    BY <1>0, <1>2 DEF TaskStatus, TaskTypeOK, SlotIsTaken, InFlight
  <2> QED BY <2>1, <2>2, <2>3, TaskFrame
<1>3. CASE TaskClear
  <2>1. UNCHANGED <<taskOnly, q, lost>>
    BY <1>3 DEF TaskClear
  <2>2. TaskTypeOK'
    BY <1>0, <1>3 DEF TaskClear, TaskTypeOK
  <2>3. SlotIsTaken' /\ (InFlight' <=> InFlight) /\ (InFlight => task'.kind = task.kind)
    BY <1>0, <1>3 DEF TaskClear, TaskTypeOK, SlotIsTaken, InFlight
  <2> QED BY <2>1, <2>2, <2>3, TaskFrame
<1>4. CASE TaskExit
  <2>1. UNCHANGED <<taskOnly, q, lost>>
    BY <1>4 DEF TaskExit
  <2>2. TaskTypeOK'
    BY <1>0, <1>4 DEF TaskExit, TaskTypeOK, NoTask
  <2>3. SlotIsTaken' /\ (InFlight' <=> InFlight) /\ (InFlight => task'.kind = task.kind)
    BY <1>0, <1>4 DEF TaskExit, TaskTypeOK, SlotIsTaken, InFlight, NoTask
  <2> QED BY <2>1, <2>2, <2>3, TaskFrame
<1>5. CASE TaskWorks
  <2>1. UNCHANGED <<taskOnly, q, lost>>
    BY <1>5 DEF TaskWorks
  <2>2. TaskTypeOK'
    BY <1>0, <1>5 DEF TaskWorks, TaskTypeOK
  <2>3. SlotIsTaken' /\ (InFlight' <=> InFlight) /\ (InFlight => task'.kind = task.kind)
    BY <1>0, <1>5 DEF TaskWorks, TaskTypeOK, SlotIsTaken, InFlight
  <2> QED BY <2>1, <2>2, <2>3, TaskFrame
<1>6. CASE TaskServed
  <2>1. UNCHANGED <<taskOnly, q, lost>>
    BY <1>6 DEF TaskServed
  <2>2. TaskTypeOK'
    BY <1>0, <1>6 DEF TaskServed, TaskTypeOK
  <2>3. SlotIsTaken' /\ (InFlight' <=> InFlight) /\ (InFlight => task'.kind = task.kind)
    BY <1>0, <1>6 DEF TaskServed, TaskTypeOK, SlotIsTaken, InFlight
  <2> QED BY <2>1, <2>2, <2>3, TaskFrame
<1> QED BY <1>1, <1>2, <1>3, <1>4, <1>5, <1>6

LEMMA TaskPostStep ==
    ASSUME IInv, TaskPost
    PROVE  IInv'
<1>0. TypeOK /\ SlotIsTaken
  BY DEF IInv
<1>1. /\ task.pc = "posting" /\ task.kind \in Kinds /\ InFlight
      /\ task' = [task EXCEPT !.pc = "clearing"]
      /\ Post(q, DoneOf[task.kind])
      /\ UNCHANGED <<taskOnly, s_net_running, s_stop, s_git_stat_ready, s_git_stat>>
  BY <1>0 DEF TaskPost, SlotIsTaken, TypeOK, InFlight
<1>2. /\ task'.pc = "clearing" /\ task'.kind = task.kind /\ ~InFlight'
      /\ task' \in Tasks
  BY <1>0, <1>1 DEF TypeOK, InFlight
<1>3. /\ DoneOf[task.kind] \in DoneCodes /\ DoneOf[task.kind] \in Codes
      /\ task.kind = "serve" => DoneOf[task.kind] = "SFTP_DONE"
  BY <1>1 DEF Kinds, DoneOf, DoneCodes, Codes
<1>4. /\ q' \in Seq(Codes) /\ Len(q') <= QCap /\ lost' \in BOOLEAN
      /\ lost' \/ HasDone(q')
      /\ Foreign(q') => Foreign(q) \/ DoneOf[task.kind] \in {"GIT_DONE", "SSH_DONE"}
  BY <1>0, <1>1, <1>3, PostFacts DEF TypeOK
<1>5. TypeOK' /\ SlotIsTaken'
  BY <1>0, <1>1, <1>2, <1>4 DEF TypeOK, SlotIsTaken, taskOnly, nav
<1>6. BusyHasCompletion' /\ BusyIsShown'
  BY <1>1, <1>4 DEF IInv, BusyHasCompletion, BusyIsShown, Pending, taskOnly, nav
<1>7. OneDone' /\ TaskHoldsRadio' /\ ServerHasOwner'
  BY <1>2 DEF OneDone, TaskHoldsRadio, ServerHasOwner
<1>8. ServerAlone'
  <2>1. ServerAlone /\ UNCHANGED <<screen, alert, s_serving, wifi, crossed, left>>
    BY <1>1 DEF IInv, taskOnly, nav
  <2>2. s_serving /\ ~crossed /\ ~left => ~Foreign(q) /\ task.kind = "serve"
    BY <1>1, <2>1 DEF ServerAlone, Foreign
  <2>3. s_serving /\ ~crossed /\ ~left => ~Foreign(q')
    BY <1>3, <1>4, <2>2
  <2> QED BY <1>2, <2>1, <2>3 DEF ServerAlone, Foreign
<1> QED BY <1>5, <1>6, <1>7, <1>8 DEF IInv

-----------------------------------------------------------------------------
(* Completions, the limit, and the outside world.                          *)

\* A DONE code is taken by its handler: the host stops believing in the
\* operation and, unless operations crossed, nothing is left in flight.
LEMMA AnswerStep ==
    ASSUME IInv, q # <<>>, Head(q) \in DoneCodes, Consume, op_finished,
           UNCHANGED doneOnly, alert' \in Alerts, ~alert'.busy,
           screen' \in Screens, s_syncing' \in BOOLEAN, s_serving' \in BOOLEAN,
           s_git_stat_ready' \in BOOLEAN, s_git_stat' = s_git_stat,
           gStat' \in Projects \cup {NoProject},
           s_serving' => s_serving /\ Head(q) \in {"GIT_DONE", "SSH_DONE"}
    PROVE  IInv'
<1>0. TypeOK /\ SlotIsTaken /\ OneDone /\ ServerAlone
  BY DEF IInv
<1>1. q' = Tail(q) /\ lost' = lost /\ s_sync_busy' = FALSE
  BY DEF Consume, op_finished
<1>2. q' \in Seq(Codes) /\ Len(q') <= QCap /\ HasDone(q)
  BY <1>0, <1>1, ConsumeFacts, NetOpsAssumption DEF TypeOK
<1>3. wifi' \in Radio
  BY <1>0 DEF TypeOK, op_finished, ReleaseRadio, RadioOff, Radio
<1>4. TypeOK'
  <2>1. UNCHANGED <<curmenu, listType, entry, have_editor, curProject, s_net_running, task,
                    s_git_project, s_stop, crossed, left, s_git_stat, lost>>
    BY <1>1 DEF doneOnly, place, slot
  <2>2. s_sync_busy' \in BOOLEAN /\ lost' \in BOOLEAN
    BY <1>0, <1>1 DEF TypeOK
  <2> QED BY <1>0, <1>2, <1>3, <2>1, <2>2 DEF TypeOK
<1>5. UNCHANGED <<task, s_net_running, crossed, left>> /\ (InFlight' <=> InFlight)
  BY DEF doneOnly, slot, InFlight
<1>6. InFlight' => crossed'
  BY <1>0, <1>2, <1>5 DEF OneDone
<1>7. s_serving' => crossed' \/ left'
  <2>1. SUFFICES ASSUME s_serving, Head(q) \in {"GIT_DONE", "SSH_DONE"} PROVE crossed \/ left
    BY <1>5
  <2>2. 1 \in 1..Len(q) /\ Head(q) = q[1]
    BY <1>0 DEF TypeOK
  <2> QED BY <1>0, <2>1, <2>2 DEF ServerAlone
<1>8. SlotIsTaken' /\ OneDone' /\ TaskHoldsRadio' /\ ServerHasOwner' /\ ServerAlone'
  BY <1>0, <1>5, <1>6, <1>7 DEF SlotIsTaken, OneDone, TaskHoldsRadio, ServerHasOwner, ServerAlone
<1>9. BusyHasCompletion' /\ BusyIsShown'
  BY <1>1 DEF BusyHasCompletion, BusyIsShown, NetworkAlertUp, oyobyok_app_busy
<1> QED BY <1>4, <1>8, <1>9 DEF IInv

LEMMA AnswersKeepIInv ==
    ASSUME IInv, Answers
    PROVE  IInv'
<1>0. TypeOK /\ BusyIsShown
  BY DEF IInv
<1>1. CASE oyobyok_app_ssh_result
  <2>1. /\ q # <<>> /\ Head(q) = "SSH_DONE" /\ Consume /\ op_finished
        /\ UNCHANGED <<doneOnly, screen, s_serving, s_syncing, status>>
    BY <1>1 DEF oyobyok_app_ssh_result, Receives
  <2>3. alert' \in Alerts /\ ~alert'.busy
    BY <1>0, <1>1 DEF oyobyok_app_ssh_result, Settled, Alerts, TypeOK
  <2> QED BY <1>0, <2>1, <2>3, AnswerStep DEF DoneCodes, TypeOK, status
<1>2. CASE oyobyok_app_sftp_result
  <2>1. /\ q # <<>> /\ Head(q) = "SFTP_DONE" /\ Consume /\ op_finished /\ s_serving' = FALSE
        /\ UNCHANGED <<doneOnly, screen, status>> /\ s_syncing' \in BOOLEAN
    BY <1>0, <1>2 DEF oyobyok_app_sftp_result, Receives, TypeOK
  <2>3. alert' \in Alerts /\ ~alert'.busy
    BY <1>0, <1>2 DEF oyobyok_app_sftp_result, Settled, Alerts, TypeOK
  <2> QED BY <1>0, <2>1, <2>3, AnswerStep DEF DoneCodes, TypeOK, status
<1>3. CASE oyobyok_app_git_result
  <2>1. /\ q # <<>> /\ Head(q) = "GIT_DONE" /\ Consume /\ op_finished
        /\ UNCHANGED <<doneOnly, s_serving, s_git_stat>>
    BY <1>3 DEF oyobyok_app_git_result, Receives, status
  <2>3. alert' \in Alerts /\ ~alert'.busy
    BY <1>0, <1>3 DEF oyobyok_app_git_result, Settled, Alerts, TypeOK, Titles
  <2>4. /\ screen' \in Screens /\ s_syncing' \in BOOLEAN /\ s_git_stat_ready' \in BOOLEAN
        /\ gStat' \in Projects \cup {NoProject}
    BY <1>0, <1>3 DEF oyobyok_app_git_result, TypeOK, status, Screens
  <2> QED BY <1>0, <2>1, <2>3, <2>4, AnswerStep DEF DoneCodes, TypeOK
<1>4. CASE \E c \in {"WIFI_OK", "WIFI_FAIL"} : oyobyok_app_wifi_result(c)
  <2>1. /\ q # <<>> /\ Head(q) \notin DoneCodes /\ Consume /\ UNCHANGED <<nav, wifi, calm>>
    BY <1>4 DEF oyobyok_app_wifi_result, Receives, DoneCodes
  <2>2. \/ alert' = alert
        \/ alert.title = "WIFI" /\ alert' = Settled
    BY <1>4 DEF oyobyok_app_wifi_result
  <2>3. alert' \in Alerts /\ (alert' = alert \/ (~alert'.busy /\ alert.title = "WIFI"))
    BY <1>0, <2>2 DEF TypeOK, Alerts, Settled
  <2>4. UiTypeOK' /\ UNCHANGED netFrame /\ UNCHANGED <<screen, wifi, left>>
    BY <1>0, <2>1, <2>3 DEF UiTypeOK, TypeOK, nav, calm, work, netFrame
  <2>5. AlertQuiet
    BY <1>0, <2>3, <2>4 DEF AlertQuiet, BusyIsShown, NetworkAlertUp, oyobyok_app_busy
  <2> QED BY <2>1, <2>4, <2>5, MoveStep
<1> QED BY <1>1, <1>2, <1>3, <1>4 DEF Answers

LEMMA OutsideKeepsIInv ==
    ASSUME IInv, TimeOut \/ (\E k \in Keys : UserPress(k)) \/ WifiUp \/ WifiFails \/ WifiLost
    PROVE  IInv'
<1>0. TypeOK /\ BusyIsShown
  BY DEF IInv
<1>1. CASE TimeOut
  <2>1. /\ ~s_serving /\ alert' = [alert EXCEPT !.busy = FALSE]
        /\ UNCHANGED <<nav, wifi, calm, q, lost>>
    BY <1>1 DEF TimeOut, Settled
  <2>2. alert' \in Alerts /\ ~alert'.busy
    BY <1>0, <2>1 DEF TypeOK, Alerts
  <2>3. TypeOK'
    BY <1>0, <2>1, <2>2 DEF TypeOK, nav, calm, work, slot, status
  <2>4. QueueQuiet /\ AlertQuiet
    BY <1>0, <2>1, <2>2 DEF calm, QueueQuiet, AlertQuiet, BusyIsShown, NetworkAlertUp, oyobyok_app_busy,
                      HasDone, Foreign
  <2> QED BY <2>1, <2>3, <2>4, QuietStep DEF calm, work, slot
<1>2. CASE \E k \in Keys : UserPress(k)
  <2>1. PICK k \in Keys : UserPress(k)
    BY <1>2
  <2>2. Post(q, k) /\ k \in Codes \ DoneCodes
    BY <2>1 DEF UserPress, Keys, Leaving, Codes, DoneCodes
  <2>3. QueueQuiet /\ q' \in Seq(Codes) /\ Len(q') <= QCap /\ lost' \in BOOLEAN
    BY <1>0, <2>2, PostIsQuiet
  <2>4. UNCHANGED <<nav, alert, s_sync_busy, s_serving, s_syncing, wifi, slot, status,
                    s_stop, crossed, left>>
    BY <2>1 DEF UserPress
  <2>5. TypeOK' /\ AlertQuiet
    BY <1>0, <2>3, <2>4 DEF TypeOK, nav, slot, status, AlertQuiet, BusyIsShown, NetworkAlertUp,
                            oyobyok_app_busy
  <2> QED BY <2>3, <2>4, <2>5, QuietStep DEF slot
<1>3. CASE WifiUp \/ WifiFails \/ WifiLost
  <2>1. /\ UNCHANGED noUi /\ wifi' \in Radio /\ wifi' # "off"
        /\ \/ \E c \in {"WIFI_OK", "WIFI_FAIL"} : Post(q, c)
           \/ UNCHANGED <<q, lost>>
    BY <1>3 DEF WifiUp, WifiFails, WifiLost, Radio, noUi
  <2>2. {"WIFI_OK", "WIFI_FAIL"} \subseteq Codes \ DoneCodes
    BY DEF Codes, DoneCodes
  <2>3. QueueQuiet /\ q' \in Seq(Codes) /\ Len(q') <= QCap /\ lost' \in BOOLEAN
    <3>1. CASE \E c \in {"WIFI_OK", "WIFI_FAIL"} : Post(q, c)
      BY <1>0, <2>2, <3>1, PostIsQuiet
    <3>2. CASE UNCHANGED <<q, lost>>
      BY <1>0, <3>2 DEF TypeOK, QueueQuiet, HasDone, Foreign
    <3> QED BY <2>1, <3>1, <3>2
  <2>4. TypeOK' /\ AlertQuiet
    BY <1>0, <2>1, <2>3 DEF TypeOK, noUi, nav, slot, status, AlertQuiet, BusyIsShown,
                            NetworkAlertUp, oyobyok_app_busy
  <2> QED BY <2>1, <2>3, <2>4, QuietStep DEF noUi, slot
<1> QED BY <1>1, <1>2, <1>3

-----------------------------------------------------------------------------
(* The theorems.                                                           *)

LEMMA InitIInv == Init => IInv
<1> SUFFICES ASSUME Init PROVE IInv
  OBVIOUS
<1>1. q = <<>> /\ q \in Seq(Codes) /\ Len(q) = 0 /\ ~HasDone(q)
  BY DEF Init, HasDone
<1>2. TypeOK
  <2>1. Len(q) <= QCap
    BY <1>1, NetOpsAssumption
  <2>2. alert \in Alerts
    BY DEF Init, Alerts, Titles
  <2>3. screen \in Screens /\ curmenu \in Menus /\ listType \in Lists /\ wifi \in Radio
    BY DEF Init, Screens, Menus, Lists, Radio
  <2>4. task \in Tasks
    BY DEF Init, NoTask
  <2> QED BY <1>1, <2>1, <2>2, <2>3, <2>4 DEF Init, TypeOK
<1>3. BusyIsShown /\ SlotIsTaken /\ BusyHasCompletion /\ OneDone /\ TaskHoldsRadio
  BY DEF Init, NoTask, BusyIsShown, SlotIsTaken, BusyHasCompletion, NetworkAlertUp,
         oyobyok_app_busy, OneDone, TaskHoldsRadio, InFlight
<1>4. ServerAlone /\ ServerHasOwner
  BY DEF Init, NoTask, ServerAlone, ServerHasOwner, InFlight
<1> QED BY <1>2, <1>3, <1>4 DEF IInv

\* Every step of the program keeps the inductive invariant.
LEMMA NextIInv == IInv /\ [Next]_vars => IInv'
<1> SUFFICES ASSUME IInv, [Next]_vars PROVE IInv'
  OBVIOUS
<1>1. CASE HostStep
  BY <1>1, MovesKeepIInv, StartsKeepIInv, AnswersKeepIInv DEF HostStep
<1>2. CASE TaskFair
  BY <1>2, TaskQuietStep, TaskPostStep DEF TaskFair
<1>3. CASE TaskServed
  BY <1>3, TaskQuietStep
<1>4. CASE TimeOut \/ (\E k \in Keys : UserPress(k)) \/ WifiUp \/ WifiFails \/ WifiLost
  BY <1>4, OutsideKeepsIInv
<1>5. CASE UNCHANGED vars
  <2>1. TypeOK'
    BY <1>5 DEF IInv, TypeOK, vars, nav, slot, status
  <2>2. QueueQuiet /\ AlertQuiet
    BY <1>5 DEF IInv, vars, nav, QueueQuiet, AlertQuiet, BusyIsShown, NetworkAlertUp,
                oyobyok_app_busy, HasDone, Foreign
  <2> QED BY <1>5, <2>1, <2>2, QuietStep DEF vars, slot
<1> QED BY <1>1, <1>2, <1>3, <1>4, <1>5 DEF Next

THEOREM Invariance == Spec => []IInv
  BY InitIInv, NextIInv, PTL DEF Spec

\* Every variable has its type; the queue never exceeds its length.
THEOREM TypeCorrect == Spec => []TypeOK
<1>1. IInv => TypeOK
  BY DEF IInv
<1> QED BY <1>1, Invariance, PTL

\* Nobody waits for nothing: a busy flag, or an alert not left by Ctrl-S, always
\* has a task or a DONE code behind it (oyobyok_main.c net_spawn,
\* oyobyok_app.inc op_finished), unless one met a full queue.
THEOREM BusyCompletes == Spec => []BusyHasCompletion
<1>1. IInv => BusyHasCompletion
  BY DEF IInv
<1> QED BY <1>1, Invariance, PTL

\* s_sync_busy covers a task in flight, so sync_radio(0) cannot take the radio
\* from under it, except after crossed operations.
THEOREM RadioIsHeld == Spec => []TaskHoldsRadio
<1>1. IInv => TaskHoldsRadio
  BY DEF IInv
<1> QED BY <1>1, Invariance, PTL

\* A serving device shows its alert, which Enter cannot dismiss, and keeps WiFi
\* on, except after crossed operations or a Ctrl-S on the alert.
THEOREM ServerIsAttended == Spec => []ServingIsAttended
<1>1. IInv => ServingIsAttended
  BY DEF IInv, ServerAlone, ServingIsAttended, oyobyok_app_busy
<1> QED BY <1>1, Invariance, PTL

\* While the server's task runs, Esc reaches oyobyok_sshd_stop, except after
\* crossed operations.
THEOREM ServerCanBeStopped == Spec => []ServerHasOwner
<1>1. IInv => ServerHasOwner
  BY DEF IInv
<1> QED BY <1>1, Invariance, PTL
=============================================================================
