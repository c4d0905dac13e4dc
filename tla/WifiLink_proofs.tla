--------------------------- MODULE WifiLink_proofs ---------------------------
(***************************************************************************)
(* Proofs about WifiLink, for any set of networks, any number of tries,    *)
(* calls and troubles.                                                     *)
(*                                                                         *)
(* Three things move apart: what the radio does, the news of it that is    *)
(* under way, and what the event task has decided.  The invariant says     *)
(* how far: an address that was announced is there, or the news of its     *)
(* loss follows; and what crosses the begin of an attempt is remembered.   *)
(***************************************************************************)
EXTENDS WifiLink, Sums

\* An address was announced, and no news of its loss follows.
Fresh(s) == \E i \in 1..Len(s) : /\ s[i] = "GOT_IP"
                                 /\ \A j \in i..Len(s) : s[j] # "STA_DISCONNECTED"

Succeeding == on_wifi \in {"named", "late"}

\* The radio is told only when it was started.
OffIsOff == ~s_started => link = "off" /\ host = "rest"

AddressIsThere ==
    /\ Fresh(events) => link = "up"
    /\ Succeeding \/ s_connected # None => link = "up" \/ Pending("STA_DISCONNECTED")

JoinsTarget == host = "rest" /\ Engaged => ap = s_target

NameIsTarget ==
    host = "rest" /\ s_connected # None /\ ~Pending("STA_DISCONNECTED") =>
        s_connected = s_target

MixIsNoted == host # "rest" /\ (Pending("GOT_IP") \/ Succeeding) => mixed

TriesAreLeft == on_wifi = "again" => s_retry < MaxRetry

\* What the refinement rests on.
LostIsNameless == on_wifi \in {"again", "give_up"} => s_connected = None
EnabledTries   == s_connecting => s_enabled
TargetFirst ==
    s_target = None => /\ ~s_connecting /\ on_wifi \notin {"again", "named", "late"}
                       /\ host # "connect" /\ link \in {"off", "idle"}
                       /\ ~Pending("GOT_IP")

Apart == /\ OffIsOff /\ AddressIsThere /\ JoinsTarget /\ NameIsTarget /\ MixIsNoted
         /\ TriesAreLeft /\ LostIsNameless /\ EnabledTries /\ TargetFirst

IInv == TypeOK /\ Apart

-----------------------------------------------------------------------------
(* The news under way.                                                     *)

LEMMA AppendFacts ==
    ASSUME NEW s \in Seq(Events), NEW e \in Events
    PROVE  /\ Append(s, e) \in Seq(Events)
           /\ \A f \in Events : Contains(Append(s, e), f) <=> Contains(s, f) \/ f = e
           /\ e = "STA_DISCONNECTED" => ~Fresh(Append(s, e))
           /\ e = "STA_START" /\ Fresh(Append(s, e)) => Fresh(s)
<1> DEFINE t == Append(s, e)
<1>1. t \in Seq(Events) /\ Len(t) = Len(s) + 1 /\ Len(s) \in Nat
  OBVIOUS
<1>2. /\ \A i \in 1..Len(s) : t[i] = s[i] /\ i \in 1..Len(t)
      /\ \A i \in 1..Len(t) : i \in 1..Len(s) \/ i = Len(t)
      /\ t[Len(t)] = e /\ Len(t) \in 1..Len(t)
  BY <1>1
<1>3. \A f \in Events : Contains(t, f) <=> Contains(s, f) \/ f = e
  BY <1>2 DEF Contains
<1>4. \A i \in 1..Len(t) : Len(t) \in i..Len(t)
  BY <1>1
<1>5. e = "STA_DISCONNECTED" => ~Fresh(t)
  BY <1>2, <1>4 DEF Fresh
<1>6. ASSUME e = "STA_START", Fresh(t) PROVE Fresh(s)
  <2>1. PICK i \in 1..Len(t) : t[i] = "GOT_IP" /\ \A j \in i..Len(t) : t[j] # "STA_DISCONNECTED"
    BY <1>6 DEF Fresh
  <2>2. i \in 1..Len(s) /\ s[i] = "GOT_IP"
    BY <1>2, <1>6, <2>1
  <2>3. \A j \in i..Len(s) : j \in i..Len(t) /\ j \in 1..Len(s)
    BY <1>1, <2>2
  <2>4. \A j \in i..Len(s) : s[j] # "STA_DISCONNECTED"
    BY <1>2, <2>1, <2>3
  <2> QED BY <2>2, <2>4 DEF Fresh
<1> QED BY <1>1, <1>3, <1>5, <1>6

LEMMA TailFacts ==
    ASSUME NEW s \in Seq(Events), s # <<>>
    PROVE  /\ Tail(s) \in Seq(Events)
           /\ \A f \in Events : Contains(Tail(s), f) => Contains(s, f)
           /\ \A f \in Events : Contains(s, f) => f = Head(s) \/ Contains(Tail(s), f)
           /\ Fresh(Tail(s)) => Fresh(s)
           /\ Head(s) = "GOT_IP" => Fresh(s) \/ Contains(Tail(s), "STA_DISCONNECTED")
           /\ Contains(s, Head(s))
<1> DEFINE t == Tail(s)
<1>1. t \in Seq(Events) /\ Len(t) = Len(s) - 1 /\ Len(s) \in Nat \ {0}
  OBVIOUS
<1>2. /\ \A i \in 1..Len(t) : t[i] = s[i + 1] /\ i + 1 \in 1..Len(s)
      /\ \A i \in 1..Len(s) : i = 1 \/ (i - 1 \in 1..Len(t) /\ t[i - 1] = s[i])
      /\ Head(s) = s[1] /\ 1 \in 1..Len(s)
  BY <1>1
<1>3. /\ \A f \in Events : Contains(t, f) => Contains(s, f)
      /\ \A f \in Events : Contains(s, f) => f = Head(s) \/ Contains(t, f)
      /\ Contains(s, Head(s))
  BY <1>2 DEF Contains
<1>4. ASSUME Fresh(t) PROVE Fresh(s)
  <2>1. PICK i \in 1..Len(t) : t[i] = "GOT_IP" /\ \A j \in i..Len(t) : t[j] # "STA_DISCONNECTED"
    BY <1>4 DEF Fresh
  <2>2. i + 1 \in 1..Len(s) /\ s[i + 1] = "GOT_IP"
    BY <1>2, <2>1
  <2>3. \A j \in i + 1..Len(s) : j \in 1..Len(s) /\ j # 1 /\ j - 1 \in i..Len(t)
    BY <1>1, <2>1
  <2>4. \A j \in i + 1..Len(s) : s[j] # "STA_DISCONNECTED"
    BY <1>2, <2>1, <2>3
  <2> QED BY <2>2, <2>4 DEF Fresh
<1>5. ASSUME Head(s) = "GOT_IP", ~Contains(t, "STA_DISCONNECTED") PROVE Fresh(s)
  <2>1. \A j \in 1..Len(s) : s[j] # "STA_DISCONNECTED"
    BY <1>2, <1>5 DEF Contains
  <2> QED BY <1>2, <1>5, <2>1 DEF Fresh
<1> QED BY <1>1, <1>3, <1>4, <1>5

-----------------------------------------------------------------------------
(* Types.                                                                  *)

USE DEF flags, bounds, past

LEMMA SaveType ==
    ASSUME TypeOK, NEW n \in Networks, Save(n) PROVE known' \in Seq(Networks \ Long)
<1>1. known \in Seq(Networks \ Long)
  BY DEF TypeOK
<1>2. ASSUME NEW i \in 1..Len(known)
      PROVE  RemoveAt(known, i) \in Seq(Networks \ Long)
  <2>1. SubSeq(known, 1, i - 1) \in Seq(Networks \ Long)
    BY <1>1
  <2>2. SubSeq(known, i + 1, Len(known)) \in Seq(Networks \ Long)
    BY <1>1
  <2> QED BY <2>1, <2>2 DEF RemoveAt
<1>3. n \notin Long => \A s \in Seq(Networks \ Long) : Append(s, n) \in Seq(Networks \ Long)
  OBVIOUS
<1> QED BY <1>1, <1>2, <1>3 DEF Save

LEMMA SeqTypes ==
    ASSUME TypeOK
    PROVE  /\ Append(events, "STA_START") \in Seq(Events)
           /\ Append(events, "STA_DISCONNECTED") \in Seq(Events)
           /\ Append(events, "GOT_IP") \in Seq(Events)
           /\ events # <<>> => Tail(events) \in Seq(Events)
           /\ Append(posts, "OK") \in Seq({"OK", "FAIL"})
           /\ Append(posts, "FAIL") \in Seq({"OK", "FAIL"})
<1>1. events \in Seq(Events) /\ posts \in Seq({"OK", "FAIL"})
  BY DEF TypeOK
<1> QED BY <1>1 DEF Events

LEMMA FirstKnown == TypeOK /\ known # <<>> => known[1] \in Networks
BY DEF TypeOK

LEMMA UnsettledType == Unsettled \in BOOLEAN
BY DEF Unsettled

\* The types in four groups: a step seldom disturbs more than one.
NumbersOK == /\ s_retry \in 0..MaxRetry /\ failed \in 0..MaxRetry + 1
             /\ ops \in 0..MaxOps /\ troubles \in 0..MaxTroubles
QueuesOK  == events \in Seq(Events) /\ posts \in Seq({"OK", "FAIL"}) /\ known \in Seq(Networks \ Long)
FlagsOK   == /\ s_started \in BOOLEAN /\ s_enabled \in BOOLEAN /\ s_connecting \in BOOLEAN
             /\ s_ip \in BOOLEAN /\ recent \in BOOLEAN /\ mixed \in BOOLEAN
PlacesOK  ==
    /\ s_target \in Networks \cup {None} /\ s_connected \in Networks \cup {None}
    /\ host \in {"rest", "connect", "disconnect", "off"}
    /\ on_wifi \in {"rest", "again", "give_up", "named", "late"}
    /\ link \in Links /\ ap \in Networks \cup {None}

LEMMA TypeGroups ==
    /\ TypeOK => NumbersOK /\ QueuesOK /\ FlagsOK /\ PlacesOK
    /\ NumbersOK' /\ QueuesOK' /\ FlagsOK' /\ PlacesOK' => TypeOK'
<1>1. TypeOK => NumbersOK
  BY DEF TypeOK, NumbersOK
<1>2. TypeOK => QueuesOK
  BY DEF TypeOK, QueuesOK
<1>3. TypeOK => FlagsOK
  BY DEF TypeOK, FlagsOK
<1>4. TypeOK => PlacesOK
  BY DEF TypeOK, PlacesOK
<1>5. NumbersOK' /\ QueuesOK' /\ FlagsOK' /\ PlacesOK' => TypeOK'
  BY DEF TypeOK, NumbersOK, QueuesOK, FlagsOK, PlacesOK
<1> QED BY <1>1, <1>2, <1>3, <1>4, <1>5

LEMMA TypeInit == Init => TypeOK
<1> SUFFICES ASSUME Init PROVE TypeOK
  OBVIOUS
<1>1. known \in Seq(Networks \ Long)
  <2>1. CASE known = <<>>
    BY <2>1
  <2>2. ASSUME NEW n \in Networks \ Long, known = <<n>> PROVE known \in Seq(Networks \ Long)
    BY <2>2
  <2> QED BY <2>1, <2>2 DEF Init
<1>2. events = <<>> /\ posts = <<>>
  BY DEF Init
<1>3. 0 \in 0..MaxRetry /\ 0 \in 0..MaxRetry + 1 /\ 0 \in 0..MaxOps /\ 0 \in 0..MaxTroubles
  BY WifiLinkAssumption
<1>4. NumbersOK
  BY <1>3 DEF Init, NumbersOK
<1>5. FlagsOK
  BY DEF Init, FlagsOK
<1>6. PlacesOK
  BY DEF Init, PlacesOK, Links
<1> QED BY <1>1, <1>2, <1>4, <1>5, <1>6 DEF TypeOK, NumbersOK, FlagsOK, PlacesOK

LEMMA TypeNext ==
    ASSUME TypeOK, TriesAreLeft, [Next]_vars
    PROVE  TypeOK'
<1>0. SUFFICES NumbersOK' /\ QueuesOK' /\ FlagsOK' /\ PlacesOK'
  BY TypeGroups
<1> NumbersOK /\ QueuesOK /\ FlagsOK /\ PlacesOK
  BY TypeGroups
<1> USE WifiLinkAssumption
<1>1. CASE TurnOn
  <2>1. NumbersOK'
    BY <1>1 DEF NumbersOK, TurnOn, Asked, Starts, do_connect
  <2>2. QueuesOK'
    BY <1>1, SeqTypes DEF QueuesOK, TurnOn, Asked, Starts, do_connect
  <2>3. FlagsOK'
    BY <1>1, UnsettledType DEF FlagsOK, TurnOn, Asked, Starts, do_connect
  <2>4. PlacesOK'
    BY <1>1, FirstKnown DEF PlacesOK, Links, TurnOn, Asked, Starts, do_connect
  <2> QED BY <2>1, <2>2, <2>3, <2>4
<1>2. CASE TurnOnFails
  <2>1. NumbersOK'
    BY <1>2 DEF NumbersOK, TurnOnFails, Asked, StartFails, Trouble
  <2>2. QueuesOK'
    BY <1>2, SeqTypes DEF QueuesOK, TurnOnFails, Asked, StartFails, Trouble
  <2>3. FlagsOK'
    BY <1>2 DEF FlagsOK, TurnOnFails, Asked, StartFails, Trouble
  <2>4. PlacesOK'
    BY <1>2 DEF PlacesOK, Links, TurnOnFails, Asked, StartFails, Trouble
  <2> QED BY <2>1, <2>2, <2>3, <2>4
<1>3. CASE TurnOff
  <2>1. NumbersOK'
    BY <1>3 DEF NumbersOK, TurnOff, Asked
  <2>2. QueuesOK'
    BY <1>3, SeqTypes DEF QueuesOK, TurnOff, Asked
  <2>3. FlagsOK'
    BY <1>3, UnsettledType DEF FlagsOK, TurnOff, Asked
  <2>4. PlacesOK'
    BY <1>3 DEF PlacesOK, Links, TurnOff, Asked
  <2> QED BY <2>1, <2>2, <2>3, <2>4
<1>4. CASE Scan
  <2>1. NumbersOK'
    BY <1>4 DEF NumbersOK, Scan, Asked, Starts
  <2>2. QueuesOK'
    BY <1>4, SeqTypes DEF QueuesOK, Scan, Asked, Starts
  <2>3. FlagsOK'
    BY <1>4 DEF FlagsOK, Scan, Asked, Starts
  <2>4. PlacesOK'
    BY <1>4 DEF PlacesOK, Links, Scan, Asked, Starts
  <2> QED BY <2>1, <2>2, <2>3, <2>4
<1>5. CASE Disconnect
  <2>1. NumbersOK'
    BY <1>5 DEF NumbersOK, Disconnect, Asked
  <2>2. QueuesOK'
    BY <1>5, SeqTypes DEF QueuesOK, Disconnect, Asked
  <2>3. FlagsOK'
    BY <1>5, UnsettledType DEF FlagsOK, Disconnect, Asked
  <2>4. PlacesOK'
    BY <1>5 DEF PlacesOK, Links, Disconnect, Asked
  <2> QED BY <2>1, <2>2, <2>3, <2>4
<1>6. CASE Tell
  <2>1. NumbersOK'
    BY <1>6 DEF NumbersOK, Tell, RadioDisconnects
  <2>2. QueuesOK'
    BY <1>6, SeqTypes DEF QueuesOK, Tell, RadioDisconnects
  <2>3. FlagsOK'
    BY <1>6 DEF FlagsOK, Tell, RadioDisconnects
  <2>4. PlacesOK'
    BY <1>6 DEF PlacesOK, Links, Tell, RadioDisconnects
  <2> QED BY <2>1, <2>2, <2>3, <2>4
<1>7. CASE ThreeSeconds
  <2>1. NumbersOK'
    BY <1>7 DEF NumbersOK, ThreeSeconds
  <2>2. QueuesOK'
    BY <1>7, SeqTypes DEF QueuesOK, ThreeSeconds
  <2>3. FlagsOK'
    BY <1>7 DEF FlagsOK, ThreeSeconds
  <2>4. PlacesOK'
    BY <1>7 DEF PlacesOK, Links, ThreeSeconds
  <2> QED BY <2>1, <2>2, <2>3, <2>4
<1>8. CASE StaStart
  <2>1. NumbersOK'
    BY <1>8 DEF NumbersOK, StaStart, Handles, RadioConnects
  <2>2. QueuesOK'
    BY <1>8, SeqTypes DEF QueuesOK, StaStart, Handles, RadioConnects
  <2>3. FlagsOK'
    BY <1>8 DEF FlagsOK, StaStart, Handles, RadioConnects
  <2>4. PlacesOK'
    BY <1>8 DEF PlacesOK, Links, StaStart, Handles, RadioConnects
  <2> QED BY <2>1, <2>2, <2>3, <2>4
<1>9. CASE StaDisconnected
  <2>1. NumbersOK'
    BY <1>9 DEF NumbersOK, StaDisconnected, Handles, Forgets, MoreTries
  <2>2. QueuesOK'
    BY <1>9, SeqTypes DEF QueuesOK, StaDisconnected, Handles, Forgets, MoreTries
  <2>3. FlagsOK'
    BY <1>9 DEF FlagsOK, StaDisconnected, Handles, Forgets, MoreTries
  <2>4. PlacesOK'
    BY <1>9 DEF PlacesOK, Links, StaDisconnected, Handles, Forgets, MoreTries
  <2> QED BY <2>1, <2>2, <2>3, <2>4
<1>10. CASE Again
  <2>1. NumbersOK'
    BY <1>10, TriesAreLeft DEF NumbersOK, Again, RadioConnects, TriesAreLeft
  <2>2. QueuesOK'
    BY <1>10, TriesAreLeft, SeqTypes DEF QueuesOK, Again, RadioConnects, TriesAreLeft
  <2>3. FlagsOK'
    BY <1>10, TriesAreLeft DEF FlagsOK, Again, RadioConnects, TriesAreLeft
  <2>4. PlacesOK'
    BY <1>10, TriesAreLeft DEF PlacesOK, Links, Again, RadioConnects, TriesAreLeft
  <2> QED BY <2>1, <2>2, <2>3, <2>4
<1>11. CASE GiveUp
  <2>1. NumbersOK'
    BY <1>11 DEF NumbersOK, GiveUp, Post
  <2>2. QueuesOK'
    BY <1>11, SeqTypes DEF QueuesOK, GiveUp, Post
  <2>3. FlagsOK'
    BY <1>11 DEF FlagsOK, GiveUp, Post
  <2>4. PlacesOK'
    BY <1>11 DEF PlacesOK, Links, GiveUp, Post
  <2> QED BY <2>1, <2>2, <2>3, <2>4
<1>12. CASE GotIp
  <2>1. NumbersOK'
    BY <1>12 DEF NumbersOK, GotIp, Handles
  <2>2. QueuesOK'
    BY <1>12, SeqTypes DEF QueuesOK, GotIp, Handles
  <2>3. FlagsOK'
    BY <1>12 DEF FlagsOK, GotIp, Handles
  <2>4. PlacesOK'
    BY <1>12 DEF PlacesOK, Links, GotIp, Handles
  <2> QED BY <2>1, <2>2, <2>3, <2>4
<1>13. CASE Named
  <2>1. NumbersOK'
    BY <1>13 DEF NumbersOK, Named, Post
  <2>2. QueuesOK'
    BY <1>13, SeqTypes DEF QueuesOK, Named, Post
  <2>3. FlagsOK'
    BY <1>13 DEF FlagsOK, Named, Post
  <2>4. PlacesOK'
    BY <1>13 DEF PlacesOK, Links, Named, Post
  <2> QED BY <2>1, <2>2, <2>3, <2>4
<1>14. CASE Joins
  <2>1. NumbersOK'
    BY <1>14 DEF NumbersOK, Joins, Trouble
  <2>2. QueuesOK'
    BY <1>14, SeqTypes DEF QueuesOK, Joins, Trouble
  <2>3. FlagsOK'
    BY <1>14 DEF FlagsOK, Joins, Trouble
  <2>4. PlacesOK'
    BY <1>14 DEF PlacesOK, Links, Joins, Trouble
  <2> QED BY <2>1, <2>2, <2>3, <2>4
<1>15. CASE JoinFails
  <2>1. NumbersOK'
    BY <1>15 DEF NumbersOK, JoinFails, Crossing
  <2>2. QueuesOK'
    BY <1>15, SeqTypes DEF QueuesOK, JoinFails, Crossing
  <2>3. FlagsOK'
    BY <1>15 DEF FlagsOK, JoinFails, Crossing
  <2>4. PlacesOK'
    BY <1>15 DEF PlacesOK, Links, JoinFails, Crossing
  <2> QED BY <2>1, <2>2, <2>3, <2>4
<1>16. CASE Address
  <2>1. NumbersOK'
    BY <1>16 DEF NumbersOK, Address, Crossing
  <2>2. QueuesOK'
    BY <1>16, SeqTypes DEF QueuesOK, Address, Crossing
  <2>3. FlagsOK'
    BY <1>16 DEF FlagsOK, Address, Crossing
  <2>4. PlacesOK'
    BY <1>16 DEF PlacesOK, Links, Address, Crossing
  <2> QED BY <2>1, <2>2, <2>3, <2>4
<1>17. CASE Drops
  <2>1. NumbersOK'
    BY <1>17 DEF NumbersOK, Drops, Trouble, Crossing
  <2>2. QueuesOK'
    BY <1>17, SeqTypes DEF QueuesOK, Drops, Trouble, Crossing
  <2>3. FlagsOK'
    BY <1>17 DEF FlagsOK, Drops, Trouble, Crossing
  <2>4. PlacesOK'
    BY <1>17 DEF PlacesOK, Links, Drops, Trouble, Crossing
  <2> QED BY <2>1, <2>2, <2>3, <2>4
<1>18. ASSUME NEW n \in Networks, Connect(n) PROVE NumbersOK' /\ QueuesOK' /\ FlagsOK' /\ PlacesOK'
  <2>1. NumbersOK'
    BY <1>18 DEF NumbersOK, Connect, Asked, Starts, do_connect
  <2>2. QueuesOK'
    BY <1>18, SeqTypes, SaveType DEF QueuesOK, Connect, Asked, Starts, do_connect
  <2>3. FlagsOK'
    BY <1>18, UnsettledType DEF FlagsOK, Connect, Asked, Starts, do_connect
  <2>4. PlacesOK'
    BY <1>18 DEF PlacesOK, Links, Connect, Asked, Starts, do_connect
  <2> QED BY <2>1, <2>2, <2>3, <2>4
<1>19. ASSUME NEW n \in Networks, ConnectKnown(n) PROVE NumbersOK' /\ QueuesOK' /\ FlagsOK' /\ PlacesOK'
  <2>1. NumbersOK'
    BY <1>19 DEF NumbersOK, ConnectKnown, Asked, Starts, do_connect
  <2>2. QueuesOK'
    BY <1>19, SeqTypes DEF QueuesOK, ConnectKnown, Asked, Starts, do_connect
  <2>3. FlagsOK'
    BY <1>19, UnsettledType DEF FlagsOK, ConnectKnown, Asked, Starts, do_connect
  <2>4. PlacesOK'
    BY <1>19 DEF PlacesOK, Links, ConnectKnown, Asked, Starts, do_connect
  <2> QED BY <2>1, <2>2, <2>3, <2>4
<1>20. ASSUME NEW n \in Networks, ConnectFails(n) PROVE NumbersOK' /\ QueuesOK' /\ FlagsOK' /\ PlacesOK'
  <2>1. NumbersOK'
    BY <1>20 DEF NumbersOK, ConnectFails, Asked, StartFails, Trouble, Post
  <2>2. QueuesOK'
    BY <1>20, SeqTypes, SaveType DEF QueuesOK, ConnectFails, Asked, StartFails, Trouble, Post
  <2>3. FlagsOK'
    BY <1>20 DEF FlagsOK, ConnectFails, Asked, StartFails, Trouble, Post
  <2>4. PlacesOK'
    BY <1>20 DEF PlacesOK, Links, ConnectFails, Asked, StartFails, Trouble, Post
  <2> QED BY <2>1, <2>2, <2>3, <2>4
<1>21. CASE UNCHANGED vars
  BY <1>21 DEF vars, NumbersOK, QueuesOK, FlagsOK, PlacesOK
<1> QED
  BY <1>1, <1>2, <1>3, <1>4, <1>5, <1>6, <1>7, <1>8, <1>9, <1>10, <1>11,
     <1>12, <1>13, <1>14, <1>15, <1>16, <1>17, <1>18, <1>19, <1>20, <1>21
  DEF Next, Screens, OnWifi, Radio
-----------------------------------------------------------------------------
(* News and decisions.                                                     *)

\* How a step changes the news.
LEMMA NewsAppended ==
    ASSUME TypeOK, NEW e \in Events, events' = Append(events, e)
    PROVE  /\ Pending("GOT_IP")' <=> Pending("GOT_IP") \/ e = "GOT_IP"
           /\ Pending("STA_DISCONNECTED")' <=>
                  Pending("STA_DISCONNECTED") \/ e = "STA_DISCONNECTED"
           /\ e = "STA_DISCONNECTED" => ~Fresh(events)'
           /\ e = "STA_START" /\ Fresh(events)' => Fresh(events)
<1>1. events \in Seq(Events) /\ "GOT_IP" \in Events /\ "STA_DISCONNECTED" \in Events
  BY DEF TypeOK, Events
<1> QED BY <1>1, AppendFacts DEF Pending

LEMMA NewsHandled ==
    ASSUME TypeOK, NEW e \in Events, Handles(e)
    PROVE  /\ Pending("GOT_IP")' => Pending("GOT_IP")
           /\ Pending("STA_DISCONNECTED")' => Pending("STA_DISCONNECTED")
           /\ e # "STA_DISCONNECTED" /\ Pending("STA_DISCONNECTED") =>
                  Pending("STA_DISCONNECTED")'
           /\ e # "GOT_IP" /\ Pending("GOT_IP") => Pending("GOT_IP")'
           /\ Fresh(events)' => Fresh(events)
           /\ e = "GOT_IP" => Pending("GOT_IP")
                              /\ (Fresh(events) \/ Pending("STA_DISCONNECTED")')
<1>1. events \in Seq(Events) /\ "GOT_IP" \in Events /\ "STA_DISCONNECTED" \in Events
  BY DEF TypeOK, Events
<1>2. events # <<>> /\ Head(events) = e /\ events' = Tail(events)
  BY DEF Handles
<1> QED BY <1>1, <1>2, TailFacts DEF Pending

LEMMA NewsUnchanged ==
    ASSUME UNCHANGED events
    PROVE  /\ Fresh(events)' = Fresh(events)
           /\ Pending("GOT_IP")' = Pending("GOT_IP")
           /\ Pending("STA_DISCONNECTED")' = Pending("STA_DISCONNECTED")
BY DEF Pending

LEMMA ApartNext ==
    ASSUME TypeOK, Apart, [Next]_vars
    PROVE  Apart'
<1> USE WifiLinkAssumption, NewsAppended, NewsHandled, NewsUnchanged
    DEF Apart, OffIsOff, AddressIsThere, Succeeding, JoinsTarget, Engaged, NameIsTarget, MixIsNoted,
        TriesAreLeft, LostIsNameless, EnabledTries, TargetFirst, Events, TypeOK
<1>1. CASE TurnOn
  <2>1. OffIsOff'
    BY <1>1 DEF TurnOn, Asked, Starts, do_connect, Unsettled
  <2>2. AddressIsThere'
    BY <1>1 DEF TurnOn, Asked, Starts, do_connect, Unsettled
  <2>3. JoinsTarget'
    BY <1>1 DEF TurnOn, Asked, Starts, do_connect, Unsettled
  <2>4. NameIsTarget'
    BY <1>1 DEF TurnOn, Asked, Starts, do_connect, Unsettled
  <2>5. MixIsNoted'
    BY <1>1 DEF TurnOn, Asked, Starts, do_connect, Unsettled
  <2>6. TriesAreLeft'
    BY <1>1 DEF TurnOn, Asked, Starts, do_connect, Unsettled
  <2>7. LostIsNameless'
    BY <1>1 DEF TurnOn, Asked, Starts, do_connect, Unsettled
  <2>8. EnabledTries'
    BY <1>1 DEF TurnOn, Asked, Starts, do_connect, Unsettled
  <2>9. TargetFirst'
    BY <1>1 DEF TurnOn, Asked, Starts, do_connect, Unsettled
  <2> QED BY <2>1, <2>2, <2>3, <2>4, <2>5, <2>6, <2>7, <2>8, <2>9
<1>2. CASE TurnOnFails
  BY <1>2 DEF TurnOnFails, Asked, StartFails, Trouble
<1>3. CASE TurnOff
  BY <1>3 DEF TurnOff, Asked, Unsettled
<1>4. CASE Scan
  BY <1>4 DEF Scan, Asked, Starts
<1>5. CASE Disconnect
  BY <1>5 DEF Disconnect, Asked, Unsettled
<1>6. CASE Tell
  BY <1>6 DEF Tell, RadioDisconnects
<1>7. CASE ThreeSeconds
  BY <1>7 DEF ThreeSeconds
<1>8. CASE StaStart
  BY <1>8 DEF StaStart, RadioConnects
<1>9. CASE StaDisconnected
  BY <1>9 DEF StaDisconnected, Forgets, MoreTries
<1>10. CASE Again
  BY <1>10 DEF Again, RadioConnects
<1>11. CASE GiveUp
  BY <1>11 DEF GiveUp, Post
<1>12. CASE GotIp
  BY <1>12 DEF GotIp
<1>13. CASE Named
  BY <1>13 DEF Named, Post
<1>14. CASE Joins
  BY <1>14 DEF Joins, Trouble
<1>15. CASE JoinFails
  BY <1>15 DEF JoinFails, Crossing
<1>16. CASE Address
  BY <1>16 DEF Address, Crossing
<1>17. CASE Drops
  BY <1>17 DEF Drops, Trouble, Crossing
<1>18. ASSUME NEW n \in Networks, Connect(n) PROVE Apart'
  <2>1. OffIsOff'
    BY <1>18 DEF Connect, Asked, Starts, do_connect, Unsettled
  <2>2. AddressIsThere'
    BY <1>18 DEF Connect, Asked, Starts, do_connect, Unsettled
  <2>3. JoinsTarget'
    BY <1>18 DEF Connect, Asked, Starts, do_connect, Unsettled
  <2>4. NameIsTarget'
    BY <1>18 DEF Connect, Asked, Starts, do_connect, Unsettled
  <2>5. MixIsNoted'
    BY <1>18 DEF Connect, Asked, Starts, do_connect, Unsettled
  <2>6. TriesAreLeft'
    BY <1>18 DEF Connect, Asked, Starts, do_connect, Unsettled
  <2>7. LostIsNameless'
    BY <1>18 DEF Connect, Asked, Starts, do_connect, Unsettled
  <2>8. EnabledTries'
    BY <1>18 DEF Connect, Asked, Starts, do_connect, Unsettled
  <2>9. TargetFirst'
    BY <1>18 DEF Connect, Asked, Starts, do_connect, Unsettled
  <2> QED BY <2>1, <2>2, <2>3, <2>4, <2>5, <2>6, <2>7, <2>8, <2>9
<1>19. ASSUME NEW n \in Networks, ConnectKnown(n) PROVE Apart'
  <2>1. OffIsOff'
    BY <1>19 DEF ConnectKnown, Asked, Starts, do_connect, Unsettled
  <2>2. AddressIsThere'
    BY <1>19 DEF ConnectKnown, Asked, Starts, do_connect, Unsettled
  <2>3. JoinsTarget'
    BY <1>19 DEF ConnectKnown, Asked, Starts, do_connect, Unsettled
  <2>4. NameIsTarget'
    BY <1>19 DEF ConnectKnown, Asked, Starts, do_connect, Unsettled
  <2>5. MixIsNoted'
    BY <1>19 DEF ConnectKnown, Asked, Starts, do_connect, Unsettled
  <2>6. TriesAreLeft'
    BY <1>19 DEF ConnectKnown, Asked, Starts, do_connect, Unsettled
  <2>7. LostIsNameless'
    BY <1>19 DEF ConnectKnown, Asked, Starts, do_connect, Unsettled
  <2>8. EnabledTries'
    BY <1>19 DEF ConnectKnown, Asked, Starts, do_connect, Unsettled
  <2>9. TargetFirst'
    BY <1>19 DEF ConnectKnown, Asked, Starts, do_connect, Unsettled
  <2> QED BY <2>1, <2>2, <2>3, <2>4, <2>5, <2>6, <2>7, <2>8, <2>9
<1>20. ASSUME NEW n \in Networks, ConnectFails(n) PROVE Apart'
  BY <1>20 DEF ConnectFails, Asked, StartFails, Trouble, Post
<1>21. CASE UNCHANGED vars
  BY <1>21 DEF vars
<1> QED
  BY <1>1, <1>2, <1>3, <1>4, <1>5, <1>6, <1>7, <1>8, <1>9, <1>10, <1>11,
     <1>12, <1>13, <1>14, <1>15, <1>16, <1>17, <1>18, <1>19, <1>20, <1>21
  DEF Next, Screens, OnWifi, Radio
-----------------------------------------------------------------------------
(* What follows.                                                           *)

LEMMA ApartInit == Init => Apart
<1> SUFFICES ASSUME Init PROVE Apart
  OBVIOUS
<1>1. events = <<>>
  BY DEF Init
<1>2. ~Fresh(events) /\ ~Pending("GOT_IP") /\ ~Pending("STA_DISCONNECTED")
  BY <1>1 DEF Fresh, Pending, Contains
<1> QED BY <1>2 DEF Init, Apart, OffIsOff, AddressIsThere, Succeeding, JoinsTarget, NameIsTarget,
       MixIsNoted, TriesAreLeft, LostIsNameless, EnabledTries, TargetFirst

\* The inductive invariant, of every behaviour: types, and how far the radio, the news and
\* the decisions may be apart.
THEOREM Invariance == Spec => []IInv
<1>1. Init => IInv
  BY TypeInit, ApartInit DEF IInv
<1>2. IInv /\ [Next]_vars => IInv'
  <2> SUFFICES ASSUME IInv, [Next]_vars PROVE IInv'
    OBVIOUS
  <2>1. TypeOK'
    BY TypeNext DEF IInv, Apart
  <2>2. Apart'
    BY ApartNext DEF IInv
  <2> QED BY <2>1, <2>2 DEF IInv
<1> QED BY <1>1, <1>2, PTL DEF Spec

\* Types: in particular s_retry never passes MAX_RETRY.
THEOREM TypeCorrect == Spec => []TypeOK
<1>1. IInv => TypeOK
  BY DEF IInv
<1> QED BY <1>1, Invariance, PTL

\* oyobyok_wifi_connected_name, for any number of calls, tries and lost links: the network
\* shown is the one the link is up with, unless the news of its end is on the way.
THEOREM NamedCorrect == Spec => []NamedIsLinked
<1>1. IInv => NamedIsLinked
  <2> SUFFICES ASSUME IInv, s_connected # None, ~Pending("STA_DISCONNECTED"), host = "rest"
               PROVE  <<link, ap>> = <<"up", s_connected>>
    BY DEF NamedIsLinked
  <2>1. link = "up"
    BY DEF IInv, Apart, AddressIsThere
  <2>2. ap = s_target
    BY <2>1 DEF IInv, Apart, JoinsTarget, Engaged
  <2>3. s_connected = s_target
    BY DEF IInv, Apart, NameIsTarget
  <2> QED BY <2>1, <2>2, <2>3
<1> QED BY <1>1, Invariance, PTL

\* on_wifi, GOT_IP: whoever posts a success while no news of an earlier attempt is mixed in
\* has the link the screens asked for, or its end is on the way.
LEMMA OkStep ==
    ASSUME IInv, [Next]_vars, posts' # posts, Last(posts') = "OK"
    PROVE  mixed \/ Pending("STA_DISCONNECTED") \/ <<link, ap>> = <<"up", s_target>>
<1>1. \A m \in {"OK", "FAIL"} : Last(Append(posts, m)) = m
  <2>1. posts \in Seq({"OK", "FAIL"})
    BY DEF IInv, TypeOK
  <2> QED BY <2>1 DEF Last
<1>2. Named
  <2>1. CASE Screens
    BY <1>1, <2>1 DEF Screens, TurnOn, TurnOnFails, TurnOff, Scan, Disconnect, Connect,
          ConnectKnown, ConnectFails, Post
  <2>2. CASE Tell \/ ThreeSeconds \/ Drops
    BY <2>2 DEF Tell, ThreeSeconds, Drops
  <2>3. CASE OnWifi
    BY <1>1, <2>3 DEF OnWifi, StaStart, StaDisconnected, Again, GiveUp, GotIp, Post
  <2>4. CASE Radio
    BY <2>4 DEF Radio, Joins, JoinFails, Address
  <2>5. CASE UNCHANGED vars
    BY <2>5 DEF vars
  <2> QED BY <2>1, <2>2, <2>3, <2>4, <2>5 DEF Next
<1>3. Succeeding
  BY <1>2 DEF Named, Succeeding
<1>4. link = "up" \/ Pending("STA_DISCONNECTED")
  BY <1>3 DEF IInv, Apart, AddressIsThere
<1>5. CASE host # "rest"
  BY <1>3, <1>5 DEF IInv, Apart, MixIsNoted
<1>6. CASE host = "rest"
  BY <1>4, <1>6 DEF IInv, Apart, JoinsTarget, Engaged
<1> QED BY <1>5, <1>6

\* WIFI_CTL_OK is only posted for a link that is up with the network asked for, but for what
\* answers an earlier attempt.
THEOREM OkCorrect == Spec => OkIsTrue
<1>1. IInv /\ [Next]_vars =>
        [posts' # posts /\ Last(posts') = "OK" =>
            mixed \/ Pending("STA_DISCONNECTED") \/ <<link, ap>> = <<"up", s_target>>]_vars
  BY OkStep
<1> QED BY <1>1, Invariance, PTL DEF Spec, OkIsTrue

-----------------------------------------------------------------------------
(* The number of tries.                                                    *)

\* How often the task has yet to hear of a lost or refused link, and whether it has just done so.
OneIfLost == [e \in Events |-> IF e = "STA_DISCONNECTED" THEN 1 ELSE 0]
Losses(q) == Weigh(q, OneIfLost)
Decided   == IF on_wifi \in {"again", "give_up"} THEN 1 ELSE 0

\* Every try that was counted, or will be, has failed; but for the disconnect that do_connect
\* begins with.
Counted ==
    ~mixed /\ s_connecting =>
        failed > MaxRetry
        \/ s_retry + Losses(events) + Decided <= failed + (IF host = "connect" THEN 0 ELSE 1)

DecidedOn ==
    ~mixed => /\ on_wifi \in {"again", "give_up"} => s_connecting
              /\ on_wifi = "give_up" => s_retry >= MaxRetry
CalledOff == host \in {"disconnect", "off"} => ~s_connecting

Tries == Counted /\ DecidedOn /\ CalledOff

LEMMA OneIfLostType ==
    /\ OneIfLost \in [Events -> Nat]
    /\ \A e \in Events : OneIfLost[e] = IF e = "STA_DISCONNECTED" THEN 1 ELSE 0
BY DEF OneIfLost

LEMMA LossesAre ==
    ASSUME TypeOK
    PROVE  /\ Losses(events) \in Nat
           /\ ~Pending("STA_DISCONNECTED") => Losses(events) = 0
<1>1. events \in Seq(Events)
  BY DEF TypeOK
<1>2. ASSUME ~Pending("STA_DISCONNECTED") PROVE Losses(events) = 0
  <2>1. \A i \in 1..Len(events) : events[i] \in Events /\ events[i] # "STA_DISCONNECTED"
    BY <1>1, <1>2 DEF Pending, Contains
  <2>2. \A i \in 1..Len(events) : OneIfLost[events[i]] = 0
    BY <2>1, OneIfLostType
  <2> QED BY <1>1, <2>2, OneIfLostType, WeighNothing DEF Losses
<1> QED BY <1>1, <1>2, OneIfLostType, WeighNat DEF Losses

LEMMA LossesAppended ==
    ASSUME TypeOK, NEW e \in Events, events' = Append(events, e)
    PROVE  IF e = "STA_DISCONNECTED" THEN Losses(events') = Losses(events) + 1
           ELSE Losses(events') = Losses(events)
<1>1. events \in Seq(Events) /\ Losses(events') = Weigh(events', OneIfLost)
  BY DEF TypeOK, Losses
<1>2. Weigh(Append(events, e), OneIfLost) = Losses(events) + OneIfLost[e]
  BY <1>1, OneIfLostType, WeighAppend DEF Losses
<1>3. Losses(events) \in Nat
  BY LossesAre
<1> QED BY <1>1, <1>2, <1>3, OneIfLostType

LEMMA LossesHandled ==
    ASSUME TypeOK, NEW e \in Events, Handles(e)
    PROVE  /\ Losses(events') \in Nat
           /\ IF e = "STA_DISCONNECTED" THEN Losses(events) = Losses(events') + 1
              ELSE Losses(events') = Losses(events)
<1>1. events \in Seq(Events) /\ Losses(events') = Weigh(events', OneIfLost)
  BY DEF TypeOK, Losses
<1>2. events # <<>> /\ Head(events) = e /\ events' = Tail(events)
  BY DEF Handles
<1>3. Losses(events) = OneIfLost[e] + Losses(events')
  BY <1>1, <1>2, OneIfLostType, WeighTail DEF Losses
<1>4. Losses(events') \in Nat
  <2>1. Tail(events) \in Seq(Events)
    BY <1>1, <1>2
  <2> QED BY ZenonT(30), <1>1, <1>2, <2>1, OneIfLostType, WeighNat
<1> QED BY <1>3, <1>4, OneIfLostType

LEMMA TriesNext ==
    ASSUME TypeOK, TypeOK', Tries, [Next]_vars
    PROVE  Tries'
<1>0. Losses(events) \in Nat /\ (~Pending("STA_DISCONNECTED") => Losses(events) = 0)
  BY LossesAre
<1>x. /\ s_retry \in Nat /\ failed \in Nat /\ MaxRetry \in Nat /\ mixed \in BOOLEAN
      /\ s_connecting \in BOOLEAN /\ s_retry' \in Nat /\ failed' \in Nat
  BY WifiLinkAssumption DEF TypeOK
<1>y. "STA_START" \in Events /\ "STA_DISCONNECTED" \in Events /\ "GOT_IP" \in Events
  BY DEF Events
<1> USE DEF Tries, Counted, DecidedOn, CalledOff, Decided
\* An attempt begins.
<1>1. ASSUME NEW n, do_connect(n), UNCHANGED on_wifi, Losses(events') = Losses(events) PROVE Tries'
  <2>1. mixed' = Unsettled /\ s_retry' = 0 /\ failed' = 0 /\ host' = "connect" /\ s_connecting' = TRUE
    BY <1>1 DEF do_connect
  <2>2. ~Unsettled => on_wifi = "rest" /\ Losses(events) = 0
    BY <1>0 DEF Unsettled
  <2> QED BY <1>1, <1>x, <2>1, <2>2
<1>2. ASSUME Starts PROVE Losses(events') = Losses(events)
  <2>1. UNCHANGED events \/ events' = Append(events, "STA_START")
    BY <1>2 DEF Starts
  <2> QED BY <1>0, <1>y, <2>1, LossesAppended
\* The screens end one, or do not begin one.
<1>3. CASE TurnOff \/ Disconnect
  <2>1. mixed' = Unsettled /\ s_connecting' = FALSE /\ UNCHANGED on_wifi
    BY <1>3 DEF TurnOff, Disconnect
  <2> QED BY <2>1 DEF Unsettled
<1>4. CASE TurnOn \/ \E n \in Networks : Connect(n) \/ ConnectKnown(n)
  <2>1. Starts /\ UNCHANGED on_wifi
    BY <1>4 DEF TurnOn, Connect, ConnectKnown
  <2>2. \/ \E n : do_connect(n)
        \/ UNCHANGED <<s_retry, s_connecting, host, past>>
    BY <1>4 DEF TurnOn, Connect, ConnectKnown
  <2>3. CASE \E n : do_connect(n)
    BY <1>1, <1>2, <2>1, <2>3
  <2>4. CASE UNCHANGED <<s_retry, s_connecting, host, past>>
    BY <1>2, <2>1, <2>4
  <2> QED BY <2>2, <2>3, <2>4
<1>5. CASE Scan
  <2>1. Starts /\ UNCHANGED <<on_wifi, s_retry, s_connecting, host, past>>
    BY <1>5 DEF Scan
  <2> QED BY <1>2, <2>1
<1>6. CASE Tell
  <2>1. UNCHANGED <<on_wifi, s_retry, s_connecting, past>> /\ host # "rest" /\ host' = "rest"
    BY <1>6 DEF Tell
  <2>2. UNCHANGED events \/ events' = Append(events, "STA_DISCONNECTED")
    BY <1>6 DEF Tell, RadioDisconnects
  <2>3. Losses(events') <= Losses(events) + 1 /\ Losses(events') \in Nat
    BY <1>0, <1>y, <2>2, LossesAppended
  <2>4. s_connecting => host = "connect"
    BY <2>1 DEF TypeOK
  <2>5. Counted'
    <3> SUFFICES ASSUME ~mixed, s_connecting, ~(failed > MaxRetry)
                 PROVE  s_retry + Losses(events') + Decided <= failed + 1
      BY <2>1
    <3>1. s_retry + Losses(events) + Decided <= failed
      BY <1>x, <2>4
    <3>2. Decided \in Nat
      OBVIOUS
    <3> HIDE DEF Decided, Tries, Counted, DecidedOn, CalledOff
    <3> QED BY <1>0, <1>x, <2>3, <3>1, <3>2
  <2> QED BY <2>1, <2>5
\* The event task hears of a link, and decides.
<1>7. CASE StaDisconnected
  <2>1. Handles("STA_DISCONNECTED") /\ UNCHANGED <<s_retry, s_connecting, host, past>>
        /\ on_wifi' = IF ~s_connecting THEN "rest"
                      ELSE IF s_retry < MaxRetry THEN "again" ELSE "give_up"
    BY <1>7 DEF StaDisconnected, MoreTries
  <2>2. Losses(events) = Losses(events') + 1 /\ Losses(events') \in Nat
    BY <1>y, <2>1, LossesHandled
  <2>3. on_wifi = "rest"
    BY <2>1 DEF Handles
  <2>4. DecidedOn' /\ CalledOff'
    BY <1>x, <2>1
  <2>5. Decided = 0 /\ Decided' \in {0, 1}
    BY <2>3
  <2>6. Counted'
    <3> SUFFICES ASSUME ~mixed, s_connecting, ~(failed > MaxRetry)
                 PROVE  s_retry + Losses(events') + Decided' <= failed + (IF host = "connect" THEN 0 ELSE 1)
      BY <2>1
    <3>1. s_retry + Losses(events) + Decided <= failed + (IF host = "connect" THEN 0 ELSE 1)
      OBVIOUS
    <3> HIDE DEF Decided, Tries, Counted, DecidedOn, CalledOff
    <3> QED BY <1>0, <1>x, <2>2, <2>5, <3>1
  <2> QED BY <2>4, <2>6
<1>8. CASE StaStart
  <2>1. Handles("STA_START") /\ UNCHANGED <<on_wifi, s_retry, s_connecting, host, past>>
    BY <1>8 DEF StaStart
  <2>2. Losses(events') = Losses(events)
    BY <1>y, <2>1, LossesHandled
  <2> QED BY <2>1, <2>2
<1>9. CASE GotIp
  <2>1. s_connecting' = FALSE /\ on_wifi' \in {"named", "late"}
    BY <1>9 DEF GotIp
  <2> QED BY <2>1
<1>10. CASE Again
  <2>1. on_wifi = "again" /\ on_wifi' = "rest" /\ s_retry' = s_retry + 1
        /\ UNCHANGED <<s_connecting, host, past, events>>
    BY <1>10 DEF Again
  <2> QED BY <1>0, <1>x, <2>1
<1>11. CASE GiveUp
  <2>1. on_wifi' = "rest" /\ s_connecting' = FALSE
    BY <1>11 DEF GiveUp
  <2> QED BY <2>1
<1>12. CASE Named
  <2>1. on_wifi \in {"named", "late"} /\ on_wifi' = "rest"
        /\ UNCHANGED <<s_retry, s_connecting, host, past, events>>
    BY <1>12 DEF Named
  <2> QED BY <2>1
\* A try fails.
<1>13. CASE JoinFails \/ Drops
  <2>1. /\ failed' = IF failed > MaxRetry THEN failed ELSE failed + 1
        /\ events' = Append(events, "STA_DISCONNECTED") /\ mixed' = (mixed \/ host # "rest")
        /\ UNCHANGED <<on_wifi, s_retry, s_connecting, host>>
    BY <1>13 DEF JoinFails, Drops, Crossing
  <2>2. Losses(events') = Losses(events) + 1
    BY <1>y, <2>1, LossesAppended
  <2> QED BY <1>0, <1>x, <2>1, <2>2
<1>14. CASE Address
  <2>1. /\ events' = Append(events, "GOT_IP") /\ mixed' = (mixed \/ host # "rest")
        /\ UNCHANGED <<on_wifi, s_retry, s_connecting, host, failed>>
    BY <1>14 DEF Address, Crossing
  <2>2. Losses(events') = Losses(events)
    BY <1>0, <1>y, <2>1, LossesAppended
  <2> QED BY <2>1, <2>2
<1>15. CASE \/ TurnOnFails \/ ThreeSeconds \/ Joins \/ UNCHANGED vars
            \/ \E n \in Networks : ConnectFails(n)
  <2>1. UNCHANGED <<on_wifi, s_retry, s_connecting, host, past, events>>
    BY <1>15 DEF TurnOnFails, ThreeSeconds, Joins, ConnectFails, vars
  <2> QED BY <2>1
<1> QED BY <1>3, <1>4, <1>5, <1>6, <1>7, <1>8, <1>9, <1>10, <1>11, <1>12, <1>13, <1>14, <1>15
  DEF Next, Screens, OnWifi, Radio

\* The count of failures, of every behaviour.
THEOREM TriesInvariance == Spec => []Tries
<1>1. Init => Tries
  BY DEF Init, Tries, Counted, DecidedOn, CalledOff
<1>2. TypeOK /\ TypeOK' /\ Tries /\ [Next]_vars => Tries'
  BY TriesNext
<1> QED BY <1>1, <1>2, TypeCorrect, PTL DEF Spec

\* MAX_RETRY, whatever it is, and whatever is lost, refused or called off on the way: no attempt
\* is given up before MAX_RETRY tries of its own have failed.
THEOREM TriesCorrect == Spec => TriesBeforeFailure
<1>1. TypeOK /\ Tries /\ [Next]_vars => [GiveUp => mixed \/ failed >= MaxRetry]_vars
  <2> SUFFICES ASSUME TypeOK, Tries, GiveUp, ~mixed PROVE failed >= MaxRetry
    OBVIOUS
  <2>1. on_wifi = "give_up" /\ s_connecting /\ s_retry >= MaxRetry
    BY DEF GiveUp, Tries, DecidedOn
  <2>2. failed > MaxRetry \/ s_retry + Losses(events) + 1 <= failed + (IF host = "connect" THEN 0 ELSE 1)
    BY <2>1 DEF Tries, Counted, Decided
  <2>3. s_retry \in Nat /\ failed \in Nat /\ MaxRetry \in Nat /\ Losses(events) \in Nat
    BY WifiLinkAssumption, LossesAre DEF TypeOK
  <2> QED BY <2>1, <2>2, <2>3
<1> QED BY <1>1, TriesInvariance, TypeCorrect, PTL DEF Spec, TriesBeforeFailure

-----------------------------------------------------------------------------
(* What AttemptEnds and OffIsClean rest on: somebody still has to act.      *)

\* An address that is shown is there, or the news of its loss is under way.
AddressKept == s_ip => link = "up" \/ Pending("STA_DISCONNECTED")

OffIsStopped == /\ ~s_enabled => ~s_started \/ host = "off"
                /\ host = "off" => ~s_enabled

\* An attempt goes on: the radio is at work, or there is news of it to be handled.
GoesOn ==
    s_connecting /\ host = "rest" =>
        \/ link \in {"joining", "linked", "silent"}
        \/ link = "up" /\ Pending("GOT_IP")
        \/ link = "idle" /\ (Pending("STA_DISCONNECTED") \/ on_wifi \in {"again", "give_up"})

Unfinished == AddressKept /\ OffIsStopped /\ GoesOn

LEMMA UnfinishedNext ==
    ASSUME TypeOK, Apart, CalledOff, Unfinished, [Next]_vars
    PROVE  Unfinished'
<1> USE WifiLinkAssumption, NewsAppended, NewsHandled, NewsUnchanged
    DEF Unfinished, AddressKept, OffIsStopped, GoesOn, CalledOff, Apart, OffIsOff, AddressIsThere,
        EnabledTries, Engaged, Events, Links, TypeOK
<1>1. CASE TurnOn
  BY <1>1 DEF TurnOn, Asked, Starts, do_connect
<1>2. CASE TurnOnFails
  BY <1>2 DEF TurnOnFails, Asked, StartFails, Trouble
<1>3. CASE TurnOff
  BY <1>3 DEF TurnOff, Asked
<1>4. CASE Scan
  BY <1>4 DEF Scan, Asked, Starts
<1>5. CASE Disconnect
  BY <1>5 DEF Disconnect, Asked
<1>6. CASE Tell
  BY <1>6 DEF Tell, RadioDisconnects
<1>7. CASE ThreeSeconds
  BY <1>7 DEF ThreeSeconds
<1>8. CASE StaStart
  BY <1>8 DEF StaStart, RadioConnects
<1>9. CASE StaDisconnected
  BY <1>9 DEF StaDisconnected, Forgets, MoreTries
<1>10. CASE Again
  BY <1>10 DEF Again, RadioConnects
<1>11. CASE GiveUp
  BY <1>11 DEF GiveUp, Post
<1>12. CASE GotIp
  BY <1>12 DEF GotIp
<1>13. CASE Named
  BY <1>13 DEF Named, Post
<1>14. CASE Joins
  BY <1>14 DEF Joins, Trouble
<1>15. CASE JoinFails
  BY <1>15 DEF JoinFails, Crossing
<1>16. CASE Address
  BY <1>16 DEF Address, Crossing
<1>17. CASE Drops
  BY <1>17 DEF Drops, Trouble, Crossing
<1>18. ASSUME NEW n \in Networks, Connect(n) PROVE Unfinished'
  BY <1>18 DEF Connect, Asked, Starts, do_connect
<1>19. ASSUME NEW n \in Networks, ConnectKnown(n) PROVE Unfinished'
  BY <1>19 DEF ConnectKnown, Asked, Starts, do_connect
<1>20. ASSUME NEW n \in Networks, ConnectFails(n) PROVE Unfinished'
  BY <1>20 DEF ConnectFails, Asked, StartFails, Trouble, Post
<1>21. CASE UNCHANGED vars
  BY <1>21 DEF vars
<1> QED
  BY <1>1, <1>2, <1>3, <1>4, <1>5, <1>6, <1>7, <1>8, <1>9, <1>10, <1>11,
     <1>12, <1>13, <1>14, <1>15, <1>16, <1>17, <1>18, <1>19, <1>20, <1>21
  DEF Next, Screens, OnWifi, Radio

\* Whatever of an attempt is not finished has somebody who goes on with it: the caller, the radio,
\* a queued event, or the decision of the event task.
THEOREM UnfinishedInvariance == Spec => []Unfinished
<1>1. Init => Unfinished
  BY DEF Init, Unfinished, AddressKept, OffIsStopped, GoesOn
<1>2. IInv /\ Tries /\ Unfinished /\ [Next]_vars => Unfinished'
  BY UnfinishedNext DEF IInv, Tries
<1> QED BY <1>1, <1>2, Invariance, TriesInvariance, PTL DEF Spec

\* When both threads are at rest and no news is left.
AtRest == host = "rest" /\ on_wifi = "rest" /\ events = <<>>

\* s_connecting is not left behind: with everything at rest, an attempt the screens wait for is
\* still in the hands of the radio.  It is what AttemptEnds rests on.
AttemptIsAlive == AtRest /\ s_connecting => link \in {"joining", "linked", "silent"}

\* oyobyok_wifi_set_enabled(false): once everything is at rest neither a network nor an address is
\* left behind, whatever was under way.  It is what OffIsClean rests on.
OffIsSettled == AtRest /\ ~s_enabled => s_connected = None /\ ~s_ip

LEMMA NoNews == AtRest => ~Pending("GOT_IP") /\ ~Pending("STA_DISCONNECTED")
BY DEF AtRest, Pending, Contains

\* With the caller and the event task at rest and no news queued, an attempt still waited for
\* is in the hands of the radio: do_connect and on_wifi leave none behind, however calls, news
\* and tries interleave.
THEOREM NothingIsStranded == Spec => []AttemptIsAlive
<1>1. Unfinished => AttemptIsAlive
  BY NoNews DEF Unfinished, GoesOn, AttemptIsAlive, AtRest
<1> QED BY <1>1, UnfinishedInvariance, PTL

\* With both at rest, no news queued and the radio off, neither a network nor an address is left:
\* oyobyok_wifi_set_enabled(false) and on_wifi clean up between them.
THEOREM NothingIsLeft == Spec => []OffIsSettled
<1>1. IInv /\ Unfinished => OffIsSettled
  BY NoNews DEF IInv, Apart, OffIsOff, AddressIsThere, Unfinished, AddressKept, OffIsStopped,
     OffIsSettled, AtRest
<1> QED BY <1>1, Invariance, UnfinishedInvariance, PTL

-----------------------------------------------------------------------------
(* The refinement.                                                         *)

LEMMA StationStep ==
    ASSUME IInv, [Next]_vars
    PROVE  [Promised!Next]_(Promised!vars)
<1> USE DEF Promised!vars, Promised!Next, Promised!TurnOn, Promised!TurnOff, Promised!Begin,
            Promised!Leave, Promised!Nothing, Promised!Call, Promised!Refuse, Promised!Succeed,
            Promised!GiveUp, Promised!Lose, Promised!LateOk, Promised!LateFail, Promised!Posts,
            radio
<1> TypeOK /\ LostIsNameless /\ EnabledTries /\ TargetFirst
  BY DEF IInv, Apart
<1>1. CASE TurnOn
  BY <1>1 DEF TurnOn, Asked, do_connect
<1>2. CASE TurnOnFails
  BY <1>2 DEF TurnOnFails, Asked
<1>3. CASE TurnOff
  BY <1>3 DEF TurnOff, Asked
<1>4. CASE Scan
  BY <1>4 DEF Scan, Asked
<1>5. CASE Disconnect
  BY <1>5 DEF Disconnect, Asked
<1>6. CASE Tell
  BY <1>6 DEF Tell
<1>7. CASE ThreeSeconds
  BY <1>7 DEF ThreeSeconds
<1>8. CASE StaStart
  BY <1>8 DEF StaStart, Handles
<1>9. CASE StaDisconnected
  BY <1>9 DEF StaDisconnected, Handles, Forgets
<1>10. CASE Again
  BY <1>10 DEF Again
<1>11. CASE GiveUp
  BY <1>11 DEF GiveUp, Post, LostIsNameless
<1>12. CASE GotIp
  BY <1>12 DEF GotIp, Handles
<1>13. CASE Named
  BY <1>13 DEF Named, Post, TargetFirst
<1>14. CASE Joins
  BY <1>14 DEF Joins
<1>15. CASE JoinFails
  BY <1>15 DEF JoinFails
<1>16. CASE Address
  BY <1>16 DEF Address
<1>17. CASE Drops
  BY <1>17 DEF Drops
<1>18. ASSUME NEW n \in Networks, Connect(n) PROVE [Promised!Next]_(Promised!vars)
  BY <1>18 DEF Connect, Asked, do_connect
<1>19. ASSUME NEW n \in Networks, ConnectKnown(n) PROVE [Promised!Next]_(Promised!vars)
  BY <1>19 DEF ConnectKnown, Asked, do_connect
<1>20. ASSUME NEW n \in Networks, ConnectFails(n) PROVE [Promised!Next]_(Promised!vars)
  BY <1>20 DEF ConnectFails, Asked, Post
<1>21. CASE UNCHANGED vars
  BY <1>21 DEF vars
<1> QED
  BY <1>1, <1>2, <1>3, <1>4, <1>5, <1>6, <1>7, <1>8, <1>9, <1>10, <1>11,
     <1>12, <1>13, <1>14, <1>15, <1>16, <1>17, <1>18, <1>19, <1>20, <1>21
  DEF Next, Screens, OnWifi, Radio

\* wifi.c implements Station: whatever the radio, the event task and the screens do, an
\* attempt goes on until one message ends it or the screens call it off.
THEOREM ImplementsStation == Spec => Implements
<1>1. Init => Promised!Init
  BY DEF Init, Promised!Init, radio
<1>2. IInv /\ [Next]_vars => [Promised!Next]_(Promised!vars)
  BY StationStep
<1> QED BY <1>1, <1>2, Invariance, PTL DEF Spec, Implements, Promised!Spec
=============================================================================
