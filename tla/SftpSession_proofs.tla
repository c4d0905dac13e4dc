------------------------- MODULE SftpSession_proofs -------------------------
(***************************************************************************)
(* Proofs about SftpSession, for windows, buffers, packets, handle tables  *)
(* and numbers of requests of any size.                                    *)
(*                                                                         *)
(* The replies are one stream, cut into packets.  A position in it is a    *)
(* request and how much of its reply came before.  From where the client   *)
(* is to where the server is, the packets under way lead without a gap.    *)
(***************************************************************************)
EXTENDS SftpSession, Sums

Packet == [t : {"data", "adjust", "eof", "close"}, n : Nat, id : Nat, h : Handles \cup {NoHandle}]

\* What TypeOK says but for the bounds that come from the windows.
Typed ==
    /\ inq \in Seq(Packet) /\ outq \in Seq(Packet)
    /\ at \in {"top", "drain", "reply"} /\ client_window \in Nat
    /\ requests \in Seq(Request) /\ handled \in 0..Len(requests)
    /\ used \subseteq Handles /\ mine \subseteq Handles
    /\ reply \in [id : Nat, h : Handles \cup {NoHandle}] /\ left \in Nat
    /\ answers \in Seq([id : Nat, h : Handles \cup {NoHandle}]) /\ part \in Nat
    /\ may \in Nat /\ owed \in Nat

Size(i) == ReplySize(requests[i].op)
Live    == phase \in {"login", "serving"}

\* The reply in the buffer is that of the next request, and not yet all sent.
Replying ==
    Live /\ at = "reply" =>
        /\ handled < Len(requests) /\ reply.id = handled + 1
        /\ left \in 1..Size(handled + 1)
        /\ reply.h # NoHandle => requests[handled + 1].op = "open"

Here == IF at = "reply" THEN Size(handled + 1) - left ELSE 0

\* A packet at one position leads to the next.
Joins(p, id, off, id2, off2) ==
    IF p.t # "data" THEN p.h = NoHandle /\ id2 = id /\ off2 = off
    ELSE /\ p.id = id /\ id \in 1..Len(requests) /\ p.n > 0 /\ off + p.n <= Size(id)
         /\ p.h # NoHandle => requests[id].op = "open"
         /\ IF off + p.n = Size(id) THEN id2 = id + 1 /\ off2 = 0
            ELSE id2 = id /\ off2 = off + p.n

\* Positions before each packet of a queue, and behind the last.
Leads(q, id, off) ==
    /\ id[1] = Len(answers) + 1 /\ off[1] = part
    /\ id[Len(q) + 1] = handled + 1 /\ off[Len(q) + 1] = Here
    /\ \A i \in 1..Len(q) : Joins(q[i], id[i], off[i], id[i + 1], off[i + 1])

NoGapIn(q) == \E id, off \in [1..Len(q) + 1 -> Nat] : Leads(q, id, off)
NoGap == Live => NoGapIn(outq)

-----------------------------------------------------------------------------
(* Types.                                                                  *)

LEMMA MinIs ==
    ASSUME NEW a \in Nat, NEW b \in Nat, NEW c \in Nat
    PROVE  Min({a, b, c}) \in {a, b, c} /\ Min({a, b, c}) <= a /\ Min({a, b, c}) <= b
           /\ Min({a, b, c}) <= c
<1>1. \E x \in {a, b, c} : \A y \in {a, b, c} : x =< y
  OBVIOUS
<1> QED BY <1>1 DEF Min

LEMMA ChunkIs ==
    ASSUME Typed, left > 0, client_window > 0
    PROVE  LET n == Min({left, client_window, MaxPacket})
           IN  n \in 1..left /\ n <= client_window /\ n <= MaxPacket
<1>1. left \in Nat /\ client_window \in Nat /\ MaxPacket \in Nat /\ MaxPacket > 0
  BY SftpSessionAssumption DEF Typed
<1> DEFINE n == Min({left, client_window, MaxPacket})
<1>2. n \in {left, client_window, MaxPacket} /\ n <= left /\ n <= client_window /\ n <= MaxPacket
  BY <1>1, MinIs
<1> HIDE DEF n
<1>3. n \in 1..left /\ n <= client_window /\ n <= MaxPacket
  BY <1>1, <1>2
<1> QED BY <1>3 DEF n

LEMMA QueueFacts ==
    ASSUME NEW q \in Seq(Packet)
    PROVE  /\ \A p \in Packet : /\ Append(q, p) \in Seq(Packet) /\ Len(Append(q, p)) = Len(q) + 1
                                /\ \A i \in 1..Len(q) : Append(q, p)[i] = q[i]
                                /\ Append(q, p)[Len(q) + 1] = p
           /\ q # <<>> => /\ Tail(q) \in Seq(Packet) /\ Len(Tail(q)) = Len(q) - 1 /\ Len(q) > 0
                          /\ \A i \in 1..Len(q) - 1 : Tail(q)[i] = q[i + 1]
                          /\ Head(q) = q[1] /\ Head(q) \in Packet
           /\ Len(q) \in Nat /\ \A i \in 1..Len(q) : q[i] \in Packet
OBVIOUS

LEMMA AppendTwo ==
    ASSUME NEW q \in Seq(Packet), NEW a \in Packet, NEW b \in Packet
    PROVE  q \o <<a, b>> = Append(Append(q, a), b)
OBVIOUS

LEMMA PacketFacts ==
    /\ \A n \in Nat : Data(n) \in Packet /\ Adjust(n) \in Packet
    /\ Mark("eof") \in Packet /\ Mark("close") \in Packet
BY DEF Data, Adjust, Mark, Packet

LEMMA InitTyped == Init => Typed /\ Replying /\ NoGap
<1> SUFFICES ASSUME Init PROVE Typed /\ Replying /\ NoGap
  OBVIOUS
<1>1. OurWindow \in Nat /\ ClientWindow \in Nat
  BY SftpSessionAssumption
<1>2. Typed
  BY <1>1 DEF Init, Typed
<1>3. Replying
  BY DEF Init, Replying
<1>4. NoGap
  <2> DEFINE id == [i \in 1..1 |-> 1]
             off == [i \in 1..1 |-> 0]
  <2>1. id \in [1..Len(outq) + 1 -> Nat] /\ off \in [1..Len(outq) + 1 -> Nat] /\ Len(outq) = 0
    BY DEF Init
  <2>2. Leads(outq, id, off)
    BY DEF Init, Leads, Here
  <2> QED BY <2>1, <2>2 DEF NoGap, NoGapIn
<1> QED BY <1>2, <1>3, <1>4

-----------------------------------------------------------------------------
(* The steps, by what they do to the stream.                               *)

Stream == <<outq, requests, answers, part, handled, left, reply, used, mine>>

\* Nothing happens to it.
Quiet == Live /\ UNCHANGED Stream /\ (at' = at \/ (at # "reply" /\ at' # "reply"))

LEMMA QuietSteps ==
    ASSUME Typed,
           Login \/ Stop \/ ReadAdjust \/ Nothing \/ Sends \/ GivesBack \/ SaysEof
    PROVE  Quiet /\ Typed'
<1>1. Quiet
  BY DEF Login, Stop, ReadAdjust, Nothing, Sends, GivesBack, SaysEof, Quiet, Stream, Live, Serving,
         Reads, Comes, server, client
<1>2. inq' \in Seq(Packet) /\ client_window' \in Nat /\ may' \in Nat /\ owed' \in Nat
  <2>1. CASE Login \/ Stop \/ Nothing
    BY <2>1 DEF Login, Stop, Nothing, server, client, Typed
  <2>2. CASE ReadAdjust
    <3>1. inq # <<>> /\ inq' = Tail(inq) /\ client_window' = client_window + Head(inq).n
          /\ UNCHANGED <<may, owed>>
      BY <2>2 DEF ReadAdjust, Reads, Comes, client
    <3>2. inq' \in Seq(Packet) /\ Head(inq) \in Packet
      BY <3>1, QueueFacts DEF Typed
    <3>3. Head(inq).n \in Nat
      BY <3>2 DEF Packet
    <3> QED BY <3>1, <3>2, <3>3 DEF Typed
  <2>3. CASE Sends
    <3>1. PICK n \in 1..MaxPacket : n <= may /\ may' = may - n /\ inq' = Append(inq, Data(n))
                                    /\ UNCHANGED <<owed, client_window>>
      BY <2>3 DEF Sends, server
    <3>2. n \in Nat
      OBVIOUS
    <3> QED BY <3>1, <3>2, QueueFacts, PacketFacts DEF Typed
  <2>4. CASE GivesBack
    <3>1. inq' = Append(inq, Adjust(owed)) /\ owed' = 0 /\ UNCHANGED <<may, client_window>>
      BY <2>4 DEF GivesBack, server
    <3> QED BY <3>1, QueueFacts, PacketFacts DEF Typed
  <2>5. CASE SaysEof
    <3>1. inq' = Append(inq, Mark("eof")) /\ UNCHANGED <<may, owed, client_window>>
      BY <2>5 DEF SaysEof, server
    <3> QED BY <3>1, QueueFacts, PacketFacts DEF Typed
  <2> QED BY <2>1, <2>2, <2>3, <2>4, <2>5
<1>3. at' \in {"top", "drain", "reply"}
  BY DEF Login, Stop, ReadAdjust, Nothing, Sends, GivesBack, SaysEof, server, Typed
<1> QED BY <1>1, <1>2, <1>3 DEF Quiet, Stream, Typed

LEMMA EndSteps ==
    ASSUME Typed, Stops \/ ReadTooMuch \/ ReadClose \/ Idle \/ Leaves
    PROVE  ~Live' /\ UNCHANGED answers /\ Typed'
<1>1. PICK why \in {"stopped", "flooded", "closed", "left"} : Ends(why)
  BY DEF Stops, ReadTooMuch, ReadClose, Idle, Leaves
<1>2. ~Live'
  BY <1>1 DEF Ends, Live
<1>3. <<>> \in Seq(Packet) /\ 0 \in 0..Len(requests)
  BY DEF Typed
<1> QED BY <1>1, <1>2, <1>3 DEF Ends, client, Typed

LEMMA QuietKeeps ==
    ASSUME Replying, NoGap, Quiet
    PROVE  Replying' /\ NoGap'
<1>1. Replying'
  BY DEF Replying, Quiet, Stream, Live, Size
<1>2. NoGapIn(outq) /\ UNCHANGED <<outq, requests, answers, part, handled>> /\ Here' = Here
  BY DEF NoGap, Quiet, Stream, Here, Size
<1>3. PICK id, off \in [1..Len(outq) + 1 -> Nat] : Leads(outq, id, off)
  BY <1>2 DEF NoGapIn
<1>4. Leads(outq, id, off)'
  BY <1>2, <1>3 DEF Leads, Joins, Size
<1>5. NoGapIn(outq)'
  BY <1>2, <1>4 DEF NoGapIn
<1> QED BY <1>1, <1>5 DEF NoGap

\* A packet without data.
Empty(p) == p \in Packet /\ p.t # "data" /\ p.h = NoHandle

LEMMA AppendEmpty ==
    ASSUME NEW q \in Seq(Packet), NoGapIn(q), NEW p, Empty(p)
    PROVE  NoGapIn(Append(q, p)) /\ Append(q, p) \in Seq(Packet)
<1>1. PICK id, off \in [1..Len(q) + 1 -> Nat] : Leads(q, id, off)
  BY DEF NoGapIn
<1> DEFINE r == Append(q, p)
           n == Len(q)
<1>2. r \in Seq(Packet) /\ Len(r) = n + 1 /\ n \in Nat /\ r[n + 1] = p /\ \A i \in 1..n : r[i] = q[i]
  BY QueueFacts DEF Empty
<1> HIDE DEF r
<1> DEFINE id2 == [i \in 1..n + 2 |-> IF i = n + 2 THEN id[n + 1] ELSE id[i]]
           off2 == [i \in 1..n + 2 |-> IF i = n + 2 THEN off[n + 1] ELSE off[i]]
<1>3. id2 \in [1..Len(r) + 1 -> Nat] /\ off2 \in [1..Len(r) + 1 -> Nat]
  BY <1>2
<1>4. /\ \A i \in 1..n + 1 : id2[i] = id[i] /\ off2[i] = off[i]
      /\ id2[n + 2] = id[n + 1] /\ off2[n + 2] = off[n + 1]
  BY <1>2
<1> HIDE DEF id2, off2
<1>5. Leads(r, id2, off2)
  <2>1. \A i \in 1..n + 1 : i \in 1..n \/ i = n + 1
    BY <1>2
  <2>2. \A i \in 1..n : i \in 1..n + 1 /\ i + 1 \in 1..n + 1
    BY <1>2
  <2>3. ASSUME NEW i \in 1..n PROVE Joins(r[i], id2[i], off2[i], id2[i + 1], off2[i + 1])
    <3>1. Joins(q[i], id[i], off[i], id[i + 1], off[i + 1])
      BY <1>1 DEF Leads
    <3> QED BY <1>2, <1>4, <2>2, <3>1
  <2>4. Joins(r[n + 1], id2[n + 1], off2[n + 1], id2[n + 2], off2[n + 2])
    BY <1>2, <1>4, <2>1 DEF Joins, Empty
  <2>5. /\ id2[1] = Len(answers) + 1 /\ off2[1] = part
        /\ id2[n + 2] = handled + 1 /\ off2[n + 2] = Here
    BY <1>1, <1>2, <1>4 DEF Leads
  <2>6. \A i \in 1..Len(r) : Joins(r[i], id2[i], off2[i], id2[i + 1], off2[i + 1])
    BY <1>2, <2>1, <2>3, <2>4
  <2>7. Len(r) + 1 = n + 2
    BY <1>2
  <2> QED BY <2>5, <2>6, <2>7 DEF Leads
<1> QED BY <1>2, <1>3, <1>5 DEF NoGapIn, r

LEMMA TailEmpty ==
    ASSUME NEW q \in Seq(Packet), q # <<>>, NoGapIn(q), Head(q).t # "data"
    PROVE  NoGapIn(Tail(q)) /\ Tail(q) \in Seq(Packet)
<1>1. PICK id, off \in [1..Len(q) + 1 -> Nat] : Leads(q, id, off)
  BY DEF NoGapIn
<1> DEFINE r == Tail(q)
           n == Len(q)
<1>2. r \in Seq(Packet) /\ Len(r) = n - 1 /\ n \in Nat /\ n > 0 /\ Head(q) = q[1]
      /\ \A i \in 1..n - 1 : r[i] = q[i + 1]
  BY QueueFacts
<1> HIDE DEF r
<1> DEFINE id2 == [i \in 1..n |-> id[i + 1]]
           off2 == [i \in 1..n |-> off[i + 1]]
<1>3. id2 \in [1..Len(r) + 1 -> Nat] /\ off2 \in [1..Len(r) + 1 -> Nat]
  BY <1>2
<1>4. \A i \in 1..n : id2[i] = id[i + 1] /\ off2[i] = off[i + 1]
  OBVIOUS
<1> HIDE DEF id2, off2
<1>5. id[2] = id[1] /\ off[2] = off[1]
  BY <1>1, <1>2 DEF Leads, Joins
<1>6. Leads(r, id2, off2)
  <2>1. 1 \in 1..n /\ 2 = 1 + 1 /\ n = Len(r) + 1
    BY <1>2
  <2>2. \A i \in 1..n - 1 : i + 1 \in 1..n /\ i \in 1..n
    BY <1>2
  <2>3. ASSUME NEW i \in 1..Len(r) PROVE Joins(r[i], id2[i], off2[i], id2[i + 1], off2[i + 1])
    <3>1. i + 1 \in 1..Len(q) /\ i \in 1..n /\ i + 1 \in 1..n /\ r[i] = q[i + 1]
      BY <1>2
    <3>2. Joins(q[i + 1], id[i + 1], off[i + 1], id[(i + 1) + 1], off[(i + 1) + 1])
      BY <1>1, <3>1 DEF Leads
    <3> QED BY <1>4, <3>1, <3>2
  <2>4. /\ id2[1] = Len(answers) + 1 /\ off2[1] = part
        /\ id2[n] = handled + 1 /\ off2[n] = Here
    BY <1>1, <1>2, <1>4, <1>5 DEF Leads
  <2> QED BY <2>1, <2>3, <2>4 DEF Leads
<1> QED BY <1>2, <1>3, <1>6 DEF NoGapIn, r

LEMMA CarryOver ==
    ASSUME NEW q, NoGapIn(q), outq' = q, Here' = Here, UNCHANGED <<requests, answers, part, handled>>
    PROVE  NoGapIn(outq)'
<1>1. PICK id, off \in [1..Len(q) + 1 -> Nat] : Leads(q, id, off)
  BY DEF NoGapIn
<1>2. Leads(outq, id, off)'
  BY <1>1 DEF Leads, Joins, Size
<1> QED BY <1>1, <1>2 DEF NoGapIn

LEMMA SizeIs == ASSUME Typed, NEW i \in 1..Len(requests) PROVE Size(i) \in {1, 2} /\ requests[i].op \in Ops
<1>1. requests[i] \in Request
  BY DEF Typed
<1> QED BY <1>1 DEF Size, ReplySize, Request, Ops

\* A handle that a reply under way brings.
Has(q, h) == \E i \in 1..Len(q) : q[i].h = h
Once(q) == \A i, j \in 1..Len(q) : q[i].h = q[j].h /\ q[i].h # NoHandle => i = j

LEMMA AppendNamed ==
    ASSUME NEW q \in Seq(Packet), NEW p \in Packet
    PROVE  /\ \A h \in Handles : Has(Append(q, p), h) <=> Has(q, h) \/ p.h = h
           /\ Once(q) /\ (p.h \in Handles => ~Has(q, p.h)) => Once(Append(q, p))
<1> DEFINE r == Append(q, p)
<1>1. /\ Len(r) = Len(q) + 1 /\ \A i \in 1..Len(q) : r[i] = q[i]
      /\ r[Len(q) + 1] = p /\ Len(q) \in Nat
  BY QueueFacts
<1> HIDE DEF r
<1>2. \A i \in 1..Len(r) : i \in 1..Len(q) \/ i = Len(q) + 1
  BY <1>1
<1>3. \A h \in Handles : Has(r, h) <=> Has(q, h) \/ p.h = h
  BY <1>1, <1>2 DEF Has
<1>4. p.h \in Handles \cup {NoHandle}
  BY DEF Packet
<1>5. Once(q) /\ (p.h \in Handles => ~Has(q, p.h)) => Once(r)
  BY <1>1, <1>2, <1>4 DEF Has, Once
<1> QED BY <1>3, <1>5 DEF r

LEMMA TailNamed ==
    ASSUME NEW q \in Seq(Packet), q # <<>>
    PROVE  /\ \A h \in Handles : Has(q, h) <=> Has(Tail(q), h) \/ Head(q).h = h
           /\ Once(q) => Once(Tail(q)) /\ (Head(q).h # NoHandle => ~Has(Tail(q), Head(q).h))
<1> DEFINE r == Tail(q)
<1>1. /\ Len(r) = Len(q) - 1 /\ Len(q) \in Nat /\ Len(q) > 0
      /\ \A i \in 1..Len(q) - 1 : r[i] = q[i + 1]
      /\ Head(q) = q[1]
  BY QueueFacts
<1> HIDE DEF r
<1>2. \A i \in 1..Len(r) : i + 1 \in 1..Len(q) /\ r[i] = q[i + 1]
  BY <1>1
<1>3. \A i \in 1..Len(q) : i = 1 \/ (i - 1 \in 1..Len(r) /\ r[i - 1] = q[i])
  BY <1>1
<1>4. 1 \in 1..Len(q)
  BY <1>1
<1>5. \A h \in Handles : Has(q, h) <=> Has(r, h) \/ Head(q).h = h
  BY <1>1, <1>2, <1>3, <1>4 DEF Has
<1>6. ASSUME Once(q) PROVE Once(r)
  <2> SUFFICES ASSUME NEW i \in 1..Len(r), NEW j \in 1..Len(r), r[i].h = r[j].h, r[i].h # NoHandle
               PROVE  i = j
    BY DEF Once
  <2>1. i + 1 = j + 1
    BY <1>2, <1>6 DEF Once
  <2> QED BY <2>1
<1>7. ASSUME Once(q), Head(q).h # NoHandle, NEW i \in 1..Len(r), r[i].h = Head(q).h PROVE FALSE
  <2>1. i + 1 = 1
    BY <1>1, <1>2, <1>4, <1>7 DEF Once
  <2> QED BY <2>1
<1> QED BY <1>5, <1>6, <1>7 DEF r, Has

LEMMA EmptySteps ==
    ASSUME Typed, Replying, NoGap, ReadData \/ ReadEof \/ GetsRoom \/ GetsClose
    PROVE  /\ Typed' /\ Replying' /\ NoGap'
           /\ UNCHANGED <<requests, answers, handled, used, reply, mine>>
           /\ (at' = "reply") <=> (at = "reply")
           /\ \A h \in Handles : Has(outq', h) <=> Has(outq, h)
           /\ Once(outq) => Once(outq')
<1>1. /\ Live /\ UNCHANGED <<requests, answers, part, handled, left, reply, used, mine, phase>>
      /\ at' = at \/ (at # "reply" /\ at' = "drain")
  BY DEF ReadData, ReadEof, GetsRoom, GetsClose, server, client, Reads, Comes, Serving, Live, NextAt
<1>2. Replying' /\ Here' = Here /\ Live'
  BY <1>1 DEF Replying, Live, Size, Here
<1>3. NoGapIn(outq)
  BY <1>1 DEF NoGap
<1>4. PICK q : outq' = q
  OBVIOUS
<1>5. /\ q \in Seq(Packet) /\ NoGapIn(q)
      /\ inq' \in Seq(Packet) /\ client_window' \in Nat /\ may' \in Nat /\ owed' \in Nat
  <2>1. CASE ReadData
    <3>1. q = outq \/ q = Append(outq, Adjust(OurWindow))
      BY <1>4, <2>1 DEF ReadData, GivesRoom
    <3>2. Empty(Adjust(OurWindow))
      BY PacketFacts, SftpSessionAssumption DEF Empty, Adjust
    <3>3. inq # <<>> /\ inq' = Tail(inq) /\ UNCHANGED <<client_window, may, owed>>
      BY <2>1 DEF ReadData, Reads, Comes, client
    <3>4. inq' \in Seq(Packet) 
      BY <3>3, QueueFacts DEF Typed
    <3> QED BY <1>3, <3>1, <3>2, <3>3, <3>4, AppendEmpty DEF Typed
  <2>2. CASE ReadEof
    <3>1. q = outq \/ q = outq \o <<Mark("eof"), Mark("close")>>
      BY <1>4, <2>2 DEF ReadEof
    <3>2. Empty(Mark("eof")) /\ Empty(Mark("close"))
      BY PacketFacts DEF Empty, Mark
    <3>3. outq \o <<Mark("eof"), Mark("close")>> = Append(Append(outq, Mark("eof")), Mark("close"))
      BY PacketFacts DEF Typed
    <3>4. LET r == Append(outq, Mark("eof"))
          IN  NoGapIn(r) /\ r \in Seq(Packet)
      BY <1>3, <3>2, AppendEmpty DEF Typed
    <3>5. inq # <<>> /\ inq' = Tail(inq) /\ UNCHANGED <<client_window, may, owed>>
      BY <2>2 DEF ReadEof, Reads, Comes, client
    <3>6. inq' \in Seq(Packet) 
      BY <3>5, QueueFacts DEF Typed
    <3>7. q \in Seq(Packet) /\ NoGapIn(q)
      BY <1>3, <3>1, <3>2, <3>3, <3>4, AppendEmpty DEF Typed
    <3> QED BY <3>5, <3>6, <3>7 DEF Typed
  <2>3. CASE GetsRoom \/ GetsClose
    <3>1. outq # <<>> /\ q = Tail(outq) /\ Head(outq).t # "data" /\ UNCHANGED <<client_window, owed>>
      BY <1>4, <2>3 DEF GetsRoom, GetsClose, server, client
    <3>2. Head(outq) \in Packet
      BY <3>1, QueueFacts DEF Typed
    <3>3. may' \in Nat
      <4>1. Head(outq).n \in Nat /\ may \in Nat
        BY <3>2 DEF Packet, Typed
      <4> QED BY <2>3, <4>1 DEF GetsRoom, GetsClose, client
    <3>4. inq' \in Seq(Packet)
      <4>1. inq' = inq \/ inq' = Append(inq, Mark("close"))
        BY <2>3 DEF GetsRoom, GetsClose
      <4> QED BY ZenonT(30), <4>1, QueueFacts, PacketFacts DEF Typed
    <3> QED BY <1>3, <3>1, <3>3, <3>4, TailEmpty DEF Typed
  <2> QED BY <2>1, <2>2, <2>3
<1>6. NoGap'
  BY <1>1, <1>2, <1>4, <1>5, CarryOver DEF NoGap
<1>7. Typed'
  BY <1>1, <1>4, <1>5 DEF Typed
<1>8. (\A h \in Handles : Has(q, h) <=> Has(outq, h)) /\ (Once(outq) => Once(q))
  <2>1. outq \in Seq(Packet) /\ NoHandle \notin Handles
    BY SftpSessionAssumption DEF Typed
  <2>2. CASE ReadData
    <3>1. q = outq \/ q = Append(outq, Adjust(OurWindow))
      BY <1>4, <2>2 DEF ReadData, GivesRoom
    <3>2. Adjust(OurWindow) \in Packet /\ Adjust(OurWindow).h = NoHandle
      BY PacketFacts, SftpSessionAssumption DEF Adjust
    <3> QED BY ZenonT(30), <2>1, <3>1, <3>2, AppendNamed
  <2>3. CASE ReadEof
    <3> DEFINE r == Append(outq, Mark("eof"))
    <3>1. q = outq \/ q = outq \o <<Mark("eof"), Mark("close")>>
      BY <1>4, <2>3 DEF ReadEof
    <3>2. /\ Mark("eof") \in Packet /\ Mark("close") \in Packet
          /\ Mark("eof").h = NoHandle /\ Mark("close").h = NoHandle
      BY PacketFacts DEF Mark
    <3>3. outq \o <<Mark("eof"), Mark("close")>> = Append(r, Mark("close")) /\ r \in Seq(Packet)
      BY <2>1, <3>2
    <3>4. (\A h \in Handles : Has(r, h) <=> Has(outq, h)) /\ (Once(outq) => Once(r))
      BY <2>1, <3>2, AppendNamed
    <3> HIDE DEF r
    <3> DEFINE u == Append(r, Mark("close"))
    <3>5. (\A h \in Handles : Has(u, h) <=> Has(r, h)) /\ (Once(r) => Once(u))
      BY <2>1, <3>2, <3>3, AppendNamed
    <3>6. q = outq \/ q = u
      BY <3>1, <3>3
    <3> HIDE DEF u
    <3> QED BY <3>4, <3>5, <3>6
  <2>4. CASE GetsRoom \/ GetsClose
    <3>1. outq # <<>> /\ q = Tail(outq) /\ Head(outq).t # "data"
      BY <1>4, <2>4 DEF GetsRoom, GetsClose
    <3>2. Len(outq) \in Nat /\ Len(outq) > 0 /\ Head(outq) = outq[1]
      BY <2>1, <3>1, QueueFacts
    <3>3. Head(outq).h = NoHandle
      BY <1>3, <3>1, <3>2 DEF NoGapIn, Leads, Joins
    <3> QED BY <2>1, <3>1, <3>3, TailNamed
  <2> QED BY <2>2, <2>3, <2>4
<1> QED BY <1>1, <1>2, <1>4, <1>6, <1>7, <1>8

LEMMA AnswerSteps ==
    ASSUME Typed, Replying, NoGap, Open \/ Close \/ Other
    PROVE  Typed' /\ Replying' /\ NoGap' /\ UNCHANGED <<answers, outq, requests, handled, mine>>
<1>1. PICK op \in Ops, h \in Handles \cup {NoHandle} :
          Takes(op) /\ Answers(h) /\ (h # NoHandle => op = "open") /\ used' \subseteq Handles
  BY DEF Open, Close, Other, Ops, Typed
<1>2. /\ Live /\ at = "drain" /\ handled < Len(requests) /\ requests[handled + 1].op = op
      /\ reply' = [id |-> handled + 1, h |-> h] /\ left' = Size(handled + 1) /\ at' = "reply"
      /\ UNCHANGED <<phase, inq, outq, client_window, handled, requests, may, owed, answers, part, mine>>
  BY <1>1 DEF Takes, Answers, Serving, Live, Whole, Size, client
<1>3. handled + 1 \in 1..Len(requests) /\ handled \in Nat /\ Size(handled + 1) \in 1..2
  <2>1. handled + 1 \in 1..Len(requests) /\ handled \in Nat
    BY <1>2 DEF Typed
  <2> QED BY <2>1, SizeIs
<1>4. Typed'
  BY <1>1, <1>2, <1>3 DEF Typed
<1>5. Replying'
  BY <1>1, <1>2, <1>3 DEF Replying, Size
<1>6. Here' = Here
  BY <1>2, <1>3 DEF Here, Size
<1>7. NoGap'
  BY <1>2, <1>6, CarryOver DEF NoGap
<1> QED BY <1>2, <1>4, <1>5, <1>7

LEMMA SendSteps ==
    ASSUME Typed, Replying, NoGap, SendChunk
    PROVE  /\ Typed' /\ Replying' /\ NoGap' /\ UNCHANGED <<answers, requests, used, mine>>
           /\ \E p \in Packet : outq' = Append(outq, p) /\ p.h = reply.h
           /\ at = "reply" /\ handled < Len(requests)
           /\ reply.h # NoHandle => at' = "drain"
           /\ IF at' = "reply" THEN UNCHANGED <<handled, reply>> ELSE handled' = handled + 1
<1> DEFINE n == Min({left, client_window, MaxPacket})
           p == [t |-> "data", n |-> n, id |-> reply.id, h |-> reply.h]
<1>1. /\ Live /\ at = "reply" /\ handled < Len(requests) /\ reply.id = handled + 1 /\ handled \in Nat
      /\ left \in 1..Size(handled + 1) /\ (reply.h # NoHandle => requests[handled + 1].op = "open")
      /\ Size(handled + 1) \in 1..2 /\ handled + 1 \in 1..Len(requests)
  <2>1. Live /\ at = "reply"
    BY DEF SendChunk, Serving, Live
  <2>2. handled < Len(requests) /\ handled \in Nat
    BY <2>1 DEF Replying, Typed
  <2>3. handled + 1 \in 1..Len(requests)
    BY <2>2 DEF Typed
  <2> QED BY <2>1, <2>2, <2>3, SizeIs DEF Replying
<1>2. n \in 1..left /\ n <= client_window /\ client_window \in Nat /\ left \in Nat
  <2>1. client_window > 0 /\ left > 0
    BY <1>1 DEF SendChunk
  <2> QED BY <2>1, ChunkIs DEF Typed
<1>3. /\ outq' = Append(outq, p) /\ client_window' = client_window - n /\ left' = left - n
      /\ IF left = n THEN at' = "drain" /\ handled' = handled + 1 ELSE UNCHANGED <<at, handled>>
      /\ UNCHANGED <<phase, inq, used, reply, requests, may, owed, answers, part, mine>>
  BY DEF SendChunk, client
<1> HIDE DEF n
<1>4. p \in Packet /\ p.h = reply.h
  BY <1>1, <1>2 DEF Typed, Packet
<1>5. /\ p.t = "data" /\ p.n = n /\ p.id = handled + 1
  BY <1>1
<1> HIDE DEF p
<1>6. outq' \in Seq(Packet)
  BY <1>3, <1>4, QueueFacts DEF Typed
<1>7. Typed'
  BY <1>1, <1>2, <1>3, <1>6 DEF Typed
<1>8. Replying'
  BY <1>1, <1>2, <1>3 DEF Replying, Size
<1>9. reply.h # NoHandle => left = n
  <2>1. reply.h # NoHandle => Size(handled + 1) = 1
    BY <1>1 DEF Size, ReplySize
  <2> QED BY <1>1, <1>2, <2>1
<1>10. NoGap'
  <2>1. PICK id, off \in [1..Len(outq) + 1 -> Nat] : Leads(outq, id, off)
    BY <1>1 DEF NoGap, NoGapIn
  <2>2. PICK m, r : /\ m = Len(outq) /\ m \in Nat /\ r = Append(outq, p) /\ r \in Seq(Packet)
                    /\ Len(r) = m + 1 /\ r[m + 1] = p /\ \A i \in 1..m : r[i] = outq[i]
    <3> DEFINE a == Append(outq, p)
               l == Len(outq)
    <3>1. /\ l = Len(outq) /\ l \in Nat /\ a = Append(outq, p) /\ a \in Seq(Packet)
          /\ Len(a) = l + 1 /\ a[l + 1] = p /\ \A i \in 1..l : a[i] = outq[i]
      BY <1>4, QueueFacts DEF Typed
    <3> HIDE DEF a, l
    <3> QED BY <3>1
  <2>3. id[m + 1] = handled + 1 /\ off[m + 1] = Size(handled + 1) - left
    BY <1>1, <2>1, <2>2 DEF Leads, Here
  <2>4. Here' = IF left = n THEN 0 ELSE Size(handled + 1) - left + n
    BY <1>1, <1>2, <1>3 DEF Here, Size
  <2>5. PICK id2, off2 \in [1..m + 2 -> Nat] :
            /\ \A i \in 1..m + 1 : id2[i] = id[i] /\ off2[i] = off[i]
            /\ id2[m + 2] = handled' + 1 /\ off2[m + 2] = Here'
    <3>1. handled' + 1 \in Nat /\ Here' \in Nat
      BY <1>1, <1>2, <1>3, <2>4
    <3> DEFINE a == [i \in 1..m + 2 |-> IF i <= m + 1 THEN id[i] ELSE handled' + 1]
               b == [i \in 1..m + 2 |-> IF i <= m + 1 THEN off[i] ELSE Here']
    <3>2. a \in [1..m + 2 -> Nat] /\ b \in [1..m + 2 -> Nat]
      BY <2>2, <3>1
    <3>3. /\ \A i \in 1..m + 1 : a[i] = id[i] /\ b[i] = off[i]
          /\ a[m + 2] = handled' + 1 /\ b[m + 2] = Here'
      BY <2>2
    <3> QED BY <3>2, <3>3
  <2>6. ASSUME NEW i \in 1..m PROVE Joins(r[i], id2[i], off2[i], id2[i + 1], off2[i + 1])
    <3>1. Joins(outq[i], id[i], off[i], id[i + 1], off[i + 1])
      BY <2>1, <2>2 DEF Leads
    <3>2. i \in 1..m + 1 /\ i + 1 \in 1..m + 1
      BY <2>2
    <3> QED BY <2>2, <2>5, <3>1, <3>2
  <2>7. Joins(r[m + 1], id2[m + 1], off2[m + 1], id2[m + 2], off2[m + 2])
    <3>1. m + 1 \in 1..m + 1
      BY <2>2
    <3>2. id2[m + 1] = handled + 1 /\ off2[m + 1] = Size(handled + 1) - left /\ r[m + 1] = p
      BY <2>2, <2>3, <2>5, <3>1
    <3>3. Joins(p, handled + 1, Size(handled + 1) - left, handled' + 1, Here')
      BY <1>1, <1>2, <1>3, <1>4, <1>5, <2>4 DEF Joins
    <3> QED BY <2>5, <3>2, <3>3
  <2>8. ASSUME NEW i \in 1..Len(r)
        PROVE  Joins(r[i], id2[i], off2[i], id2[i + 1], off2[i + 1])'
    <3>1. i \in 1..m \/ (i = m + 1 /\ i + 1 = m + 2)
      BY <2>2
    <3>2. Joins(r[i], id2[i], off2[i], id2[i + 1], off2[i + 1])
      BY <2>6, <2>7, <3>1
    <3> QED BY <1>3, <3>2 DEF Joins, Size
  <2>9. id2[1] = Len(answers') + 1 /\ off2[1] = part'
    <3>1. 1 \in 1..m + 1
      BY <2>2
    <3> QED BY <1>3, <2>1, <2>5, <3>1 DEF Leads
  <2>10. outq' = r /\ Len(r) + 1 = m + 2
    BY <1>3, <2>2
  <2>11. Leads(outq, id2, off2)'
    BY <2>5, <2>8, <2>9, <2>10 DEF Leads
  <2> QED BY <2>5, <2>10, <2>11 DEF NoGap, NoGapIn
<1> QED BY <1>1, <1>3, <1>4, <1>7, <1>8, <1>9, <1>10

LEMMA AskSteps ==
    ASSUME Typed, Replying, NoGap, NEW op \in Ops, NEW h \in Handles \cup {NoHandle}, Ask(op, h)
    PROVE  /\ Typed' /\ Replying' /\ NoGap' /\ UNCHANGED <<answers, outq, used, reply, at, handled>>
           /\ requests' \in Seq(Request) /\ Len(requests') = Len(requests) + 1
           /\ \A i \in 1..Len(requests) : requests'[i] = requests[i]
           /\ requests'[Len(requests) + 1] = [op |-> op, h |-> h]
<1>1. /\ Live /\ requests' = Append(requests, [op |-> op, h |-> h])
      /\ mine' \subseteq Handles
      /\ UNCHANGED <<phase, inq, outq, at, client_window, handled, used, reply, left, may, owed,
                     answers, part>>
  BY DEF Ask, Serving, Live, server, Typed
<1>2. /\ requests' \in Seq(Request) /\ Len(requests') = Len(requests) + 1
      /\ \A i \in 1..Len(requests) : requests'[i] = requests[i]
      /\ requests'[Len(requests) + 1] = [op |-> op, h |-> h] /\ Len(requests) \in Nat
  BY <1>1 DEF Typed, Request
<1>3. Typed'
  BY <1>1, <1>2 DEF Typed
<1>4. \A i \in 1..Len(requests) : Size(i)' = Size(i) /\ i \in 1..Len(requests')
  BY <1>2 DEF Size
<1>5. at = "reply" => /\ handled + 1 \in 1..Len(requests) /\ handled < Len(requests')
  BY <1>1, <1>2 DEF Replying, Typed
<1>6. Replying' /\ Here' = Here
  <2>1. CASE at = "reply"
    <3>1. /\ reply.id = handled + 1 /\ left \in 1..Size(handled + 1)
          /\ reply.h # NoHandle => requests[handled + 1].op = "open"
      BY <1>1, <2>1 DEF Replying
    <3>2. Size(handled + 1)' = Size(handled + 1) /\ requests'[handled + 1] = requests[handled + 1]
      BY <1>1, <1>2, <1>4, <1>5, <2>1 DEF Size
    <3> QED BY <1>1, <1>5, <2>1, <3>1, <3>2 DEF Replying, Here
  <2>2. CASE at # "reply"
    BY <1>1, <2>2 DEF Replying, Here
  <2> QED BY <2>1, <2>2
<1>7. PICK id, off \in [1..Len(outq) + 1 -> Nat] : Leads(outq, id, off)
  BY <1>1 DEF NoGap, NoGapIn
<1>8. ASSUME NEW i \in 1..Len(outq)
      PROVE  Joins(outq[i], id[i], off[i], id[i + 1], off[i + 1])'
  <2>1. Joins(outq[i], id[i], off[i], id[i + 1], off[i + 1])
    BY <1>7 DEF Leads
  <2> QED BY <1>1, <1>2, <1>4, <2>1 DEF Joins
<1>9. Leads(outq, id, off)'
  BY <1>1, <1>6, <1>7, <1>8 DEF Leads
<1>10. NoGap'
  BY <1>1, <1>7, <1>9 DEF NoGap, NoGapIn
<1> QED BY <1>1, <1>2, <1>3, <1>6, <1>10

LEMMA GetSteps ==
    ASSUME Typed, Replying, NoGap, AnswersInOrder, GetsData
    PROVE  /\ Typed' /\ Replying' /\ NoGap' /\ AnswersInOrder'
           /\ UNCHANGED <<requests, used, reply, at, handled>>
           /\ outq # <<>> /\ outq' = Tail(outq)
           /\ mine' = mine \cup ({Head(outq).h} \ {NoHandle})
<1> DEFINE p == Head(outq)
           whole == part + p.n = Size(p.id)
<1>1. /\ Live /\ outq # <<>> /\ p.t = "data" /\ outq' = Tail(outq) /\ owed' = owed + p.n
      /\ answers' = IF whole THEN Append(answers, [id |-> p.id, h |-> p.h]) ELSE answers
      /\ part' = IF whole THEN 0 ELSE part + p.n
      /\ mine' = IF whole /\ p.h # NoHandle THEN mine \cup {p.h} ELSE mine
      /\ UNCHANGED <<phase, inq, requests, at, client_window, handled, used, reply, left, may>>
  BY DEF GetsData, Serving, Live, server, Size
<1>2. /\ Len(outq) \in Nat /\ Len(outq) > 0 /\ p = outq[1] /\ p \in Packet
      /\ outq' \in Seq(Packet) /\ Len(outq') = Len(outq) - 1
      /\ \A i \in 1..Len(outq) - 1 : outq'[i] = outq[i + 1]
  BY <1>1, QueueFacts DEF Typed
<1>3. PICK id, off \in [1..Len(outq) + 1 -> Nat] : Leads(outq, id, off)
  BY <1>1 DEF NoGap, NoGapIn
<1>4. id[1] = Len(answers) + 1 /\ off[1] = part /\ Joins(p, id[1], off[1], id[2], off[2])
  BY <1>2, <1>3 DEF Leads
<1>5. /\ p.id = Len(answers) + 1 /\ p.id \in 1..Len(requests) /\ p.n > 0
      /\ part + p.n <= Size(p.id) /\ (p.h # NoHandle => requests[p.id].op = "open")
      /\ IF whole THEN id[2] = p.id + 1 /\ off[2] = 0 ELSE id[2] = p.id /\ off[2] = part + p.n
  BY <1>1, <1>4 DEF Joins
<1>6. p.n \in Nat /\ part \in Nat /\ p.h \in Handles \cup {NoHandle} /\ p.id \in Nat
  BY <1>2 DEF Packet, Typed
<1>7. p.h # NoHandle => whole
  <2>1. p.h # NoHandle => Size(p.id) = 1
    BY <1>5 DEF Size, ReplySize
  <2> QED BY <1>5, <1>6, <2>1
<1>8. mine' = mine \cup ({p.h} \ {NoHandle})
  BY <1>1, <1>7
<1> HIDE DEF p
<1>9. /\ answers' \in Seq([id : Nat, h : Handles \cup {NoHandle}])
      /\ Len(answers') = IF whole THEN Len(answers) + 1 ELSE Len(answers)
      /\ AnswersInOrder'
  <2> DEFINE e == [id |-> p.id, h |-> p.h]
             E == [id : Nat, h : Handles \cup {NoHandle}]
  <2>1. e \in E /\ answers \in Seq(E) /\ e.id = p.id
    BY <1>6 DEF Typed
  <2> HIDE DEF e, E
  <2>2. /\ Append(answers, e) \in Seq(E) /\ Len(Append(answers, e)) = Len(answers) + 1
        /\ \A i \in 1..Len(answers) : Append(answers, e)[i] = answers[i]
        /\ Append(answers, e)[Len(answers) + 1] = e /\ Len(answers) \in Nat
    BY <2>1, AppendProperties
  <2>3. answers' = IF whole THEN Append(answers, e) ELSE answers
    BY <1>1 DEF e
  <2>4. \A i \in 1..Len(answers) + 1 : i \in 1..Len(answers) \/ i = Len(answers) + 1
    BY <2>2
  <2>5. AnswersInOrder'
    BY <1>5, <2>1, <2>2, <2>3, <2>4 DEF AnswersInOrder
  <2> QED BY <2>1, <2>2, <2>3, <2>5 DEF E
<1>10. Typed'
  <2>1. part' \in Nat /\ owed' \in Nat
    <3>1. part' \in {0, part + p.n} /\ owed' = owed + p.n
      BY <1>1
    <3>2. owed \in Nat
      BY DEF Typed
    <3> QED BY <1>6, <3>1, <3>2
  <2>2. mine' \subseteq Handles
    BY <1>6, <1>8 DEF Typed
  <2> HIDE DEF whole
  <2> QED BY <1>1, <1>2, <1>9, <2>1, <2>2 DEF Typed
<1>11. Replying' /\ Here' = Here
  BY <1>1 DEF Replying, Live, Size, Here
<1>12. PICK m, r : m = Len(outq) /\ r = outq' /\ m \in Nat /\ m > 0 /\ Len(r) = m - 1
                   /\ \A i \in 1..m - 1 : r[i] = outq[i + 1]
  BY <1>2
<1>13. NoGap'
  <2> DEFINE id2 == [i \in 1..m |-> id[i + 1]]
             off2 == [i \in 1..m |-> off[i + 1]]
  <2>1. id2 \in [1..Len(r) + 1 -> Nat] /\ off2 \in [1..Len(r) + 1 -> Nat]
    BY <1>3, <1>12
  <2>2. \A i \in 1..m : id2[i] = id[i + 1] /\ off2[i] = off[i + 1]
    OBVIOUS
  <2> HIDE DEF id2, off2
  <2>3. id2[1] = Len(answers') + 1 /\ off2[1] = part'
    <3>1. 1 \in 1..m /\ 1 + 1 = 2 /\ Len(answers) \in Nat
      BY <1>12 DEF Typed
    <3>2. id[2] = Len(answers') + 1 /\ off[2] = part'
      BY <1>1, <1>5, <1>9, <3>1
    <3> QED BY <2>2, <3>1, <3>2
  <2>4. id2[m] = handled' + 1 /\ off2[m] = Here'
    <3>1. m \in 1..m
      BY <1>12
    <3> QED BY <1>1, <1>3, <1>11, <1>12, <2>2, <3>1 DEF Leads
  <2>5. ASSUME NEW i \in 1..Len(r) PROVE Joins(r[i], id2[i], off2[i], id2[i + 1], off2[i + 1])'
    <3>1. i + 1 \in 1..Len(outq) /\ i \in 1..m /\ i + 1 \in 1..m /\ r[i] = outq[i + 1]
      BY <1>12
    <3>2. Joins(outq[i + 1], id[i + 1], off[i + 1], id[(i + 1) + 1], off[(i + 1) + 1])
      BY <1>3, <3>1 DEF Leads
    <3>3. Joins(r[i], id2[i], off2[i], id2[i + 1], off2[i + 1])
      BY <2>2, <3>1, <3>2
    <3> QED BY <1>1, <3>3 DEF Joins, Size
  <2>6. Len(r) + 1 = m
    BY <1>12
  <2>7. Leads(outq, id2, off2)'
    BY <1>12, <2>3, <2>4, <2>5, <2>6 DEF Leads
  <2> QED BY <1>12, <2>1, <2>7 DEF NoGap, NoGapIn
<1> QED BY <1>1, <1>8, <1>9, <1>10, <1>11, <1>13 DEF p

-----------------------------------------------------------------------------
(* Handles: each one in use is in one place.                               *)

Taken == IF at = "reply" THEN handled + 1 ELSE handled

Told(h)     == at = "reply" /\ reply.h = h
Asked(h, k) == k \in 1..Len(requests) /\ k > Taken /\ requests[k] = [op |-> "close", h |-> h]
Pending(h)  == \E k \in Nat : Asked(h, k)

Owner(h) ==
    /\ h \in used <=> h \in mine \/ Told(h) \/ Has(outq, h) \/ Pending(h)
    /\ h \in mine => ~Told(h) /\ ~Has(outq, h) /\ ~Pending(h)
    /\ Told(h) => ~Has(outq, h) /\ ~Pending(h)
    /\ Has(outq, h) => ~Pending(h)
    /\ \A k, l \in Nat : Asked(h, k) /\ Asked(h, l) => k = l

Owners == Live => Once(outq) /\ \A h \in Handles : Owner(h)

LEMMA AskedSame ==
    ASSUME UNCHANGED requests, Taken' = Taken
    PROVE  \A h, k : Asked(h, k)' <=> Asked(h, k)
BY DEF Asked

LEMMA OwnersSame ==
    ASSUME Owners, Live, UNCHANGED <<used, mine, reply, requests, handled>>,
           (at' = "reply") <=> (at = "reply"),
           \A h \in Handles : Has(outq', h) <=> Has(outq, h), Once(outq) => Once(outq')
    PROVE  Owners'
<1>1. Taken' = Taken /\ \A h : Told(h)' <=> Told(h)
  BY DEF Taken, Told
<1>2. \A h : (\A k : Asked(h, k)' <=> Asked(h, k)) /\ (Pending(h)' <=> Pending(h))
  BY <1>1, AskedSame DEF Pending
<1>3. Once(outq)' /\ \A h \in Handles : Has(outq, h)' <=> Has(outq, h)
  BY DEF Owners, Once, Has
<1>4. ASSUME NEW h \in Handles PROVE Owner(h)'
  <2>1. Owner(h)
    BY DEF Owners
  <2> QED BY <1>1, <1>2, <1>3, <2>1 DEF Owner
<1> QED BY <1>3, <1>4 DEF Owners

LEMMA OwnersAnswer ==
    ASSUME Typed, Owners, Open \/ Close \/ Other, UNCHANGED <<answers, outq, requests, handled, mine>>
    PROVE  Owners'
<1>1. PICK op \in Ops, g \in Handles \cup {NoHandle} : Takes(op) /\ Answers(g) /\
          \/ op = "open" /\ g # NoHandle /\ g \notin used /\ used' = used \cup {g}
          \/ op # "close" /\ g = NoHandle /\ used' = used
          \/ op = "close" /\ g = NoHandle /\ used' = used \ {requests[handled + 1].h}
  BY SftpSessionAssumption DEF Open, Close, Other, Ops
<1>2. /\ Live /\ at = "drain" /\ at' = "reply" /\ reply'.h = g /\ handled + 1 \in 1..Len(requests)
      /\ requests[handled + 1].op = op /\ handled \in Nat /\ NoHandle \notin Handles
  BY <1>1, SftpSessionAssumption DEF Takes, Answers, Serving, Live, Whole, Typed
<1> DEFINE c == handled + 1
<1>3. Taken = handled /\ Taken' = c
  BY <1>2 DEF Taken
<1>4. \A h, k : Asked(h, k)' <=> Asked(h, k) /\ k # c
  BY <1>2, <1>3 DEF Asked
<1>5. \A h : Asked(h, c) <=> requests[c] = [op |-> "close", h |-> h]
  BY <1>2, <1>3 DEF Asked
<1>6. requests[c] = [op |-> op, h |-> requests[c].h]
  <2>1. requests[c] \in Request
    BY <1>2 DEF Typed
  <2> QED BY <1>2, <2>1 DEF Request
<1>7. Once(outq)' /\ \A h : Has(outq, h)' <=> Has(outq, h)
  BY <1>2 DEF Owners, Once, Has
<1>8. \A h : (Told(h)' <=> g = h) /\ ~Told(h)
  BY <1>2 DEF Told
<1> HIDE DEF c
<1>9. c \in Nat
  BY <1>2 DEF c
<1>10. ASSUME NEW h \in Handles PROVE Owner(h)'
  <2>1. Owner(h) /\ h # NoHandle
    BY <1>2 DEF Owners
  <2>2. Pending(h)' => Pending(h)
    BY <1>4 DEF Pending
  <2>3. \A k, l \in Nat : Asked(h, k)' /\ Asked(h, l)' => k = l
    BY <1>4, <2>1 DEF Owner
  <2>4. CASE ~Asked(h, c)
    <3>1. Pending(h)' <=> Pending(h)
      BY <1>4, <2>4 DEF Pending
    <3>2. op = "close" => requests[c].h # h
      BY <1>5, <1>6, <2>4
    <3>3. h \in used' <=> h \in used \/ g = h
      BY <1>1, <2>1, <3>2 DEF c
    <3>4. g = h => h \notin used
      BY <1>1, <2>1
    <3> QED BY <1>7, <1>8, <2>1, <2>3, <3>1, <3>3, <3>4 DEF Owner
  <2>5. CASE Asked(h, c)
    <3>1. op = "close" /\ requests[c].h = h
      <4>1. requests[c] = [op |-> "close", h |-> h]
        BY <1>5, <2>5
      <4>2. requests[c].op = op
        BY <1>2 DEF c
      <4> QED BY <4>1, <4>2
    <3>2. h \notin used' /\ g = NoHandle
      BY <1>1, <3>1 DEF c
    <3>3. ~Pending(h)'
      BY <1>4, <1>9, <2>1, <2>5 DEF Pending, Owner
    <3>4. h \notin mine /\ ~Has(outq, h)
      BY <1>9, <2>1, <2>5 DEF Pending, Owner
    <3> QED BY <1>7, <1>8, <2>1, <2>3, <3>2, <3>3, <3>4 DEF Owner
  <2> QED BY <2>4, <2>5
<1> QED BY <1>7, <1>10 DEF Owners

LEMMA OwnersSend ==
    ASSUME Typed, Owners, Live, UNCHANGED <<requests, used, mine>>, at = "reply",
           NEW p \in Packet, outq' = Append(outq, p), p.h = reply.h,
           reply.h # NoHandle => at' = "drain",
           IF at' = "reply" THEN UNCHANGED <<handled, reply>> ELSE handled' = handled + 1
    PROVE  Owners'
<1>1. Taken' = Taken
  BY DEF Taken
<1>2. \A h : (\A k : Asked(h, k)' <=> Asked(h, k)) /\ (Pending(h)' <=> Pending(h))
  BY <1>1, AskedSame DEF Pending
<1>3. NoHandle \notin Handles /\ outq \in Seq(Packet)
  BY SftpSessionAssumption DEF Typed
<1>4. Once(outq) /\ \A h \in Handles : Owner(h)
  BY DEF Owners
<1>5. p.h \in Handles => ~Has(outq, p.h)
  BY <1>4 DEF Owner, Told
<1>6. \A h \in Handles : Has(Append(outq, p), h) <=> Has(outq, h) \/ p.h = h
  BY <1>3, AppendNamed
<1>7. Once(Append(outq, p))
  BY <1>3, <1>4, <1>5, AppendNamed
<1>8. Once(outq)' /\ \A h \in Handles : Has(outq, h)' <=> Has(outq, h) \/ reply.h = h
  BY <1>6, <1>7 DEF Once, Has
<1>9. ASSUME NEW h \in Handles PROVE Owner(h)'
  <2>1. Owner(h) /\ h # NoHandle
    BY <1>3, <1>4
  <2>2. Told(h) <=> reply.h = h
    BY DEF Told
  <2>3. ~Told(h)'
    BY <2>1 DEF Told
  <2> QED BY <1>2, <1>8, <2>1, <2>2, <2>3 DEF Owner
<1> QED BY <1>8, <1>9 DEF Owners

LEMMA OwnersAsk ==
    ASSUME Typed, Replying, Owners, Live, NEW op \in Ops, NEW g \in Handles \cup {NoHandle},
           IF op = "open" THEN g = NoHandle ELSE g \in mine,
           mine' = IF op = "close" THEN mine \ {g} ELSE mine,
           UNCHANGED <<outq, used, reply, at, handled>>,
           Len(requests') = Len(requests) + 1, \A i \in 1..Len(requests) : requests'[i] = requests[i],
           requests'[Len(requests) + 1] = [op |-> op, h |-> g]
    PROVE  Owners'
<1> DEFINE n == Len(requests) + 1
<1>1. Taken' = Taken /\ n > Taken /\ n \in Nat /\ Taken \in Nat
  <2>1. Len(requests) \in Nat /\ handled \in Nat /\ handled <= Len(requests)
    BY DEF Typed
  <2> QED BY <2>1 DEF Taken, Replying
<1>2. \A h, k : Asked(h, k)' <=> Asked(h, k) \/ (k = n /\ op = "close" /\ g = h)
  <2>1. \A k : k \in 1..Len(requests') <=> k \in 1..Len(requests) \/ k = n
    BY <1>1
  <2>2. n \notin 1..Len(requests)
    BY <1>1
  <2>3. \A h : [op |-> op, h |-> g] = [op |-> "close", h |-> h] <=> op = "close" /\ g = h
    OBVIOUS
  <2> QED BY <1>1, <2>1, <2>2, <2>3 DEF Asked
<1>3. \A h : ~Asked(h, n)
  BY <1>1 DEF Asked
<1> HIDE DEF n
<1>4. \A h : Pending(h)' <=> Pending(h) \/ (op = "close" /\ g = h)
  BY <1>1, <1>2 DEF Pending
<1>5. Once(outq)' /\ \A h : (Has(outq, h)' <=> Has(outq, h)) /\ (Told(h)' <=> Told(h))
  BY DEF Owners, Once, Has, Told
<1>6. ASSUME NEW h \in Handles PROVE Owner(h)'
  <2>1. Owner(h)
    BY DEF Owners
  <2>2. CASE op = "close" /\ g = h
    <3>1. h \in mine /\ h \notin mine' /\ ~Pending(h) /\ Pending(h)'
      BY <1>4, <2>1, <2>2 DEF Owner
    <3>2. \A k \in Nat : Asked(h, k)' => k = n
      BY <1>2, <3>1 DEF Pending
    <3> QED BY <1>5, <2>1, <3>1, <3>2 DEF Owner
  <2>3. CASE ~(op = "close" /\ g = h)
    <3>1. (h \in mine' <=> h \in mine) /\ (Pending(h)' <=> Pending(h))
      BY <1>4, <2>3
    <3>2. \A k : Asked(h, k)' <=> Asked(h, k)
      BY <1>2, <2>3
    <3> QED BY <1>5, <2>1, <3>1, <3>2 DEF Owner
  <2> QED BY <2>2, <2>3
<1> QED BY <1>5, <1>6 DEF Owners

LEMMA OwnersGet ==
    ASSUME Typed, Owners, Live, UNCHANGED <<requests, used, reply, at, handled>>,
           outq # <<>>, outq' = Tail(outq), mine' = mine \cup ({Head(outq).h} \ {NoHandle})
    PROVE  Owners'
<1>1. \A h : (\A k : Asked(h, k)' <=> Asked(h, k)) /\ (Pending(h)' <=> Pending(h))
  <2>1. Taken' = Taken
    BY DEF Taken
  <2> QED BY <2>1, AskedSame DEF Pending
<1>2. NoHandle \notin Handles /\ outq \in Seq(Packet) /\ Once(outq)
  BY SftpSessionAssumption DEF Typed, Owners
<1>3. /\ \A h \in Handles : Has(outq, h) <=> Has(Tail(outq), h) \/ Head(outq).h = h
      /\ Once(Tail(outq)) /\ (Head(outq).h # NoHandle => ~Has(Tail(outq), Head(outq).h))
  BY <1>2, TailNamed
<1>4. Once(outq)' /\ \A h : (Has(outq, h)' <=> Has(Tail(outq), h)) /\ (Told(h)' <=> Told(h))
  BY <1>3 DEF Once, Has, Told
<1>5. ASSUME NEW h \in Handles PROVE Owner(h)'
  <2>1. Owner(h) /\ h # NoHandle
    BY <1>2 DEF Owners
  <2>2. h \in mine' <=> h \in mine \/ Head(outq).h = h
    BY <2>1
  <2> QED BY <1>1, <1>3, <1>4, <2>1, <2>2 DEF Owner
<1> QED BY <1>4, <1>5 DEF Owners

-----------------------------------------------------------------------------
(* Windows.                                                                *)

\* What a packet of a queue counts for.
Counts(p, t) == IF p.t = t THEN p.n ELSE 0
Weight(t) == [p \in Packet |-> Counts(p, t)]

LEMMA UnderIs ==
    ASSUME NEW t
    PROVE  Weight(t) \in [Packet -> Nat] /\ \A q \in Seq(Packet) : Under(q, t) = Weigh(q, Weight(t))
<1>1. Weight(t) \in [Packet -> Nat]
  <2>1. \A p \in Packet : Counts(p, t) \in Nat
    BY DEF Counts, Packet
  <2> QED BY <2>1 DEF Weight
<1>2. ASSUME NEW q \in Seq(Packet) PROVE Under(q, t) = Weigh(q, Weight(t))
  <2>1. \A i \in 1..Len(q) : q[i] \in Packet
    BY QueueFacts
  <2>2. Weights(q, Weight(t)) = [i \in 1..Len(q) |-> IF q[i].t = t THEN q[i].n ELSE 0]
    BY <2>1 DEF Weights, Weight, Counts
  <2> QED BY <2>2 DEF Under, Weigh
<1> QED BY <1>1, <1>2

LEMMA UnderNat == ASSUME NEW q \in Seq(Packet), NEW t PROVE Under(q, t) \in Nat
BY UnderIs, WeighNat

LEMMA UnderEmpty == ASSUME NEW t PROVE Under(<<>>, t) = 0
<1>1. <<>> \in Seq(Packet)
  OBVIOUS
<1> QED BY <1>1, UnderIs, WeighEmpty

LEMMA UnderAppend ==
    ASSUME NEW q \in Seq(Packet), NEW p \in Packet, NEW t
    PROVE  Under(Append(q, p), t) = Under(q, t) + Counts(p, t)
<1>1. Append(q, p) \in Seq(Packet) /\ Weight(t)[p] = Counts(p, t)
  BY QueueFacts DEF Weight
<1>2. Weigh(Append(q, p), Weight(t)) = Weigh(q, Weight(t)) + Weight(t)[p]
  BY UnderIs, WeighAppend
<1> QED BY <1>1, <1>2, UnderIs

LEMMA UnderTail ==
    ASSUME NEW q \in Seq(Packet), q # <<>>, NEW t
    PROVE  Under(q, t) = Counts(Head(q), t) + Under(Tail(q), t)
<1>1. Tail(q) \in Seq(Packet) /\ Weight(t)[Head(q)] = Counts(Head(q), t)
  BY QueueFacts DEF Weight
<1>2. Weigh(q, Weight(t)) = Weight(t)[Head(q)] + Weigh(Tail(q), Weight(t))
  BY UnderIs, WeighTail
<1> QED BY <1>1, <1>2, UnderIs

LEMMA UnderMark ==
    ASSUME NEW q \in Seq(Packet), NEW m \in {"eof", "close"}, NEW t \in {"data", "adjust"}
    PROVE  Under(Append(q, Mark(m)), t) = Under(q, t)
<1>1. Mark(m) \in Packet /\ Counts(Mark(m), t) = 0
  BY DEF Mark, Packet, Counts
<1> QED BY <1>1, UnderAppend, UnderNat

LEMMA UnderTailMark ==
    ASSUME NEW q \in Seq(Packet), q # <<>>, Head(q).t \in {"eof", "close"},
           NEW t \in {"data", "adjust"}
    PROVE  Under(Tail(q), t) = Under(q, t)
<1>1. Tail(q) \in Seq(Packet)
  BY QueueFacts
<1>2. Under(Tail(q), t) \in Nat /\ Counts(Head(q), t) = 0
  BY <1>1, UnderNat DEF Counts
<1> QED BY <1>2, UnderTail

\* What an invariant of the windows has to say besides: the client asks for no more than it may,
\* and the requests the server has taken are in its buffer.
Bounded ==
    /\ phase \in {"login", "serving", "refused", "stopped", "left", "flooded", "closed"}
    /\ s_stop \in BOOLEAN /\ chan_closed \in BOOLEAN /\ client_eof \in BOOLEAN
    /\ overtaken \in BOOLEAN /\ sent \in Nat
    /\ Len(requests) <= MaxRequests /\ reply.id <= MaxRequests /\ left <= 2
    /\ part <= 1 /\ \A i \in 1..Len(answers) : answers[i].id <= MaxRequests
Buffered ==
    sftp_in_len \in 0..Buffer /\ (Live /\ at = "reply" => sftp_in_len >= NextSize)

\* What is under way is counted by both sides, and the server has always given half its window.
Balanced ==
    /\ our_window = may + Under(inq, "data") + Under(outq, "adjust")
    /\ ClientWindow = client_window + Under(outq, "data") + owed + Under(inq, "adjust")
    /\ our_window <= 2 * OurWindow /\ 2 * our_window >= OurWindow
Limited ==
    /\ our_window \in 0..2 * OurWindow /\ may \in 0..2 * OurWindow
    /\ client_window \in 0..ClientWindow /\ owed \in 0..ClientWindow
Windows == IF Live THEN Balanced ELSE Limited

\* All the numbers of the windows.
LEMMA Numbers ==
    ASSUME Typed
    PROVE  /\ may \in Nat /\ owed \in Nat /\ client_window \in Nat
           /\ OurWindow \in Nat \ {0} /\ ClientWindow \in Nat \ {0} /\ MaxPacket \in Nat
           /\ Under(inq, "data") \in Nat /\ Under(inq, "adjust") \in Nat
           /\ Under(outq, "data") \in Nat /\ Under(outq, "adjust") \in Nat
<1>1. inq \in Seq(Packet) /\ outq \in Seq(Packet)
  BY DEF Typed
<1>2. \A t : Under(inq, t) \in Nat /\ Under(outq, t) \in Nat
  BY <1>1, UnderNat
<1> QED BY <1>2, SftpSessionAssumption DEF Typed

LEMMA NumbersNext ==
    ASSUME Typed'
    PROVE  /\ may' \in Nat /\ owed' \in Nat /\ client_window' \in Nat
           /\ Under(inq', "data") \in Nat /\ Under(inq', "adjust") \in Nat
           /\ Under(outq', "data") \in Nat /\ Under(outq', "adjust") \in Nat
<1>1. inq' \in Seq(Packet) /\ outq' \in Seq(Packet)
  BY DEF Typed
<1>2. \A t : Under(inq', t) \in Nat /\ Under(outq', t) \in Nat
  BY <1>1, UnderNat
<1> QED BY <1>2 DEF Typed

LEMMA WindowsBy == ASSUME Typed', Balanced' PROVE Windows'
<1>1. Limited'
  BY NumbersNext, SftpSessionAssumption DEF Balanced, Limited
<1> QED BY <1>1 DEF Windows

\* The steps that neither use room nor give it.
LEMMA WindowsSame ==
    ASSUME Typed, Typed', Live, Windows,
           \/ Login \/ Stop \/ Nothing \/ Open \/ Close \/ Other \/ SaysEof \/ ReadEof \/ GetsClose
           \/ \E op \in Ops, h \in Handles \cup {NoHandle} : Ask(op, h)
    PROVE  Windows'
<1> DEFINE T == {"data", "adjust"}
<1>1. inq \in Seq(Packet) /\ outq \in Seq(Packet)
  BY DEF Typed
<1>2. UNCHANGED <<our_window, client_window, may, owed>>
  BY DEF Login, Stop, Nothing, Open, Close, Other, Answers, SaysEof, ReadEof, GetsClose, Ask,
         server, client
<1>3. ASSUME NEW t \in T PROVE Under(inq', t) = Under(inq, t) /\ Under(outq', t) = Under(outq, t)
  <2>1. CASE \/ Login \/ Stop \/ Nothing \/ Open \/ Close \/ Other
             \/ \E op \in Ops, h \in Handles \cup {NoHandle} : Ask(op, h)
    BY <2>1 DEF Login, Stop, Nothing, Open, Close, Other, Answers, Ask
  <2>2. CASE SaysEof
    BY <1>1, <2>2, UnderMark DEF SaysEof
  <2>3. CASE ReadEof
    <3>1. inq # <<>> /\ Head(inq).t = "eof" /\ inq' = Tail(inq)
          /\ outq' = IF chan_closed THEN outq ELSE outq \o <<Mark("eof"), Mark("close")>>
      BY <2>3 DEF ReadEof, Reads, Comes
    <3>2. Under(inq, t) = Under(inq', t)
      BY <1>1, <3>1, UnderTailMark
    <3>3. Append(outq, Mark("eof")) \in Seq(Packet)
      BY <1>1, PacketFacts
    <3>4. outq \o <<Mark("eof"), Mark("close")>> = Append(Append(outq, Mark("eof")), Mark("close"))
      BY <1>1, PacketFacts, AppendTwo
    <3>5. Under(Append(Append(outq, Mark("eof")), Mark("close")), t) = Under(outq, t)
      BY <1>1, <3>3, UnderMark
    <3> QED BY <3>1, <3>2, <3>4, <3>5
  <2>4. CASE GetsClose
    <3>1. outq # <<>> /\ Head(outq).t \in {"eof", "close"} /\ outq' = Tail(outq)
          /\ inq' = IF Head(outq).t = "close" THEN Append(inq, Mark("close")) ELSE inq
      BY <2>4 DEF GetsClose
    <3>2. Under(outq, t) = Under(outq', t)
      BY <1>1, <3>1, UnderTailMark
    <3>3. Under(inq', t) = Under(inq, t)
      BY <1>1, <3>1, UnderMark
    <3> QED BY <3>2, <3>3
  <2> QED BY <2>1, <2>2, <2>3, <2>4
<1>4. Balanced'
  BY <1>2, <1>3 DEF Windows, Balanced
<1> QED BY <1>4, WindowsBy

\* The steps that use room, or give it.
LEMMA WindowsReadData ==
    ASSUME Typed, Typed', Live, Windows, ReadData
    PROVE  Windows'
<1>1. inq \in Seq(Packet) /\ outq \in Seq(Packet)
  BY DEF Typed
<1> DEFINE n == Head(inq).n
<1>2. n \in Nat /\ GivesRoom(our_window - n) /\ UNCHANGED <<client_window, may, owed>>
  BY <1>1, QueueFacts DEF ReadData, Reads, Comes, client, Packet
<1>3. Under(inq, "data") = n + Under(inq', "data") /\ Under(inq, "adjust") = Under(inq', "adjust")
  <2>1. Under(inq', "adjust") \in Nat
    BY NumbersNext
  <2>2. inq # <<>> /\ Head(inq).t = "data" /\ inq' = Tail(inq)
    BY DEF ReadData, Reads, Comes
  <2> QED BY <1>1, <2>1, <2>2, UnderTail DEF Counts
<1> HIDE DEF n
<1>4. CASE 2 * (our_window - n) < OurWindow
  <2>1. our_window' = our_window - n + OurWindow /\ outq' = Append(outq, Adjust(OurWindow))
    BY <1>2, <1>4 DEF GivesRoom
  <2>2. Adjust(OurWindow) \in Packet /\ Counts(Adjust(OurWindow), "adjust") = OurWindow
        /\ Counts(Adjust(OurWindow), "data") = 0
    BY Numbers, PacketFacts DEF Adjust, Counts
  <2>3. Under(outq', "adjust") = Under(outq, "adjust") + OurWindow
        /\ Under(outq', "data") = Under(outq, "data")
    BY <1>1, <2>1, <2>2, UnderAppend, Numbers
  <2>4. our_window' = our_window - n + OurWindow
    BY <2>1
  <2>5. Balanced'
    BY <1>2, <1>3, <1>4, <2>3, <2>4, Numbers, NumbersNext DEF Windows, Balanced
  <2> QED BY <2>5, WindowsBy
<1>5. CASE ~(2 * (our_window - n) < OurWindow)
  <2>1. our_window' = our_window - n /\ outq' = outq
    BY <1>2, <1>5 DEF GivesRoom
  <2>2. Balanced'
    BY <1>2, <1>3, <1>5, <2>1, Numbers, NumbersNext DEF Windows, Balanced
  <2> QED BY <2>2, WindowsBy
<1> QED BY <1>4, <1>5

LEMMA WindowsReadAdjust ==
    ASSUME Typed, Typed', Live, Windows, ReadAdjust
    PROVE  Windows'
<1>1. inq \in Seq(Packet) /\ outq \in Seq(Packet)
  BY DEF Typed
<1> DEFINE n == Head(inq).n
<1>2. n \in Nat /\ client_window' = client_window + n /\ UNCHANGED <<outq, our_window, may, owed>>
  BY <1>1, QueueFacts DEF ReadAdjust, Reads, Comes, client, Packet
<1>3. Under(inq, "adjust") = n + Under(inq', "adjust") /\ Under(inq, "data") = Under(inq', "data")
  <2>1. Under(inq', "data") \in Nat
    BY NumbersNext
  <2>2. inq # <<>> /\ Head(inq).t = "adjust" /\ inq' = Tail(inq)
    BY DEF ReadAdjust, Reads, Comes
  <2> QED BY <1>1, <2>1, <2>2, UnderTail DEF Counts
<1> HIDE DEF n
<1>4. Balanced'
  BY <1>2, <1>3, Numbers, NumbersNext DEF Windows, Balanced
<1> QED BY <1>4, WindowsBy

LEMMA WindowsSend ==
    ASSUME Typed, Typed', Live, Windows, left > 0, SendChunk
    PROVE  Windows'
<1>1. outq \in Seq(Packet) /\ reply \in [id : Nat, h : Handles \cup {NoHandle}]
  BY DEF Typed
<1> DEFINE n == Min({left, client_window, MaxPacket})
           p == [t |-> "data", n |-> n, id |-> reply.id, h |-> reply.h]
<1>2. n \in Nat /\ n <= client_window /\ client_window > 0
  <2>1. client_window > 0
    BY DEF SendChunk, Typed
  <2>2. n \in 1..left /\ n <= client_window
    BY <2>1, ChunkIs
  <2>3. left \in Nat
    BY DEF Typed
  <2> HIDE DEF n
  <2> QED BY <2>1, <2>2, <2>3
<1>3. outq' = Append(outq, p) /\ client_window' = client_window - n
      /\ UNCHANGED <<inq, our_window, may, owed>>
  BY DEF SendChunk, client
<1> HIDE DEF n
<1>4. p \in Packet /\ Counts(p, "data") = n /\ Counts(p, "adjust") = 0
  BY <1>1, <1>2 DEF Packet, Counts
<1>5. Under(outq', "data") = Under(outq, "data") + n /\ Under(outq', "adjust") = Under(outq, "adjust")
  <2> HIDE DEF p
  <2> QED BY <1>1, <1>3, <1>4, UnderAppend, Numbers
<1>6. Balanced'
  BY <1>2, <1>3, <1>5, Numbers, NumbersNext DEF Windows, Balanced
<1> QED BY <1>6, WindowsBy

LEMMA WindowsClient ==
    ASSUME Typed, Typed', Live, Windows, Sends \/ GivesBack \/ GetsData \/ GetsRoom
    PROVE  Windows'
<1>1. inq \in Seq(Packet) /\ outq \in Seq(Packet)
  BY DEF Typed
<1>2. CASE Sends
  <2>1. PICK n \in 1..MaxPacket : n <= may /\ may' = may - n /\ inq' = Append(inq, Data(n))
                                  /\ UNCHANGED <<outq, our_window, client_window, owed>>
    BY <1>2 DEF Sends, server
  <2>2. n \in Nat /\ Data(n) \in Packet /\ Counts(Data(n), "data") = n
        /\ Counts(Data(n), "adjust") = 0
    BY PacketFacts, Numbers DEF Data, Counts
  <2>3. Under(inq', "data") = Under(inq, "data") + n
        /\ Under(inq', "adjust") = Under(inq, "adjust")
    BY SMTT(30), <1>1, <2>1, <2>2, UnderAppend, Numbers
  <2>4. Balanced'
    BY SMTT(30), <2>1, <2>2, <2>3, Numbers, NumbersNext DEF Windows, Balanced
  <2> QED BY <2>4, WindowsBy
<1>3. CASE GivesBack
  <2>1. owed' = 0 /\ inq' = Append(inq, Adjust(owed))
        /\ UNCHANGED <<outq, our_window, client_window, may>>
    BY <1>3 DEF GivesBack, server
  <2>2. Adjust(owed) \in Packet /\ Counts(Adjust(owed), "data") = 0
        /\ Counts(Adjust(owed), "adjust") = owed
    BY PacketFacts, Numbers DEF Adjust, Counts
  <2>3. Under(inq', "data") = Under(inq, "data")
        /\ Under(inq', "adjust") = Under(inq, "adjust") + owed
    BY <1>1, <2>1, <2>2, UnderAppend, Numbers
  <2>4. Balanced'
    BY SMTT(30), <2>1, <2>3, Numbers, NumbersNext DEF Windows, Balanced
  <2> QED BY <2>4, WindowsBy
<1>4. CASE GetsData
  <2> DEFINE n == Head(outq).n
  <2>1. n \in Nat /\ owed' = owed + n /\ UNCHANGED <<inq, our_window, client_window, may>>
    BY <1>1, <1>4, QueueFacts DEF GetsData, server, Packet
  <2>2. Under(outq, "data") = n + Under(outq', "data")
        /\ Under(outq, "adjust") = Under(outq', "adjust")
    <3>1. Under(outq', "adjust") \in Nat
      BY NumbersNext
    <3>2. outq # <<>> /\ Head(outq).t = "data" /\ outq' = Tail(outq)
      BY <1>4 DEF GetsData
    <3> QED BY <1>1, <3>1, <3>2, UnderTail DEF Counts
  <2> HIDE DEF n
  <2>3. Balanced'
    BY <2>1, <2>2, Numbers, NumbersNext DEF Windows, Balanced
  <2> QED BY <2>3, WindowsBy
<1>5. CASE GetsRoom
  <2> DEFINE n == Head(outq).n
  <2>1. n \in Nat /\ may' = may + n /\ UNCHANGED <<inq, our_window, client_window, owed>>
    BY <1>1, <1>5, QueueFacts DEF GetsRoom, server, Packet
  <2>2. Under(outq, "adjust") = n + Under(outq', "adjust")
        /\ Under(outq, "data") = Under(outq', "data")
    <3>1. Under(outq', "data") \in Nat
      BY NumbersNext
    <3>2. outq # <<>> /\ Head(outq).t = "adjust" /\ outq' = Tail(outq)
      BY <1>5 DEF GetsRoom
    <3> QED BY <1>1, <3>1, <3>2, UnderTail DEF Counts
  <2> HIDE DEF n
  <2>3. Balanced'
    BY <2>1, <2>2, Numbers, NumbersNext DEF Windows, Balanced
  <2> QED BY <2>3, WindowsBy
<1> QED BY <1>2, <1>3, <1>4, <1>5

-----------------------------------------------------------------------------
(* Bounds, and the buffer.                                                 *)

LEMMA NextSizeIs == NextSize \in {1, 2} /\ NextSize' \in {1, 2}
BY DEF NextSize, RequestSize

\* What the client gets belongs to a request, and is no more than its reply.
LEMMA GotIs ==
    ASSUME Typed, NoGap, GetsData
    PROVE  LET p == Head(outq)
           IN  p.id \in 1..Len(requests) /\ p.n \in Nat /\ part + p.n <= Size(p.id)
<1> DEFINE p == Head(outq)
<1>1. outq \in Seq(Packet) /\ outq # <<>> /\ p.t = "data" /\ Live
  BY DEF Typed, GetsData, Serving, Live
<1>2. Len(outq) > 0 /\ Len(outq) \in Nat /\ p = outq[1] /\ p.n \in Nat
  BY <1>1, QueueFacts DEF Packet
<1>3. PICK id, off \in [1..Len(outq) + 1 -> Nat] : Leads(outq, id, off)
  BY <1>1 DEF NoGap, NoGapIn
<1>4. Joins(p, id[1], off[1], id[2], off[2]) /\ off[1] = part
  BY <1>2, <1>3 DEF Leads
<1> HIDE DEF p
<1>5. p.id \in 1..Len(requests) /\ part + p.n <= Size(p.id)
  BY <1>1, <1>4 DEF Joins
<1> QED BY <1>2, <1>5 DEF p

LEMMA BoundsKept ==
    ASSUME Typed, Typed', NoGap, Bounded, Next
    PROVE  Bounded'
<1>1. phase' \in {"login", "serving", "refused", "stopped", "left", "flooded", "closed"}
  BY DEF Next, Server, Client, Over, Login, Stop, Stops, ReadData, ReadTooMuch, ReadAdjust, ReadEof,
         ReadClose, Nothing, Open, Close, Other, SendChunk, Sends, GivesBack, GetsData, GetsRoom,
         GetsClose, Idle, SaysEof, Leaves, Ask, Ends, Answers, Reads, server, client, vars, Bounded
<1>2. s_stop' \in BOOLEAN /\ chan_closed' \in BOOLEAN /\ client_eof' \in BOOLEAN
      /\ overtaken' \in BOOLEAN
  <2>1. CASE ReadEof
    BY <2>1 DEF ReadEof, client, Bounded
  <2>2. CASE ~ReadEof
    <3>1. s_stop' \in BOOLEAN /\ chan_closed' \in BOOLEAN
      BY <2>2 DEF Next, Server, Client, Over, Login, Stop, Stops, ReadData, ReadTooMuch, ReadAdjust,
                  ReadEof, ReadClose, Nothing, Open, Close, Other, SendChunk, Sends, GivesBack,
                  GetsData, GetsRoom, GetsClose, Idle, SaysEof, Leaves, Ask, Ends, Answers, Reads,
                  server, client, vars, Bounded
    <3>2. client_eof' \in BOOLEAN /\ overtaken' \in BOOLEAN
      BY <2>2 DEF Next, Server, Client, Over, Login, Stop, Stops, ReadData, ReadTooMuch, ReadAdjust,
                  ReadEof, ReadClose, Nothing, Open, Close, Other, SendChunk, Sends, GivesBack,
                  GetsData, GetsRoom, GetsClose, Idle, SaysEof, Leaves, Ask, Ends, Answers, Reads,
                  server, client, vars, Bounded
    <3> QED BY <3>1, <3>2
  <2> QED BY <2>1, <2>2
<1>3. sent' \in Nat
  <2>1. CASE Sends
    <3>1. PICK n \in 1..MaxPacket : sent' = sent + n
      BY <2>1 DEF Sends
    <3> QED BY <3>1, Numbers DEF Bounded
  <2>2. CASE ~Sends
    <3>1. UNCHANGED sent
      BY <2>2 DEF Next, Server, Client, Over, Login, Stop, Stops, ReadData, ReadTooMuch, ReadAdjust,
                  ReadEof, ReadClose, Nothing, Open, Close, Other, SendChunk, GivesBack, GetsData,
                  GetsRoom, GetsClose, Idle, SaysEof, Leaves, Ask, Ends, Answers, Reads, server,
                  client, vars, Bounded
    <3> QED BY <3>1 DEF Bounded
  <2> QED BY <2>1, <2>2
<1>4. Len(requests') <= MaxRequests
  <2>1. CASE \E op \in Ops, h \in Handles \cup {NoHandle} : Ask(op, h)
    BY <2>1, SftpSessionAssumption DEF Ask, Typed
  <2>2. CASE ~\E op \in Ops, h \in Handles \cup {NoHandle} : Ask(op, h)
    <3>1. UNCHANGED requests
      BY <2>2 DEF Next, Server, Client, Over, Login, Stop, Stops, ReadData, ReadTooMuch, ReadAdjust,
                  ReadEof, ReadClose, Nothing, Open, Close, Other, SendChunk, Sends, GivesBack,
                  GetsData, GetsRoom, GetsClose, Idle, SaysEof, Leaves, Ends, Answers, Reads,
                  server, client, vars, Bounded
    <3> QED BY <3>1 DEF Bounded
  <2> QED BY <2>1, <2>2
<1>5. reply'.id <= MaxRequests /\ left' <= 2
  <2>1. CASE Open \/ Close \/ Other
    <3>1. handled < Len(requests) /\ reply'.id = handled + 1 /\ left' \in {1, 2}
      BY <2>1 DEF Open, Close, Other, Takes, Whole, Answers, ReplySize
    <3> QED BY SMTT(30), <3>1, SftpSessionAssumption DEF Typed, Bounded
  <2>2. CASE SendChunk
    <3> DEFINE n == Min({left, client_window, MaxPacket})
    <3>1. left' = left - n /\ UNCHANGED reply
      BY <2>2 DEF SendChunk
    <3>2. left \in Nat /\ client_window \in Nat /\ MaxPacket \in Nat
      BY Numbers DEF Typed
    <3>3. n \in Nat
      BY <3>2, MinIs
    <3> HIDE DEF n
    <3> QED BY <3>1, <3>2, <3>3 DEF Bounded
  <2>3. CASE ~(Open \/ Close \/ Other \/ SendChunk)
    <3>1. UNCHANGED <<reply, left>> \/ (reply' = [id |-> 0, h |-> NoHandle] /\ left' = 0)
      BY <2>3 DEF Next, Server, Client, Over, Login, Stop, Stops, ReadData, ReadTooMuch, ReadAdjust,
                  ReadEof, ReadClose, Nothing, Open, Close, Other, SendChunk, Sends, GivesBack,
                  GetsData, GetsRoom, GetsClose, Idle, SaysEof, Leaves, Ask, Ends, Answers, Reads,
                  server, client, vars, Bounded
    <3> QED BY <3>1, SftpSessionAssumption DEF Bounded
  <2> QED BY <2>1, <2>2, <2>3
<1>6. part' <= 1 /\ \A i \in 1..Len(answers') : answers'[i].id <= MaxRequests
  <2>1. CASE GetsData
    <3> DEFINE p == Head(outq)
               size == ReplySize(requests[p.id].op)
               r == [id |-> p.id, h |-> p.h]
    <3>1. p.id \in 1..Len(requests) /\ p.n \in Nat /\ part + p.n <= size /\ size \in {1, 2}
      BY <2>1, GotIs DEF Size, ReplySize
    <3>2. /\ answers' = IF part + p.n = size THEN Append(answers, r) ELSE answers
          /\ part' = IF part + p.n = size THEN 0 ELSE part + p.n
      BY <2>1 DEF GetsData
    <3>3. r.id = p.id /\ r \in [id : Nat, h : Handles \cup {NoHandle}]
      <4>1. p \in Packet
        BY <2>1, QueueFacts DEF GetsData, Typed
      <4> HIDE DEF p
      <4> QED BY <4>1 DEF Packet
    <3> HIDE DEF p, size, r
    <3>4. Len(requests) \in Nat /\ part \in Nat
      BY DEF Typed
    <3>5. part' <= 1
      BY <3>1, <3>2, <3>4
    <3>6. r.id <= MaxRequests
      <4>1. Len(requests) <= MaxRequests /\ MaxRequests \in Nat
        BY SftpSessionAssumption DEF Bounded
      <4> QED BY <3>1, <3>3, <3>4, <4>1
    <3>7. \A i \in 1..Len(answers') : answers'[i].id <= MaxRequests
      <4>1. CASE UNCHANGED answers
        BY <4>1 DEF Bounded
      <4>2. CASE answers' = Append(answers, r)
        <5>1. answers \in Seq([id : Nat, h : Handles \cup {NoHandle}])
          BY DEF Typed
        <5>2. /\ Len(answers') = Len(answers) + 1 /\ answers'[Len(answers) + 1] = r
              /\ \A i \in 1..Len(answers) : answers'[i] = answers[i]
              /\ Len(answers) \in Nat
          BY <3>3, <4>2, <5>1
        <5>3. ASSUME NEW i \in 1..Len(answers') PROVE answers'[i].id <= MaxRequests
          <6>1. i \in 1..Len(answers) \/ i = Len(answers) + 1
            BY <5>2
          <6> QED BY <3>6, <5>2, <6>1 DEF Bounded
        <5> QED BY <5>3
      <4> QED BY <3>2, <4>1, <4>2
    <3> QED BY <3>5, <3>7
  <2>2. CASE ~GetsData
    <3>1. UNCHANGED <<part, answers>>
      BY <2>2 DEF Next, Server, Client, Over, Login, Stop, Stops, ReadData, ReadTooMuch, ReadAdjust,
                  ReadEof, ReadClose, Nothing, Open, Close, Other, SendChunk, Sends, GivesBack,
                  GetsRoom, GetsClose, Idle, SaysEof, Leaves, Ask, Ends, Answers, Reads, server,
                  client, vars, Bounded
    <3> QED BY <3>1 DEF Bounded
  <2> QED BY <2>1, <2>2
<1> QED BY <1>1, <1>2, <1>3, <1>4, <1>5, <1>6 DEF Bounded

LEMMA BufferKept ==
    ASSUME Typed, Typed', Replying, Buffered, Next
    PROVE  Buffered'
<1>1. sftp_in_len \in Nat /\ Buffer \in Nat
  BY SftpSessionAssumption DEF Buffered
<1>2. CASE Stops \/ ReadTooMuch \/ ReadClose \/ Idle \/ Leaves
  <2>1. sftp_in_len' = 0 /\ ~Live'
    BY <1>2 DEF Stops, ReadTooMuch, ReadClose, Idle, Leaves, Ends, Live
  <2> QED BY <1>1, <2>1 DEF Buffered
<1>3. CASE ReadData
  <2> DEFINE n == Head(inq).n
  <2>1. n \in Nat /\ sftp_in_len' = sftp_in_len + n /\ sftp_in_len + n <= Buffer
    BY <1>3, QueueFacts DEF ReadData, Reads, Comes, Fits, Typed, Packet
  <2>2. UNCHANGED <<phase, handled, requests>> /\ (at' = "reply" => at = "reply")
    BY <1>3 DEF ReadData, NextAt, client
  <2> HIDE DEF n
  <2>3. Live' /\ at' = "reply" => sftp_in_len' >= NextSize'
    BY <1>1, <2>1, <2>2, NextSizeIs DEF Buffered, Live, NextSize
  <2> QED BY <1>1, <2>1, <2>3 DEF Buffered
<1>4. CASE Open \/ Close \/ Other
  <2>1. sftp_in_len >= NextSize /\ UNCHANGED <<sftp_in_len, handled, requests>>
    BY <1>4 DEF Open, Close, Other, Takes, Whole, Answers, client
  <2>2. NextSize' = NextSize
    BY <2>1 DEF NextSize
  <2> QED BY <2>1, <2>2 DEF Buffered
<1>5. CASE SendChunk
  <2>1. at = "reply" /\ Live
    BY <1>5 DEF SendChunk, Serving, Live
  <2>2. \/ at' = "drain" /\ sftp_in_len' = sftp_in_len - NextSize
        \/ UNCHANGED <<phase, at, handled, requests, sftp_in_len>>
    BY <1>5 DEF SendChunk, client
  <2>3. CASE at' = "drain" /\ sftp_in_len' = sftp_in_len - NextSize
    BY <1>1, <2>1, <2>3, NextSizeIs DEF Buffered
  <2>4. CASE UNCHANGED <<phase, at, handled, requests, sftp_in_len>>
    BY <2>4 DEF Buffered, NextSize, Live
  <2> QED BY <2>2, <2>3, <2>4
<1>6. CASE \E op \in Ops, h \in Handles \cup {NoHandle} : Ask(op, h)
  <2>1. PICK op \in Ops, h \in Handles \cup {NoHandle} : Ask(op, h)
    BY <1>6
  <2>2. UNCHANGED <<phase, at, handled, sftp_in_len>> /\ requests' = Append(requests, [op |-> op, h |-> h])
    BY <2>1 DEF Ask, server
  <2>3. Live /\ at = "reply" => requests'[handled + 1] = requests[handled + 1]
    BY <2>2 DEF Replying, Typed
  <2>4. Live /\ at = "reply" => NextSize' = NextSize
    BY <2>2, <2>3 DEF NextSize
  <2> QED BY <2>2, <2>4 DEF Buffered, Live
<1>7. CASE \/ Login \/ Stop \/ ReadAdjust \/ ReadEof \/ Nothing \/ Client \/ SaysEof \/ Over
  <2>1. UNCHANGED <<handled, requests, sftp_in_len>> /\ (at' = "reply" => at = "reply")
    BY <1>7 DEF Login, Stop, ReadAdjust, ReadEof, Nothing, Client, Sends, GivesBack, GetsData,
                GetsRoom, GetsClose, SaysEof, Over, server, client, vars
  <2>2. Live' => Live
    BY <1>7 DEF Login, Stop, ReadAdjust, ReadEof, Nothing, Client, Sends, GivesBack, GetsData,
                GetsRoom, GetsClose, SaysEof, Over, Live, vars
  <2>3. NextSize' = NextSize
    BY <2>1 DEF NextSize
  <2> QED BY <2>1, <2>2, <2>3 DEF Buffered
<1> QED BY <1>2, <1>3, <1>4, <1>5, <1>6, <1>7 DEF Next, Server

-----------------------------------------------------------------------------
(* Theorems.                                                               *)

IInv == Typed /\ Replying /\ NoGap /\ AnswersInOrder /\ Owners

LEMMA InitOwners == Init => Owners
<1> SUFFICES ASSUME Init PROVE Owners
  OBVIOUS
<1>1. used = {} /\ mine = {} /\ at = "top" /\ Len(outq) = 0 /\ Len(requests) = 0
  BY DEF Init
<1>2. Once(outq) /\ \A h : ~Has(outq, h) /\ ~Told(h) /\ \A k : ~Asked(h, k)
  BY <1>1 DEF Once, Has, Told, Asked
<1> QED BY <1>1, <1>2 DEF Owners, Owner, Pending

LEMMA Steps == IInv /\ [Next]_vars => IInv'
<1> SUFFICES ASSUME IInv, [Next]_vars PROVE IInv'
  OBVIOUS
<1> USE DEF IInv
<1>1. CASE Login \/ Stop \/ ReadAdjust \/ Nothing \/ Sends \/ GivesBack \/ SaysEof
  <2>1. Quiet /\ Typed'
    BY <1>1, QuietSteps
  <2>2. Replying' /\ NoGap'
    BY <2>1, QuietKeeps
  <2>3. AnswersInOrder'
    BY <2>1 DEF Quiet, Stream, AnswersInOrder
  <2>4. Owners'
    BY <2>1, OwnersSame DEF Quiet, Stream
  <2> QED BY <2>1, <2>2, <2>3, <2>4
<1>2. CASE Stops \/ ReadTooMuch \/ ReadClose \/ Idle \/ Leaves
  <2>1. ~Live' /\ UNCHANGED answers /\ Typed'
    BY <1>2, EndSteps
  <2> QED BY <2>1 DEF Replying, NoGap, Owners, AnswersInOrder
<1>3. CASE ReadData \/ ReadEof \/ GetsRoom \/ GetsClose
  <2>1. Live
    BY <1>3 DEF ReadData, ReadEof, GetsRoom, GetsClose, Reads, Comes, Serving, Live
  <2>2. /\ Typed' /\ Replying' /\ NoGap'
        /\ UNCHANGED <<requests, answers, handled, used, reply, mine>>
        /\ (at' = "reply") <=> (at = "reply")
        /\ \A h \in Handles : Has(outq', h) <=> Has(outq, h)
        /\ Once(outq) => Once(outq')
    BY <1>3, EmptySteps
  <2>3. Owners' /\ AnswersInOrder'
    BY <2>1, <2>2, OwnersSame DEF AnswersInOrder
  <2> QED BY <2>2, <2>3
<1>4. CASE Open \/ Close \/ Other
  <2>1. Typed' /\ Replying' /\ NoGap' /\ UNCHANGED <<answers, outq, requests, handled, mine>>
    BY <1>4, AnswerSteps
  <2>2. Owners' /\ AnswersInOrder'
    BY <1>4, <2>1, OwnersAnswer DEF AnswersInOrder
  <2> QED BY <2>1, <2>2
<1>5. CASE SendChunk
  <2>1. Live
    BY <1>5 DEF SendChunk, Serving, Live
  <2>2. /\ Typed' /\ Replying' /\ NoGap' /\ UNCHANGED <<answers, requests, used, mine>>
        /\ at = "reply" /\ (reply.h # NoHandle => at' = "drain")
        /\ IF at' = "reply" THEN UNCHANGED <<handled, reply>> ELSE handled' = handled + 1
    BY <1>5, SendSteps
  <2>3. PICK p \in Packet : outq' = Append(outq, p) /\ p.h = reply.h
    BY <1>5, SendSteps
  <2>4. Owners' /\ AnswersInOrder'
    BY <2>1, <2>2, <2>3, OwnersSend DEF AnswersInOrder
  <2> QED BY <2>2, <2>4
<1>6. ASSUME NEW op \in Ops, NEW h \in Handles \cup {NoHandle}, Ask(op, h) PROVE IInv'
  <2>1. /\ Live /\ (IF op = "open" THEN h = NoHandle ELSE h \in mine)
        /\ mine' = IF op = "close" THEN mine \ {h} ELSE mine
    BY <1>6 DEF Ask, Serving, Live
  <2>2. /\ Typed' /\ Replying' /\ NoGap' /\ UNCHANGED <<answers, outq, used, reply, at, handled>>
        /\ Len(requests') = Len(requests) + 1
        /\ \A i \in 1..Len(requests) : requests'[i] = requests[i]
        /\ requests'[Len(requests) + 1] = [op |-> op, h |-> h]
    BY <1>6, AskSteps
  <2>3. Owners' /\ AnswersInOrder'
    BY <2>1, <2>2, OwnersAsk DEF AnswersInOrder
  <2> QED BY <2>2, <2>3
<1>7. CASE GetsData
  <2>1. Live
    BY <1>7 DEF GetsData, Serving, Live
  <2>2. /\ Typed' /\ Replying' /\ NoGap' /\ AnswersInOrder'
        /\ UNCHANGED <<requests, used, reply, at, handled>>
        /\ outq # <<>> /\ outq' = Tail(outq)
        /\ mine' = mine \cup ({Head(outq).h} \ {NoHandle})
    BY <1>7, GetSteps
  <2>3. Owners'
    BY <2>1, <2>2, OwnersGet
  <2> QED BY <2>2, <2>3
<1>8. CASE UNCHANGED vars
  <2>1. UNCHANGED <<phase, at, inq, outq, client_window, requests, handled, used, mine, reply, left,
                    answers, part, may, owed>>
    BY <1>8 DEF vars, server, client
  <2>2. Typed' /\ AnswersInOrder'
    BY <2>1 DEF Typed, AnswersInOrder
  <2>3. CASE Live
    <3>1. Quiet
      BY <2>1, <2>3 DEF Quiet, Stream
    <3> QED BY <2>1, <2>2, <2>3, <3>1, QuietKeeps, OwnersSame
  <2>4. CASE ~Live
    BY <2>1, <2>2, <2>4 DEF Live, Replying, NoGap, Owners
  <2> QED BY <2>3, <2>4
<1> QED BY <1>1, <1>2, <1>3, <1>4, <1>5, <1>6, <1>7, <1>8 DEF Next, Server, Client, Over

LEMMA WindowSteps ==
    ASSUME IInv, IInv', Windows, Next
    PROVE  Windows'
<1>1. Typed /\ Typed'
  BY DEF IInv
<1>2. CASE ~Live
  <2>1. UNCHANGED vars
    BY <1>2 DEF Live, Next, Server, Client, Over, Login, Stop, Stops, ReadData, ReadTooMuch,
                ReadAdjust, ReadEof, ReadClose, Nothing, Open, Close, Other, Takes, SendChunk,
                Sends, GivesBack, GetsData, GetsRoom, GetsClose, Idle, SaysEof, Leaves, Ask, Reads,
                Comes, Serving
  <2>2. ~Live'
    BY <1>2, <2>1 DEF vars, Live
  <2> QED BY <1>2, <2>1, <2>2 DEF Windows, Limited, vars, server, client
<1>3. CASE Live
  <2>1. CASE Stops \/ ReadTooMuch \/ ReadClose \/ Idle \/ Leaves
    <3>1. ~Live' /\ our_window' = 0 /\ client_window' = 0 /\ UNCHANGED <<may, owed>>
      BY <2>1 DEF Stops, ReadTooMuch, ReadClose, Idle, Leaves, Ends, Live, client
    <3>2. may <= 2 * OurWindow /\ owed <= ClientWindow
      BY <1>1, <1>3, Numbers DEF Windows, Balanced
    <3> QED BY <1>1, <3>1, <3>2, Numbers DEF Windows, Limited
  <2>2. CASE SendChunk
    <3>1. left > 0
      <4>1. at = "reply" /\ left \in 1..Size(handled + 1)
        BY <1>3, <2>2 DEF SendChunk, IInv, Replying
      <4>2. left \in Nat
        BY <1>1 DEF Typed
      <4> QED BY <4>1, <4>2
    <3> QED BY <1>1, <1>3, <2>2, <3>1, WindowsSend
  <2>3. CASE ~(Stops \/ ReadTooMuch \/ ReadClose \/ Idle \/ Leaves \/ SendChunk \/ Over)
    BY <1>1, <1>3, <2>3, WindowsSame, WindowsReadData, WindowsReadAdjust, WindowsClient
       DEF Next, Server, Client
  <2>4. CASE Over
    BY <1>3, <2>4 DEF Over, Live
  <2> QED BY <2>1, <2>2, <2>3, <2>4
<1> QED BY <1>2, <1>3

\* The inductive invariant, with the windows and the bounds.
WInv == IInv /\ Windows /\ Bounded /\ Buffered

LEMMA InitWInv == Init => WInv
<1> SUFFICES ASSUME Init PROVE WInv
  OBVIOUS
<1>1. IInv
  BY InitTyped, InitOwners DEF IInv, Init, AnswersInOrder
<1>2. Bounded /\ Buffered
  <2>1. Buffer \in Nat /\ MaxRequests \in Nat
    BY SftpSessionAssumption
  <2>2. Len(requests) = 0 /\ Len(answers) = 0 /\ reply.id = 0 /\ at = "top"
    BY DEF Init
  <2>3. Buffered
    BY <2>1, <2>2 DEF Init, Buffered
  <2>4. /\ s_stop \in BOOLEAN /\ chan_closed \in BOOLEAN /\ client_eof \in BOOLEAN
        /\ overtaken \in BOOLEAN
    BY DEF Init
  <2>5. phase \in {"login"} /\ sent \in Nat /\ left <= 2 /\ part <= 1
    BY DEF Init
  <2> QED BY <2>1, <2>2, <2>3, <2>4, <2>5 DEF Bounded
<1>3. Windows
  <2>1. \A t : Under(inq, t) = 0 /\ Under(outq, t) = 0
    BY UnderEmpty DEF Init
  <2>2. our_window = OurWindow /\ client_window = ClientWindow /\ may = OurWindow /\ owed = 0 /\ Live
    BY DEF Init, Live
  <2> QED BY <2>1, <2>2, SftpSessionAssumption DEF Windows, Balanced
<1> QED BY <1>1, <1>2, <1>3 DEF WInv

LEMMA WSteps == WInv /\ [Next]_vars => WInv'
<1> SUFFICES ASSUME WInv, [Next]_vars PROVE WInv'
  OBVIOUS
<1>1. IInv /\ IInv'
  BY Steps DEF WInv
<1>2. CASE Next
  <2>1. Typed /\ Typed' /\ Replying /\ NoGap
    BY <1>1 DEF IInv
  <2> QED BY <1>1, <1>2, <2>1, WindowSteps, BoundsKept, BufferKept DEF WInv
<1>3. CASE UNCHANGED vars
  <2>1. Bounded' /\ Buffered'
    BY <1>3 DEF vars, server, client, WInv, Bounded, Buffered, Live, NextSize
  <2>2. Windows'
    BY <1>3 DEF vars, server, client, WInv, Windows, Balanced, Limited, Live
  <2> QED BY <1>1, <2>1, <2>2 DEF WInv
<1> QED BY <1>2, <1>3

\* The inductive invariant, of every behaviour.
THEOREM Invariance == Spec => []WInv
<1> QED BY InitWInv, WSteps, PTL DEF Spec

\* Every bound that TypeOK gives, for windows and a buffer of any size: oyobyok_sshd never counts
\* more room than twice its window, nor less than none, and what it has read fits sftp_in.
THEOREM TypeCorrect == Spec => []TypeOK
<1>1. WInv => TypeOK
  <2> SUFFICES ASSUME WInv PROVE TypeOK
    OBVIOUS
  <2>1. Typed /\ Bounded /\ Buffered /\ MaxRequests \in Nat
    BY SftpSessionAssumption DEF WInv, IInv
  <2>2. our_window \in 0..2 * OurWindow /\ may \in 0..2 * OurWindow
        /\ client_window \in 0..ClientWindow /\ owed \in 0..ClientWindow
    BY <2>1, Numbers DEF WInv, Windows, Balanced, Limited
  <2>3. handled \in 0..MaxRequests /\ left \in 0..2 /\ part \in 0..1
    BY <2>1 DEF Typed, Bounded
  <2>4. reply \in Reply
    BY <2>1 DEF Typed, Bounded, Reply
  <2>5. answers \in Seq(Reply)
    <3>1. \A i \in 1..Len(answers) : answers[i] \in Reply
      <4>1. \A i \in 1..Len(answers) : answers[i] \in [id : Nat, h : Handles \cup {NoHandle}]
        <5> DEFINE S == [id : Nat, h : Handles \cup {NoHandle}]
        <5>1. answers \in Seq(S)
          BY <2>1 DEF Typed
        <5> HIDE DEF S
        <5>2. \A i \in 1..Len(answers) : answers[i] \in S
          BY <5>1
        <5> QED BY <5>2 DEF S
      <4>2. \A i \in 1..Len(answers) : answers[i].id <= MaxRequests
        BY <2>1 DEF Bounded
      <4> QED BY <2>1, <4>1, <4>2 DEF Reply
    <3> QED BY <2>1, <3>1 DEF Typed
  <2> QED BY <2>1, <2>2, <2>3, <2>4, <2>5 DEF Typed, Bounded, Buffered, TypeOK
<1> QED BY <1>1, Invariance, PTL

\* OUR_WINDOW and chan_send_data, for windows and packets of any size, whatever is under way: the
\* room each side counts is the room the other believes it gave.
THEOREM WindowsCorrect == Spec => []WindowsAgree
<1>1. WInv => WindowsAgree
  BY DEF WInv, Windows, Balanced, WindowsAgree, Serving, Live
<1> QED BY <1>1, Invariance, PTL

\* Neither side waits for room with nothing under way: a server that has no room to send has a
\* packet to read, or the client has a packet, or room to give back; and so has a client
\* that has none.  It is what Answered rests on.
NobodyStuck ==
    Serving => /\ at = "reply" /\ client_window = 0 => owed > 0 \/ inq # <<>> \/ outq # <<>>
               /\ may = 0 => inq # <<>> \/ outq # <<>>

\* chan_send_data waits in the middle of a reply, and the client may wait too: never both for
\* good, whatever the two windows are.
THEOREM NeverStuck == Spec => []NobodyStuck
<1>1. WInv => NobodyStuck
  <2> SUFFICES ASSUME WInv, Serving, inq = <<>>, outq = <<>>
               PROVE  /\ client_window = 0 => owed > 0
                      /\ may # 0
    BY DEF NobodyStuck, WInv, IInv, Typed
  <2>1. Balanced /\ Typed
    BY DEF WInv, IInv, Windows, Serving, Live
  <2>2. Under(inq, "data") = 0 /\ Under(inq, "adjust") = 0
        /\ Under(outq, "data") = 0 /\ Under(outq, "adjust") = 0
    BY UnderEmpty
  <2>3. our_window = may /\ ClientWindow = client_window + owed
    BY <2>1, <2>2, Numbers DEF Balanced
  <2>4. 2 * our_window >= OurWindow
    BY <2>1 DEF Balanced
  <2> QED BY <2>1, <2>3, <2>4, Numbers
<1> QED BY <1>1, Invariance, PTL

\* sftp_drain, sftp_send_cb, chan_send_data, for windows and packets of any size: the client gets
\* one answer to each request, in the order it asked, whatever is read while one is sent.
THEOREM OrderCorrect == Spec => []AnswersInOrder
<1>1. WInv => AnswersInOrder
  BY DEF WInv, IInv
<1> QED BY <1>1, Invariance, PTL

\* alloc_handle and the ways an open fails, for a table of any size: when all is answered, the
\* handles in use are the ones the client holds.
THEOREM HandlesCorrect == Spec => []HandlesAreKnown
<1>1. WInv => HandlesAreKnown
  <2> SUFFICES ASSUME WInv, Serving, at = "top", outq = <<>>, handled = Len(requests)
               PROVE  used = mine
    BY DEF HandlesAreKnown
  <2>1. \A h \in Handles : Owner(h)
    BY DEF WInv, IInv, Owners, Serving, Live
  <2>2. \A h : ~Told(h) /\ ~Has(outq, h) /\ ~Pending(h)
    BY DEF Told, Has, Pending, Asked, Taken, WInv, IInv, Typed
  <2>3. used \subseteq Handles /\ mine \subseteq Handles
    BY DEF WInv, IInv, Typed
  <2> QED BY <2>1, <2>2, <2>3 DEF Owner
<1> QED BY <1>1, Invariance, PTL
=============================================================================
