---------------------------- MODULE SftpSession ----------------------------
(***************************************************************************)
(* One client of the SFTP server: a channel with a window in each          *)
(* direction, requests that the client may send ahead, a server that       *)
(* answers them one by one out of one reply buffer, and a table of open    *)
(* handles.  While the server waits for room in the client's window it     *)
(* goes on reading packets, and keeps the requests for later.              *)
(*                                                                         *)
(* Lengths are counted in units.  Both directions are streams, so the      *)
(* input buffer is known by its length and by what the client sent.        *)
(***************************************************************************)
EXTENDS Naturals, Sequences, FiniteSets, FiniteSetsExt, Total

CONSTANTS
    Handles,          \* the table of MAX_HANDLES
    NoHandle,
    OurWindow,        \* OUR_WINDOW
    ClientWindow,     \* the window the client gives
    Buffer,           \* sftp_in: MAX_PACKET * 2
    MaxPacket,        \* channel data of one packet
    MaxRequests       \* bound: what the client asks

Ops == {"open", "close", "read", "write"}
RequestSize(op) == IF op = "write" THEN 2 ELSE 1
ReplySize(op)   == IF op = "read" THEN 2 ELSE 1

ASSUME SftpSessionAssumption ==
    /\ IsFiniteSet(Handles) /\ NoHandle \notin Handles
    /\ {OurWindow, ClientWindow, Buffer, MaxPacket} \subseteq Nat \ {0} /\ MaxRequests \in Nat

VARIABLES
    phase,                       \* "login", "serving" or "over", and why it is over
    s_stop,
    at,                          \* the server reads ("top"), looks for a request ("drain"), sends
    inq, outq,                   \* packets under way to the server, to the client
    sftp_in_len, our_window, client_window,
    handled,                     \* how many requests it has taken out of the buffer
    used,                        \* handles in use
    reply, left,                 \* the reply buffer, and how much of it is to be sent
    chan_closed,
    requests, sent,              \* the client: what it asked, how much of it it has sent
    may, owed,                   \* room it has in our window, room it has yet to give back
    answers, part,               \* replies it has got, and how much of the next one
    mine,                        \* handles it was given and has not asked to close
    client_eof,
    overtaken                    \* history: an end of file came in the middle of a reply

server == <<at, sftp_in_len, our_window, client_window, handled, used, reply, left, chan_closed>>
client == <<requests, sent, may, owed, answers, part, mine, client_eof>>
vars   == <<phase, s_stop, inq, outq, server, client, overtaken>>

Request == [op : Ops, h : Handles \cup {NoHandle}]
Reply   == [id : 0..MaxRequests, h : Handles \cup {NoHandle}]
Data(n)   == [t |-> "data", n |-> n, id |-> 0, h |-> NoHandle]
Adjust(n) == [t |-> "adjust", n |-> n, id |-> 0, h |-> NoHandle]
Mark(t)   == [t |-> t, n |-> 0, id |-> 0, h |-> NoHandle]

TypeOK ==
    /\ phase \in {"login", "serving", "refused", "stopped", "left", "flooded", "closed"}
    /\ s_stop \in BOOLEAN /\ at \in {"top", "drain", "reply"}
    /\ sftp_in_len \in 0..Buffer /\ our_window \in 0..2 * OurWindow /\ client_window \in 0..ClientWindow
    /\ handled \in 0..MaxRequests /\ used \subseteq Handles /\ reply \in Reply /\ left \in 0..2
    /\ chan_closed \in BOOLEAN /\ requests \in Seq(Request) /\ sent \in Nat
    /\ may \in 0..2 * OurWindow /\ owed \in 0..ClientWindow
    /\ answers \in Seq(Reply) /\ part \in 0..1 /\ mine \subseteq Handles
    /\ client_eof \in BOOLEAN /\ overtaken \in BOOLEAN

Init ==
    /\ phase = "login" /\ s_stop = FALSE /\ at = "top" /\ inq = <<>> /\ outq = <<>>
    /\ sftp_in_len = 0 /\ our_window = OurWindow /\ client_window = ClientWindow
    /\ handled = 0 /\ used = {} /\ reply = [id |-> 0, h |-> NoHandle] /\ left = 0
    /\ chan_closed = FALSE /\ requests = <<>> /\ sent = 0
    /\ may = OurWindow /\ owed = 0 /\ answers = <<>> /\ part = 0 /\ mine = {}
    /\ client_eof = FALSE /\ overtaken = FALSE

-----------------------------------------------------------------------------
\* The units of the first n requests.
Upto(n) == Total([i \in 1..n |-> RequestSize(requests[i].op)])

Serving == phase = "serving"

\* The end of serve_client: the session is freed, the socket closed.
Ends(why) ==
    /\ phase' = why /\ at' = "top" /\ inq' = <<>> /\ outq' = <<>>
    /\ sftp_in_len' = 0 /\ our_window' = 0 /\ client_window' = 0 /\ handled' = 0 /\ used' = {}
    /\ reply' = [id |-> 0, h |-> NoHandle] /\ left' = 0 /\ chan_closed' = FALSE
    /\ UNCHANGED <<s_stop, client, overtaken>>

\* The handshake, authentication, the channel and its subsystem, each step waiting for the one
\* before; or the client is refused, after twelve tries at most.
Login ==
    /\ phase = "login" /\ phase' \in {"serving", "refused"}
    /\ UNCHANGED <<s_stop, inq, outq, server, client, overtaken>>

\* oyobyok_sshd_stop: every wait of the session ends, and so does the session.
Stop ==
    /\ phase \in {"login", "serving"} /\ ~s_stop /\ s_stop' = TRUE
    /\ UNCHANGED <<phase, inq, outq, server, client, overtaken>>
Stops == phase \in {"login", "serving"} /\ s_stop /\ Ends("stopped")

-----------------------------------------------------------------------------
(* The server: read_packet and handle_connection_packet, from serve_client *)
(* or from within chan_send_data.                                          *)

Waits_Never == FALSE                             \* mutant: it waits without reading
Waits == at = "reply" /\ client_window = 0
Comes(t) == Serving /\ ~s_stop /\ (at = "top" \/ Waits) /\ inq # <<>> /\ Head(inq).t = t
Reads(t) == Comes(t) /\ inq' = Tail(inq)

\* Only the outer call handles requests: a reply may be in the buffer.
Next_Anyway == "drain"                           \* mutant: the inner call handles them too
NextAt == IF at = "top" THEN "drain" ELSE at

\* Room is given back when less than half is left.
GivesRoom_Uncounted(room) ==                     \* mutant: our_window += OUR_WINDOW is missing
    /\ our_window' = room
    /\ outq' = IF 2 * room < OurWindow THEN Append(outq, Adjust(OurWindow)) ELSE outq
GivesRoom(room) ==
    IF 2 * room < OurWindow
    THEN our_window' = room + OurWindow /\ outq' = Append(outq, Adjust(OurWindow))
    ELSE our_window' = room /\ UNCHANGED outq

Fits_Always(n) == n <= MaxPacket                 \* mutant: no look at what is in the buffer
Fits(n) == sftp_in_len + n <= Buffer

ReadData ==
    LET n == Head(inq).n IN
    /\ Reads("data") /\ Fits(n) /\ sftp_in_len' = sftp_in_len + n
    /\ GivesRoom(our_window - n) /\ at' = NextAt
    /\ UNCHANGED <<phase, s_stop, client_window, handled, used, reply, left, chan_closed,
                   client, overtaken>>

\* "sftp input overflow": the buffer is smaller than the window.
ReadTooMuch ==
    /\ Comes("data") /\ ~Fits(Head(inq).n) /\ Ends("flooded")

ReadAdjust ==
    /\ Reads("adjust") /\ client_window' = client_window + Head(inq).n
    /\ UNCHANGED <<phase, s_stop, outq, at, sftp_in_len, our_window, handled, used, reply, left,
                   chan_closed, client, overtaken>>

ReadEof ==
    /\ Reads("eof") /\ chan_closed' = TRUE
    /\ outq' = IF chan_closed THEN outq ELSE outq \o <<Mark("eof"), Mark("close")>>
    /\ overtaken' = (overtaken \/ at = "reply")
    /\ UNCHANGED <<phase, s_stop, at, sftp_in_len, our_window, client_window, handled, used,
                   reply, left, client>>

\* Its own EOF and CLOSE are sent, if they were not, and the session is left.
ReadClose == Comes("close") /\ Ends("closed")

\* IDLE_SECS without a byte.
Idle == Serving /\ (at = "top" \/ Waits) /\ inq = <<>> /\ sent = Upto(Len(requests)) /\ owed = 0
        /\ outq = <<>> /\ Ends("left")

-----------------------------------------------------------------------------
(* sftp_drain and sftpd_handle.                                            *)

NextSize == RequestSize(requests[handled + 1].op)
Whole    == handled < Len(requests) /\ sftp_in_len >= NextSize

Nothing ==
    /\ Serving /\ at = "drain" /\ ~Whole /\ at' = "top"
    /\ UNCHANGED <<phase, s_stop, inq, outq, sftp_in_len, our_window, client_window, handled,
                   used, reply, left, chan_closed, client, overtaken>>

Answers(h) ==
    /\ reply' = [id |-> handled + 1, h |-> h] /\ left' = ReplySize(requests[handled + 1].op)
    /\ at' = "reply"
    /\ UNCHANGED <<phase, s_stop, inq, outq, sftp_in_len, our_window, client_window, handled,
                   chan_closed, client, overtaken>>
Takes(op) == Serving /\ at = "drain" /\ Whole /\ requests[handled + 1].op = op

\* alloc_handle takes the first free one; an open that fails gives it back.
Open_Leaks ==                                    \* mutant: a failed open keeps its handle
    /\ Takes("open")
    /\ IF used = Handles THEN UNCHANGED used /\ Answers(NoHandle)
       ELSE \E h \in Handles \ used : used' = used \cup {h} /\ \E a \in {h, NoHandle} : Answers(a)
Open ==
    /\ Takes("open")
    /\ IF used = Handles THEN UNCHANGED used /\ Answers(NoHandle)
       ELSE \E h \in Handles \ used : \/ used' = used \cup {h} /\ Answers(h)
                                      \/ UNCHANGED used /\ Answers(NoHandle)

Close == Takes("close") /\ used' = used \ {requests[handled + 1].h} /\ Answers(NoHandle)

\* Reads, writes, and all that needs no handle: the file system is not part of this.
Other == (Takes("read") \/ Takes("write")) /\ UNCHANGED used /\ Answers(NoHandle)

\* chan_send_data: as much as the client has room for.
SendChunk ==
    LET n == Min({left, client_window, MaxPacket}) IN
    /\ Serving /\ ~s_stop /\ at = "reply" /\ client_window > 0
    /\ outq' = Append(outq, [t |-> "data", n |-> n, id |-> reply.id, h |-> reply.h])
    /\ client_window' = client_window - n /\ left' = left - n
    /\ IF left = n
       THEN at' = "drain" /\ handled' = handled + 1 /\ sftp_in_len' = sftp_in_len - NextSize
       ELSE UNCHANGED <<at, handled, sftp_in_len>>
    /\ UNCHANGED <<phase, s_stop, inq, our_window, used, reply, chan_closed, client, overtaken>>

-----------------------------------------------------------------------------
(* The client.                                                             *)

\* It asks for what it likes, with handles it holds, without waiting for answers.
Ask(op, h) ==
    /\ Serving /\ ~client_eof /\ Len(requests) < MaxRequests
    /\ IF op = "open" THEN h = NoHandle ELSE h \in mine
    /\ requests' = Append(requests, [op |-> op, h |-> h])
    /\ mine' = IF op = "close" THEN mine \ {h} ELSE mine
    /\ UNCHANGED <<phase, s_stop, inq, outq, server, sent, may, owed, answers, part, client_eof,
                   overtaken>>

\* It keeps to the window; a packet may hold part of a request, or of two.
Sends ==
    \E n \in 1..MaxPacket :
      /\ Serving /\ n <= may /\ sent + n <= Upto(Len(requests))
      /\ sent' = sent + n /\ may' = may - n /\ inq' = Append(inq, Data(n))
      /\ UNCHANGED <<phase, s_stop, outq, server, requests, owed, answers, part, mine,
                     client_eof, overtaken>>

GivesBack ==
    /\ Serving /\ owed > 0 /\ owed' = 0 /\ inq' = Append(inq, Adjust(owed))
    /\ UNCHANGED <<phase, s_stop, outq, server, requests, sent, may, answers, part, mine,
                   client_eof, overtaken>>

\* A reply is complete with its last chunk.
GetsData ==
    LET p == Head(outq)
        whole == part + p.n = ReplySize(requests[p.id].op)
    IN  /\ Serving /\ outq # <<>> /\ p.t = "data" /\ outq' = Tail(outq)
        /\ owed' = owed + p.n
        /\ answers' = IF whole THEN Append(answers, [id |-> p.id, h |-> p.h]) ELSE answers
        /\ part' = IF whole THEN 0 ELSE part + p.n
        /\ mine' = IF whole /\ p.h # NoHandle THEN mine \cup {p.h} ELSE mine
        /\ UNCHANGED <<phase, s_stop, inq, server, requests, sent, may, client_eof, overtaken>>

GetsRoom ==
    /\ Serving /\ outq # <<>> /\ Head(outq).t = "adjust" /\ outq' = Tail(outq)
    /\ may' = may + Head(outq).n
    /\ UNCHANGED <<phase, s_stop, inq, server, requests, sent, owed, answers, part, mine,
                   client_eof, overtaken>>

\* It answers the server's CLOSE with its own.
GetsClose ==
    /\ Serving /\ outq # <<>> /\ Head(outq).t \in {"eof", "close"} /\ outq' = Tail(outq)
    /\ inq' = IF Head(outq).t = "close" THEN Append(inq, Mark("close")) ELSE inq
    /\ UNCHANGED <<phase, s_stop, server, client, overtaken>>

SaysEof ==
    /\ Serving /\ ~client_eof /\ sent = Upto(Len(requests)) /\ client_eof' = TRUE
    /\ inq' = Append(inq, Mark("eof"))
    /\ UNCHANGED <<phase, s_stop, outq, server, requests, sent, may, owed, answers, part, mine,
                   overtaken>>

Leaves == Serving /\ Ends("left")

-----------------------------------------------------------------------------
Server == \/ ReadData \/ ReadTooMuch \/ ReadAdjust \/ ReadEof \/ ReadClose
          \/ Nothing \/ Open \/ Close \/ Other \/ SendChunk \/ Stops
Client == Sends \/ GivesBack \/ GetsData \/ GetsRoom \/ GetsClose

\* The server is done with this client.
Over == phase \notin {"login", "serving"} /\ UNCHANGED vars

Next == \/ Login \/ Stop \/ Server \/ Client \/ Idle \/ SaysEof \/ Leaves \/ Over
        \/ \E op \in Ops, h \in Handles \cup {NoHandle} : Ask(op, h)

Spec == Init /\ [][Next]_vars

\* The server works, and the client sends what it asked for, reads, and gives room back.
FairSpec == Spec /\ WF_vars(Server) /\ WF_vars(Sends) /\ WF_vars(GivesBack)
                 /\ WF_vars(GetsData \/ GetsRoom \/ GetsClose)

-----------------------------------------------------------------------------
(* Properties.                                                             *)

\* sftp_drain, chan_send_data: whatever is read in the middle of a reply, every request is
\* answered once, by its own reply, in the order they were asked.
AnswersInOrder == \A i \in 1..Len(answers) : answers[i].id = i

\* OUR_WINDOW: the room the client has, with what is under way, is the room the server counts;
\* so neither waits for room the other believes it gave.
Under(q, t) == Total([i \in 1..Len(q) |-> IF q[i].t = t THEN q[i].n ELSE 0])
WindowsAgree ==
    Serving => /\ our_window = may + Under(inq, "data") + Under(outq, "adjust")
               /\ ClientWindow = client_window + Under(outq, "data") + owed + Under(inq, "adjust")

\* alloc_handle and every error path of an open: once all is answered, the handles in use are
\* those the client holds.
HandlesAreKnown ==
    Serving /\ at = "top" /\ outq = <<>> /\ handled = Len(requests) => used = mine

\* chan_send_data: what was asked is answered, also by a server that waits for room while the
\* client waits for it, as long as the client stays.  Two endings of the server's own are
\* left out: a client that fills its window while the server waits (flooded), and an end of
\* file that overtakes an answer (overtaken).
Answered ==
    \A i \in 1..MaxRequests :
        Len(requests) >= i ~> \/ Len(answers) >= i \/ overtaken
                              \/ phase \in {"stopped", "left", "flooded"}
=============================================================================
