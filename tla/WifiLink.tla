------------------------------ MODULE WifiLink ------------------------------
(***************************************************************************)
(* The WiFi station.  The host thread switches it on and off, begins and   *)
(* ends attempts; the event task hears from the radio, tries again, and    *)
(* tells the screens how an attempt ended.  They share plain variables,    *)
(* and news travels through a queue: what is handled may be about an       *)
(* attempt that is no longer the current one.                              *)
(***************************************************************************)
EXTENDS Naturals, Sequences, SequencesExt

CONSTANTS Networks, None,
          Long,           \* networks whose name is too long for a key of the flash store
          MaxRetry,       \* MAX_RETRY
          MaxOps,         \* bound: what the screens ask for
          MaxTroubles     \* bound: failed starts, lost links, silent networks

ASSUME WifiLinkAssumption ==
    /\ None \notin Networks /\ Long \subseteq Networks
    /\ MaxRetry \in Nat /\ MaxOps \in Nat /\ MaxTroubles \in Nat

VARIABLES
    s_started, s_enabled, s_connecting,
    s_retry, s_target, s_connected,
    s_ip,                  \* an address is shown
    recent,                \* the radio was last brought up less than three seconds ago
    known,                 \* NVS: the networks saved, as they are listed
    host,                  \* the host thread: at rest, or about to tell the radio
    on_wifi,               \* the event task: at rest, or what it decided to do
    link, ap,              \* the radio: where it stands, with which network
    events,                \* what the event task has yet to handle
    posts,                 \* the messages posted to the screens
    failed,                \* history: tries of this attempt that failed by themselves
    mixed,                 \* history: news of an earlier attempt was under way at its start
    ops, troubles

flags  == <<s_started, s_enabled, s_connecting, s_retry, s_target, s_connected, s_ip>>
bounds == <<ops, troubles>>
past   == <<failed, mixed>>
vars   == <<flags, recent, known, host, on_wifi, link, ap, events, posts, past, bounds>>

Links == {"off", "idle", "joining", "linked", "silent", "up"}
Events == {"STA_START", "STA_DISCONNECTED", "GOT_IP"}

TypeOK ==
    /\ s_started \in BOOLEAN /\ s_enabled \in BOOLEAN /\ s_connecting \in BOOLEAN
    /\ s_retry \in 0..MaxRetry /\ s_target \in Networks \cup {None}
    /\ s_connected \in Networks \cup {None} /\ s_ip \in BOOLEAN /\ recent \in BOOLEAN
    /\ known \in Seq(Networks \ Long)
    /\ host \in {"rest", "connect", "disconnect", "off"}
    /\ on_wifi \in {"rest", "again", "give_up", "named", "late"}
    /\ link \in Links /\ ap \in Networks \cup {None}
    /\ events \in Seq(Events) /\ posts \in Seq({"OK", "FAIL"})
    /\ failed \in 0..MaxRetry + 1 /\ mixed \in BOOLEAN
    /\ ops \in 0..MaxOps /\ troubles \in 0..MaxTroubles

Init ==
    /\ s_started = FALSE /\ s_enabled = FALSE /\ s_connecting = FALSE
    /\ s_retry = 0 /\ s_target = None /\ s_connected = None /\ s_ip = FALSE
    /\ recent \in BOOLEAN
    /\ known \in {<<>>} \cup {<<n>> : n \in Networks \ Long}
    /\ host = "rest" /\ on_wifi = "rest"
    /\ link = "off" /\ ap = None /\ events = <<>> /\ posts = <<>>
    /\ failed = 0 /\ mixed = FALSE /\ ops = 0 /\ troubles = 0

-----------------------------------------------------------------------------
Pending(e) == Contains(events, e)
Post(m)    == posts' = Append(posts, m)
Asked      == host = "rest" /\ ops < MaxOps /\ ops' = ops + 1
Trouble    == troubles < MaxTroubles /\ troubles' = troubles + 1

\* The screens begin or end an attempt while news of another is under way.
Unsettled == Pending("GOT_IP") \/ Pending("STA_DISCONNECTED") \/ on_wifi # "rest"

(* The radio, as wifi.c uses it.                                           *)

\* esp_wifi_connect: refused unless the station is idle.
RadioConnects ==
    IF link = "idle" THEN link' = "joining" /\ ap' = s_target ELSE UNCHANGED <<link, ap>>

Engaged == link \in {"joining", "linked", "silent", "up"}

\* esp_wifi_disconnect, and what follows it.
RadioDisconnects(then, with) ==
    /\ link' = then /\ ap' = with
    /\ events' = IF Engaged THEN Append(events, "STA_DISCONNECTED") ELSE events

-----------------------------------------------------------------------------
(* The host thread.                                                        *)

\* ensure_started: no second try within three seconds.
Starts ==
    \/ s_started /\ UNCHANGED <<s_started, recent, link, events>>
    \/ /\ ~s_started /\ ~recent
       /\ s_started' = TRUE /\ recent' = TRUE
       /\ link' = "idle" /\ events' = Append(events, "STA_START")

StartFails ==
    /\ ~s_started /\ recent' = TRUE
    /\ IF recent THEN UNCHANGED troubles ELSE Trouble

\* do_connect, before it turns to the radio.
do_connect_KeepsCount(n) ==                      \* mutant: s_retry is not reset
    /\ s_enabled' = TRUE /\ s_target' = n /\ s_connecting' = TRUE
    /\ host' = "connect" /\ failed' = 0 /\ mixed' = Unsettled
    /\ UNCHANGED s_retry
do_connect(n) ==
    /\ s_enabled' = TRUE /\ s_target' = n /\ s_retry' = 0 /\ s_connecting' = TRUE
    /\ host' = "connect" /\ failed' = 0 /\ mixed' = Unsettled

\* oyobyok_wifi_set_enabled(true)
TurnOn ==
    /\ Asked /\ ~(s_started /\ s_enabled) /\ Starts
    /\ IF known # <<>> THEN do_connect(known[1])
       ELSE s_enabled' = TRUE /\ UNCHANGED <<s_target, s_retry, s_connecting, host, past>>
    /\ UNCHANGED <<s_connected, s_ip, known, on_wifi, ap, posts, troubles>>

TurnOnFails ==
    /\ Asked /\ ~(s_started /\ s_enabled) /\ StartFails
    /\ UNCHANGED <<flags, known, host, on_wifi, link, ap, events, posts, past>>

\* oyobyok_wifi_set_enabled(false)
TurnOff ==
    /\ Asked
    /\ s_enabled' = FALSE /\ s_connecting' = FALSE /\ s_connected' = None
    /\ host' = IF s_started THEN "off" ELSE "rest"
    /\ mixed' = Unsettled
    /\ UNCHANGED <<s_started, s_retry, s_target, s_ip, recent, known, on_wifi, link, ap,
                   events, posts, failed, troubles>>

\* oyobyok_wifi_scan; what it finds is a matter of the screens.
Scan ==
    /\ Asked /\ ~s_started /\ Starts /\ s_enabled' = TRUE
    /\ UNCHANGED <<s_connecting, s_retry, s_target, s_connected, s_ip, known, host, on_wifi,
                   ap, posts, past, troubles>>

\* oyobyok_wifi_connect saves the network: a changed entry moves to the end, a name that is
\* too long is not saved.
Save(n) ==
    known' \in IF n \in Long THEN {known}
               ELSE IF ~Contains(known, n) THEN {Append(known, n)}
               ELSE {known} \cup {Append(RemoveAt(known, i), n) :
                                     i \in {j \in 1..Len(known) : known[j] = n}}

Connect(n) ==
    /\ Asked /\ Save(n) /\ Starts /\ do_connect(n)
    /\ UNCHANGED <<s_connected, s_ip, on_wifi, ap, posts, troubles>>

ConnectKnown(n) ==
    /\ Asked /\ Contains(known, n) /\ Starts /\ do_connect(n)
    /\ UNCHANGED <<s_connected, s_ip, known, on_wifi, ap, posts, troubles>>

ConnectFails(n) ==
    /\ Asked /\ Save(n) /\ StartFails /\ Post("FAIL")
    /\ UNCHANGED <<flags, host, on_wifi, link, ap, events, past>>

\* oyobyok_wifi_disconnect
Disconnect ==
    /\ Asked /\ s_connecting' = FALSE /\ s_connected' = None
    /\ host' = IF s_started THEN "disconnect" ELSE "rest"
    /\ mixed' = Unsettled
    /\ UNCHANGED <<s_started, s_enabled, s_retry, s_target, s_ip, recent, known, on_wifi, link,
                   ap, events, posts, failed, troubles>>

\* The rest of each call: the radio is told.
Tell ==
    /\ host # "rest" /\ host' = "rest"
    /\ \/ host = "connect" /\ RadioDisconnects("joining", s_target) /\ UNCHANGED s_started
       \/ host = "disconnect" /\ RadioDisconnects("idle", ap) /\ UNCHANGED s_started
       \/ host = "off" /\ RadioDisconnects("off", None) /\ s_started' = FALSE
    /\ UNCHANGED <<s_enabled, s_connecting, s_retry, s_target, s_connected, s_ip, recent, known,
                   on_wifi, posts, past, bounds>>

ThreeSeconds ==
    /\ recent /\ recent' = FALSE
    /\ UNCHANGED <<flags, known, host, on_wifi, link, ap, events, posts, past, bounds>>

-----------------------------------------------------------------------------
(* on_wifi, on the event task.                                             *)

Handles(e) == on_wifi = "rest" /\ events # <<>> /\ Head(events) = e /\ events' = Tail(events)

StaStart ==
    /\ Handles("STA_START")
    /\ IF s_connecting THEN RadioConnects ELSE UNCHANGED <<link, ap>>
    /\ UNCHANGED <<flags, recent, known, host, on_wifi, posts, past, bounds>>

\* A lost or refused link: the name goes at once, and the task decides what to do.
Forgets_Name    == UNCHANGED s_connected /\ s_ip' = FALSE    \* mutant: the name stays
Forgets_Address == s_connected' = None /\ UNCHANGED s_ip     \* mutant: the address stays
Forgets == s_connected' = None /\ s_ip' = FALSE

MoreTries_OneMore == s_retry <= MaxRetry         \* mutant: one try too many
MoreTries == s_retry < MaxRetry

StaDisconnected ==
    /\ Handles("STA_DISCONNECTED") /\ Forgets
    /\ on_wifi' = IF ~s_connecting THEN "rest"
                  ELSE IF MoreTries THEN "again" ELSE "give_up"
    /\ UNCHANGED <<s_started, s_enabled, s_connecting, s_retry, s_target, recent, known, host,
                   link, ap, posts, past, bounds>>

Again ==
    /\ on_wifi = "again" /\ on_wifi' = "rest" /\ s_retry' = s_retry + 1 /\ RadioConnects
    /\ UNCHANGED <<s_started, s_enabled, s_connecting, s_target, s_connected, s_ip, recent,
                   known, host, events, posts, past, bounds>>

GiveUp_Silent ==                                 \* mutant: the screens are not told
    /\ on_wifi = "give_up" /\ on_wifi' = "rest" /\ s_connecting' = FALSE /\ UNCHANGED posts
    /\ UNCHANGED <<s_started, s_enabled, s_retry, s_target, s_connected, s_ip, recent, known,
                   host, link, ap, events, past, bounds>>
GiveUp_WrongCode ==                              \* mutant: WIFI_CTL_OK for WIFI_CTL_FAIL
    /\ on_wifi = "give_up" /\ on_wifi' = "rest" /\ s_connecting' = FALSE /\ Post("OK")
    /\ UNCHANGED <<s_started, s_enabled, s_retry, s_target, s_connected, s_ip, recent, known,
                   host, link, ap, events, past, bounds>>
GiveUp_KeepsTrying ==                            \* mutant: s_connecting stays set
    /\ on_wifi = "give_up" /\ on_wifi' = "rest" /\ Post("FAIL") /\ UNCHANGED s_connecting
    /\ UNCHANGED <<s_started, s_enabled, s_retry, s_target, s_connected, s_ip, recent, known,
                   host, link, ap, events, past, bounds>>
GiveUp ==
    /\ on_wifi = "give_up" /\ on_wifi' = "rest" /\ s_connecting' = FALSE /\ Post("FAIL")
    /\ UNCHANGED <<s_started, s_enabled, s_retry, s_target, s_connected, s_ip, recent, known,
                   host, link, ap, events, past, bounds>>

GotIp ==
    /\ Handles("GOT_IP") /\ on_wifi' = IF s_connecting THEN "named" ELSE "late"
    /\ s_ip' = TRUE /\ s_connecting' = FALSE /\ s_retry' = 0
    /\ UNCHANGED <<s_started, s_enabled, s_target, s_connected, recent, known, host, link, ap,
                   posts, past, bounds>>

Named ==
    /\ on_wifi \in {"named", "late"} /\ on_wifi' = "rest" /\ s_connected' = s_target /\ Post("OK")
    /\ UNCHANGED <<s_started, s_enabled, s_connecting, s_retry, s_target, s_ip, recent, known,
                   host, link, ap, events, past, bounds>>

-----------------------------------------------------------------------------
(* The radio and the network.                                              *)

\* It is heard of when the host is about to begin another attempt.
Crossing == mixed' = (mixed \/ host # "rest")

Joins ==
    /\ link = "joining"
    /\ \/ link' = "linked" /\ UNCHANGED troubles
       \/ link' = "silent" /\ Trouble            \* no address will come
    /\ UNCHANGED <<flags, recent, known, host, on_wifi, ap, events, posts, past, ops>>

JoinFails ==
    /\ link = "joining" /\ link' = "idle" /\ events' = Append(events, "STA_DISCONNECTED")
    /\ failed' = IF failed > MaxRetry THEN failed ELSE failed + 1
    /\ Crossing
    /\ UNCHANGED <<flags, recent, known, host, on_wifi, ap, posts, bounds>>

Address ==
    /\ link = "linked" /\ link' = "up" /\ events' = Append(events, "GOT_IP") /\ Crossing
    /\ UNCHANGED <<flags, recent, known, host, on_wifi, ap, posts, failed, bounds>>

Drops ==
    /\ link \in {"linked", "silent", "up"} /\ Trouble
    /\ link' = "idle" /\ events' = Append(events, "STA_DISCONNECTED")
    /\ failed' = IF failed > MaxRetry THEN failed ELSE failed + 1
    /\ Crossing
    /\ UNCHANGED <<flags, recent, known, host, on_wifi, ap, posts, ops>>

-----------------------------------------------------------------------------
Screens == \/ TurnOn \/ TurnOnFails \/ TurnOff \/ Scan \/ Disconnect
           \/ \E n \in Networks : Connect(n) \/ ConnectKnown(n) \/ ConnectFails(n)
OnWifi  == StaStart \/ StaDisconnected \/ Again \/ GiveUp \/ GotIp \/ Named
Radio   == Joins \/ JoinFails \/ Address

Next == Screens \/ Tell \/ ThreeSeconds \/ OnWifi \/ Radio \/ Drops

Spec == Init /\ [][Next]_vars

\* Calls return, the event task runs, and the radio comes to an end of joining.  A network
\* that gives no address may never do so ("silent").
FairSpec == Spec /\ WF_vars(Tell) /\ WF_vars(OnWifi) /\ WF_vars(Radio)

-----------------------------------------------------------------------------
(* Properties.                                                             *)

\* oyobyok_wifi_connected_name: the network the screens show is the one the link is up
\* with, or the news of its end is on the way, or the host is about to end it.
NamedIsLinked ==
    s_connected # None => \/ <<link, ap>> = <<"up", s_connected>>
                          \/ Pending("STA_DISCONNECTED") \/ host # "rest"

\* on_wifi, GOT_IP: a success is posted for a link that is up with the network that was asked
\* for, unless it answers an earlier attempt.
OkIsTrue ==
    [][posts' # posts /\ Last(posts') = "OK" =>
           mixed \/ Pending("STA_DISCONNECTED") \/ <<link, ap>> = <<"up", s_target>>]_vars

\* MAX_RETRY: an attempt is given up after as many failed tries.  (The disconnect that
\* do_connect begins with may count as one, of MAX_RETRY + 1.)
TriesBeforeFailure == [][GiveUp => mixed \/ failed >= MaxRetry]_vars

\* Every attempt ends, unless the network lets the station join and gives it no address.
AttemptEnds == s_connecting ~> (~s_connecting \/ link = "silent")

\* oyobyok_wifi_set_enabled(false): with the radio off the screens end up showing neither a
\* network nor an address, whatever was under way.
OffIsClean == ~s_enabled ~> (s_enabled \/ (s_connected = None /\ ~s_ip))

\* What the screens see of it is Station.  The event task writes the name after it has ended
\* the attempt; on the way it still counts as trying.
radio == IF ~s_enabled THEN "off"
         ELSE IF s_connecting \/ on_wifi = "named" THEN "trying"
         ELSE IF s_connected # None THEN "up" ELSE "idle"
Promised == INSTANCE Station WITH asked <- ops
Implements == Promised!Spec
=============================================================================
