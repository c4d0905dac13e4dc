------------------------------ MODULE BleLink ------------------------------
(***************************************************************************)
(* The link to the Bluetooth keyboard.  The screens scan, pair and forget; *)
(* connection tasks look for the keyboard and open it; one helper per open *)
(* (the kicker) encrypts the link; a handler is told what became of it.    *)
(* They share plain variables.  Keyboards come, go, and lose their keys.   *)
(*                                                                         *)
(* A keyboard stands for its address; the name it gives is another thing,  *)
(* which two may share and which some do not send with what a scan sees    *)
(* first.  Steps that wait for a time are guarded by what may take longer. *)
(***************************************************************************)
EXTENDS Naturals, Sequences

CONSTANTS Keyboards, None,
          NameOf,        \* the name a scan shows for each keyboard
          Nameless,      \* "(keyboard)": it shows none
          Tasks,         \* bound: connection tasks alive at once
          MaxOps,        \* bound: what the user does
          MaxTroubles    \* bound: drops, failures, lost keys

Names == {NameOf[k] : k \in Keyboards}

ASSUME BleLinkAssumption ==
    /\ None \notin Keyboards /\ None \notin Names
    /\ None \notin [addr : Keyboards, name : Names]
    /\ Tasks # {} /\ MaxOps \in Nat /\ MaxTroubles \in Nat

TaskPoints == {"none", "new", "loop", "search", "open", "connecting", "discovering",
               "opened", "leave"}
UiPoints   == {"boot", "free", "scan_wait", "scan", "list", "pick_wait", "ensure"}
EventTypes == {"open", "fail", "close", "refused"}

Known == Keyboards \cup {None}

VARIABLES
    want, running, byname, fresh,  \* s_want_conn, s_conn_task_running, s_reconnect_by_name,
                                   \* s_fresh_pair_next
    dev,                           \* s_dev: the keyboard in use, or None
    name, conn,                    \* s_name, s_conn_bda
    saved,                         \* NVS: None, or address and name
    ui, hits, picked,              \* the screens: where they are, what a scan found
    pc, attempt, target,           \* of each connection task
    kickers,                       \* the address each running kicker has taken down
    link,                          \* the radio: "down", "up" or "secure" for each keyboard
    events,                        \* what the HID host has yet to hand to hidh_cb
    bonded, keys,                  \* who has a key: the device, the keyboard
    told,                          \* history: the last pick has had an answer
    missed, joined, tangled, raced,   \* history: see Hazards below
    ops, troubles

flags   == <<want, running, byname, fresh>>
who     == <<dev, name, conn, saved>>
screens == <<ui, hits, picked>>
tasks   == <<pc, attempt, target>>
radio   == <<kickers, link, events, bonded, keys>>
history == <<told, missed, joined, tangled, raced>>
bounds  == <<ops, troubles>>
vars    == <<flags, who, screens, tasks, radio, history, bounds>>

TypeOK ==
    /\ want \in BOOLEAN /\ running \in BOOLEAN /\ byname \in BOOLEAN /\ fresh \in BOOLEAN
    /\ dev \in Known /\ name \in Names \cup {None} /\ conn \in Known
    /\ saved \in {None} \cup [addr : Keyboards, name : Names]
    /\ ui \in UiPoints /\ hits \in SUBSET Keyboards /\ picked \in Known
    /\ pc \in [Tasks -> TaskPoints] /\ attempt \in [Tasks -> 0..2] /\ target \in [Tasks -> Known]
    /\ kickers \in SUBSET Keyboards
    /\ link \in [Keyboards -> {"down", "up", "secure"}]
    /\ events \in Seq([type : EventTypes, kb : Keyboards])
    /\ bonded \in SUBSET Keyboards /\ keys \in SUBSET Keyboards
    /\ told \in BOOLEAN /\ missed \in BOOLEAN /\ joined \in BOOLEAN
    /\ tangled \in BOOLEAN /\ raced \in BOOLEAN
    /\ ops \in 0..MaxOps /\ troubles \in 0..MaxTroubles

Init ==
    /\ want = FALSE /\ running = FALSE /\ byname = FALSE /\ fresh = FALSE
    /\ dev = None /\ name = None /\ conn = None
    /\ ui = "boot" /\ hits = {} /\ picked = None
    /\ pc = [t \in Tasks |-> "none"] /\ attempt = [t \in Tasks |-> 0]
    /\ target = [t \in Tasks |-> None]
    /\ kickers = {} /\ link = [k \in Keyboards |-> "down"] /\ events = <<>>
    /\ told = TRUE /\ missed = FALSE /\ joined = FALSE /\ tangled = FALSE /\ raced = FALSE
    /\ ops = 0 /\ troubles = 0
    /\ \/ saved = None /\ bonded = {} /\ keys = {}
       \/ \E k \in Keyboards :
             saved = [addr |-> k, name |-> NameOf[k]] /\ bonded = {k} /\ keys = {k}

-----------------------------------------------------------------------------
scanning == ui \in {"scan_wait", "scan"}                       \* s_scanning
Pending(k) == \E i \in 1..Len(events) : events[i].kb = k /\ events[i].type \in {"close", "refused"}
Opening(k) == \E t \in Tasks : target[t] = k /\ pc[t] \in {"connecting", "discovering"}
\* The HID host keeps a device from the start of its open until its close was handled.
Listed(k)  == link[k] # "down" \/ Pending(k) \/ Opening(k)
Advertises(k) == link[k] = "down"

\* An attempt that was called off has left something that still runs.
Unfinished ==
    \/ running \/ kickers # {} \/ \E k \in Keyboards \ {dev} : link[k] # "down"
    \/ \E i \in 1..Len(events) : events[i].type = "open"

Happens(type, k) == events' = Append(events, [type |-> type, kb |-> k])
GoesDown(k)      == link' = [link EXCEPT ![k] = "down"]
Trouble == troubles < MaxTroubles /\ troubles' = troubles + 1
UserActs == ops < MaxOps /\ ops' = ops + 1

At(t, p) == pc[t] = p
Go(t, p) == pc' = [pc EXCEPT ![t] = p]
Opened(t) == Go(t, "opened") /\ target' = [target EXCEPT ![t] = None]
More_Uncapped(n) == IF n <= 2 THEN n + 1 ELSE n  \* mutant: one past the cap
More(n)  == IF n < 2 THEN n + 1 ELSE n

\* ensure_conn_task: the flag it looks at is set by the new task itself.
EnsureTask ==
    IF running THEN UNCHANGED pc
    ELSE LET idle == {t \in Tasks : At(t, "none")} IN
         IF idle = {} THEN UNCHANGED pc ELSE Go(CHOOSE t \in idle : TRUE, "new")

\* ble_gap_conn_cancel: an open that waits for its link fails.
Cancel == /\ pc' = [t \in Tasks |-> IF At(t, "connecting") THEN "opened" ELSE pc[t]]
          /\ target' = [t \in Tasks |-> IF At(t, "connecting") THEN None ELSE target[t]]

\* esp_hidh_dev_close, of the device in use.
CloseDev ==
    /\ dev' = None
    /\ IF dev # None /\ link[dev] # "down"
       THEN GoesDown(dev) /\ Happens("close", dev)
       ELSE UNCHANGED <<link, events>>

-----------------------------------------------------------------------------
(* The screens' calls.                                                     *)

\* oyobyok_blehid_autoreconnect, once.
Autoreconnect ==
    /\ ui = "boot"
    /\ IF saved = None
       THEN ui' = "free" /\ UNCHANGED <<want, byname, name, conn>>
       ELSE /\ ui' = "ensure" /\ want' = TRUE /\ byname' = TRUE
            /\ name' = saved.name /\ conn' = saved.addr
    /\ UNCHANGED <<running, fresh, dev, saved, hits, picked, tasks, radio, history, bounds>>

\* oyobyok_blehid_scan: what is under way is called off, and waited for.  Service discovery
\* takes longer than the eight seconds it waits, and so does a connection begun after the
\* cancel.
Scan ==
    /\ ui = "free" /\ UserActs /\ ui' = "scan_wait"
    /\ want' = FALSE /\ Cancel
    /\ UNCHANGED <<running, byname, fresh, who, hits, picked, attempt, radio, history,
                   troubles>>

ScanStarts_AtOnce ==                             \* mutant: nobody waits
    /\ ui = "scan_wait" /\ ui' = "scan"
    /\ UNCHANGED <<flags, who, hits, picked, tasks, radio, history, bounds>>
ScanStarts ==
    /\ ui = "scan_wait" /\ ui' = "scan"
    /\ ~running \/ \E t \in Tasks : pc[t] \in {"connecting", "discovering"}
    /\ UNCHANGED <<flags, who, hits, picked, tasks, radio, history, bounds>>

ScanEnds ==
    /\ ui = "scan" /\ ui' = "list"
    /\ hits' \in SUBSET {k \in Keyboards : Advertises(k)}
    /\ UNCHANGED <<flags, who, picked, tasks, radio, history, bounds>>

LeaveList ==
    /\ ui = "list" /\ ui' = "free" /\ hits' = {}
    /\ UNCHANGED <<flags, who, picked, tasks, radio, history, bounds>>

\* oyobyok_blehid_connect_index waits one second for the old task, a search takes three.
Pick(k) ==
    /\ ui = "list" /\ k \in hits /\ ui' = "pick_wait" /\ picked' = k /\ hits' = {}
    /\ want' = FALSE /\ Cancel
    /\ UNCHANGED <<running, byname, fresh, who, attempt, radio, history, bounds>>

PickSets ==
    /\ ui = "pick_wait" /\ ui' = "ensure"
    /\ ~running \/ \E t \in Tasks : pc[t] \in {"search", "connecting", "discovering"}
    /\ CloseDev
    /\ name' = NameOf[picked] /\ conn' = picked /\ bonded' = bonded \ {picked}
    /\ saved' = [addr |-> picked, name |-> name']
    /\ byname' = FALSE /\ want' = TRUE
    /\ told' = FALSE /\ joined' = Unfinished
    /\ picked' = None
    /\ UNCHANGED <<running, fresh, hits, tasks, kickers, keys, missed, tangled,
                   raced, bounds>>

Ensure ==
    /\ ui = "ensure" /\ ui' = "free" /\ EnsureTask
    /\ joined' = (joined \/ running)
    /\ UNCHANGED <<flags, who, hits, picked, attempt, target, radio, told, missed, tangled,
                   raced, bounds>>

Forget_KeepsWanting ==                           \* mutant: the task goes on
    /\ ui = "free" /\ saved # None /\ UserActs
    /\ CloseDev /\ saved' = None /\ bonded' = bonded \ {conn}
    /\ raced' = (raced \/ kickers # {} \/ \E t \in Tasks : ~At(t, "none"))
    /\ UNCHANGED <<flags, name, conn, screens, tasks, kickers, keys, told, missed, joined,
                   tangled, troubles>>
\* oyobyok_blehid_forget_saved
Forget ==
    /\ ui = "free" /\ saved # None /\ UserActs
    /\ want' = FALSE
    /\ CloseDev /\ saved' = None /\ bonded' = bonded \ {conn}
    /\ raced' = (raced \/ kickers # {} \/ \E t \in Tasks : ~At(t, "none"))
    /\ UNCHANGED <<running, byname, fresh, name, conn, screens, tasks, kickers, keys, told,
                   missed, joined, tangled, troubles>>

\* Without power only what is saved and bonded, and the keyboards' keys, are remembered.
Reboot ==
    /\ ui # "boot" /\ UserActs
    /\ want' = FALSE /\ running' = FALSE /\ byname' = FALSE /\ fresh' = FALSE
    /\ dev' = None /\ name' = None /\ conn' = None
    /\ ui' = "boot" /\ hits' = {} /\ picked' = None
    /\ pc' = [t \in Tasks |-> "none"] /\ attempt' = [t \in Tasks |-> 0]
    /\ target' = [t \in Tasks |-> None]
    /\ kickers' = {} /\ link' = [k \in Keyboards |-> "down"] /\ events' = <<>>
    /\ told' = TRUE /\ missed' = FALSE /\ joined' = FALSE /\ tangled' = FALSE /\ raced' = FALSE
    /\ UNCHANGED <<saved, bonded, keys, troubles>>

-----------------------------------------------------------------------------
(* ble_conn_task.                                                          *)

Starts(t) ==
    /\ At(t, "new") /\ Go(t, "loop")
    /\ running' = TRUE
    /\ tangled' = (tangled \/ \E u \in Tasks \ {t} : pc[u] \notin {"none", "new"})
    /\ UNCHANGED <<want, byname, fresh, who, screens, attempt, target, radio, told, missed,
                   joined, raced, bounds>>

Looks(t) ==
    /\ At(t, "loop")
    /\ Go(t, IF want /\ dev = None /\ ~scanning
             THEN IF byname THEN "search" ELSE "open" ELSE "leave")
    /\ UNCHANGED <<flags, who, screens, attempt, target, radio, history, bounds>>

\* kb_scan_find_name takes the first keyboard that shows the name, if all goes well, and
\* looks at none that shows no name; a scan of the screens at the same time is in its way.
Findable == {k \in Keyboards : /\ NameOf[k] = name /\ name # Nameless
                               /\ Advertises(k) /\ ui # "scan"}

Finds(t) ==
    /\ At(t, "search") /\ Go(t, "open")
    /\ conn' \in Findable
    /\ UNCHANGED <<flags, dev, name, saved, screens, attempt, target, radio, history, bounds>>

FindsNothing(t) ==
    /\ At(t, "search") /\ Go(t, "loop")
    /\ IF Findable # {} THEN Trouble ELSE UNCHANGED troubles
    /\ told' = (told \/ attempt[t] = 0)
    /\ attempt' = [attempt EXCEPT ![t] = More(@)]
    /\ UNCHANGED <<flags, who, screens, target, radio, missed, joined, tangled, raced, ops>>

\* A dead bond is wiped, the kicker started, and the HID host told to open, which refuses a
\* device it lists and a second connection while one is being made.
Opens(t) ==
    /\ At(t, "open")
    /\ fresh' = FALSE /\ bonded' = IF fresh THEN {} ELSE bonded
    /\ kickers' = kickers \cup {conn}
    /\ IF Listed(conn) \/ \E u \in Tasks : At(u, "connecting")
       THEN Go(t, "opened") /\ UNCHANGED target
       ELSE Go(t, "connecting") /\ target' = [target EXCEPT ![t] = conn]
    /\ UNCHANGED <<want, running, byname, who, screens, attempt, link, events, keys,
                   history, bounds>>

Connects(t) ==
    /\ At(t, "connecting") /\ Go(t, "discovering")
    /\ link' = [link EXCEPT ![target[t]] = "up"]
    /\ UNCHANGED <<flags, who, screens, attempt, target, kickers, events, bonded, keys,
                   history, bounds>>

ConnectFails(t) ==
    /\ At(t, "connecting") /\ Opened(t) /\ Trouble
    /\ UNCHANGED <<flags, who, screens, attempt, radio, history, ops>>

\* Services are read once the link is encrypted.
Discovers(t) ==
    /\ At(t, "discovering") /\ link[target[t]] = "secure"
    /\ Opened(t) /\ Happens("open", target[t])
    /\ UNCHANGED <<flags, who, screens, attempt, kickers, link, bonded, keys,
                   history, bounds>>

\* The link is gone, or nobody encrypts it, or the keyboard answers badly.
DiscoverFails(t) ==
    LET k == target[t] IN
    /\ At(t, "discovering") /\ Opened(t)
    /\ \/ link[k] = "down" /\ Happens("fail", k) /\ UNCHANGED <<link, troubles>>
       \/ /\ link[k] = "up" /\ k \notin kickers /\ UNCHANGED troubles
          /\ GoesDown(k) /\ events' = events \o <<[type |-> "fail", kb |-> k],
                                                  [type |-> "close", kb |-> k]>>
       \/ /\ link[k] = "secure" /\ Trouble
          /\ GoesDown(k) /\ events' = events \o <<[type |-> "fail", kb |-> k],
                                                  [type |-> "close", kb |-> k]>>
    /\ UNCHANGED <<flags, who, screens, attempt, kickers, bonded, keys, history, ops>>

\* A manual pair gets two tries, and the first failure is told.
Judges(t) ==
    /\ At(t, "opened")
    /\ IF dev # None THEN Go(t, "leave") /\ UNCHANGED <<attempt, told>>
       ELSE /\ attempt' = [attempt EXCEPT ![t] = More(@)]
            /\ told' = (told \/ (attempt[t] = 0 /\ ~byname))
            /\ Go(t, IF ~byname /\ attempt'[t] >= 2 THEN "leave" ELSE "loop")
    /\ UNCHANGED <<flags, who, screens, target, radio, missed, joined, tangled, raced, bounds>>

Leaves(t) ==
    /\ At(t, "leave") /\ Go(t, "none") /\ running' = FALSE
    /\ attempt' = [attempt EXCEPT ![t] = 0]
    /\ UNCHANGED <<want, byname, fresh, who, screens, target, radio, history, bounds>>

-----------------------------------------------------------------------------
(* ble_sec_kicker.                                                         *)

\* A link can be encrypted with a key both have, or by pairing where the device has none.
KickerSecures(k) ==
    /\ k \in kickers /\ dev = None /\ link[k] = "up" /\ (k \in bonded => k \in keys)
    /\ link' = [link EXCEPT ![k] = "secure"]
    /\ bonded' = bonded \cup {k} /\ keys' = keys \cup {k}
    /\ UNCHANGED <<flags, who, screens, tasks, kickers, events, history, bounds>>

\* The peer's identity is saved when it is not the address that was opened: always when
\* that has changed meanwhile, and for a keyboard that rotates its address.
KickerSaves(k) ==
    /\ k \in kickers /\ dev = None /\ link[k] = "secure" /\ kickers' = kickers \ {k}
    /\ \/ conn = k /\ UNCHANGED <<conn, saved>>
       \/ conn' = k /\ saved' = [addr |-> k, name |-> name]
    /\ UNCHANGED <<flags, dev, name, screens, tasks, link, events, bonded, keys, history, bounds>>

KickerStalls_Quiet(k) ==                         \* mutant: the next attempt is as the last
    /\ k \in kickers /\ dev = None /\ link[k] = "up" /\ kickers' = kickers \ {k}
    /\ IF k \in bonded \ keys THEN UNCHANGED troubles ELSE Trouble
    /\ GoesDown(k) /\ Happens("close", k)
    /\ UNCHANGED <<flags, who, screens, tasks, bonded, keys, history, ops>>
KickerStalls(k) ==
    /\ k \in kickers /\ dev = None /\ link[k] = "up" /\ kickers' = kickers \ {k}
    /\ IF k \in bonded \ keys THEN UNCHANGED troubles ELSE Trouble
    /\ fresh' = TRUE /\ GoesDown(k) /\ Happens("close", k)
    /\ UNCHANGED <<want, running, byname, who, screens, tasks, bonded, keys, history, ops>>

\* It ends when a keyboard is in use, or after five seconds without a link.
KickerEnds(k) ==
    /\ k \in kickers /\ kickers' = kickers \ {k}
    /\ \/ dev # None /\ UNCHANGED troubles
       \/ link[k] = "down" /\ IF Opening(k) THEN Trouble ELSE UNCHANGED troubles
    /\ UNCHANGED <<flags, who, screens, tasks, link, events, bonded, keys, history, ops>>

-----------------------------------------------------------------------------
(* hidh_cb, and the keyboards.                                             *)

ClosedDev_Kept == UNCHANGED dev                  \* mutant: a lost keyboard stays in use
ClosedDev == dev' = None

Tells_Failures(e) == told' = (told \/ e.type # "open")  \* mutant: an open is not told
Tells(e) == told' = TRUE

Handle ==
    LET e == Head(events) IN
    /\ events # <<>> /\ events' = Tail(events) /\ Tells(e)
    /\ \/ e.type = "open" /\ dev' = e.kb /\ UNCHANGED <<byname, fresh, pc, missed>>
       \/ e.type = "fail" /\ UNCHANGED <<dev, byname, fresh, pc, missed>>
       \/ /\ e.type \in {"close", "refused"}
          /\ ClosedDev /\ fresh' = (fresh \/ e.type = "refused")
          /\ IF want /\ ~scanning
             THEN /\ byname' = TRUE /\ EnsureTask
                  /\ missed' = (missed \/ (running /\ \A t \in Tasks : pc[t] \in {"none", "leave"}))
             ELSE UNCHANGED <<byname, pc, missed>>
    /\ UNCHANGED <<want, running, name, conn, saved, screens, attempt, target, kickers, link,
                   bonded, keys, joined, tangled, raced, bounds>>

Drops(k) ==
    /\ link[k] # "down" /\ Trouble /\ GoesDown(k) /\ Happens("close", k)
    /\ UNCHANGED <<flags, who, screens, tasks, kickers, bonded, keys, history, ops>>

\* A keyboard without the key ends the link itself.
Refuses(k) ==
    /\ link[k] = "up" /\ k \in bonded \ keys /\ GoesDown(k) /\ Happens("refused", k)
    /\ UNCHANGED <<flags, who, screens, tasks, kickers, bonded, keys, history, bounds>>

LosesKey(k) ==
    /\ link[k] = "down" /\ k \in keys /\ Trouble /\ keys' = keys \ {k}
    /\ UNCHANGED <<flags, who, screens, tasks, kickers, link, events, bonded, history, ops>>

-----------------------------------------------------------------------------
Ui      == Autoreconnect \/ ScanStarts \/ ScanEnds \/ PickSets \/ Ensure
User    == Scan \/ LeaveList \/ (\E k \in Keyboards : Pick(k)) \/ Forget \/ Reboot
Task(t) == \/ Starts(t) \/ Looks(t) \/ Finds(t) \/ FindsNothing(t) \/ Opens(t) \/ Connects(t)
           \/ ConnectFails(t) \/ Discovers(t) \/ DiscoverFails(t) \/ Judges(t) \/ Leaves(t)
Kicker(k) == KickerSecures(k) \/ KickerSaves(k) \/ KickerStalls(k) \/ KickerEnds(k)
Keyboard(k) == Drops(k) \/ Refuses(k) \/ LosesKey(k)

Next == \/ Ui \/ User \/ Handle
        \/ \E t \in Tasks : Task(t)
        \/ \E k \in Keyboards : Kicker(k) \/ Keyboard(k)

Spec == Init /\ [][Next]_vars

\* Calls return, tasks and the handler go on.  Nothing is assumed of the user, and of the
\* keyboards only that their troubles end.
Fairness == /\ WF_vars(Ui) /\ WF_vars(Handle)
            /\ \A t \in Tasks : WF_vars(Task(t))
            /\ \A k \in Keyboards : WF_vars(Kicker(k))
FairSpec == Spec /\ Fairness

-----------------------------------------------------------------------------
(* Properties.  Hazards the code has, and that they name: a close handled  *)
(* after the task's last look and before it clears its flag (missed); a    *)
(* pick that finds the old task still at work (joined); two connection     *)
(* tasks at once (tangled); a keyboard forgotten in the middle of an       *)
(* attempt (raced).                                                        *)

\* The screens show a keyboard as connected only while its link is up, or the news of its
\* loss is on the way.
NoGhost == dev # None => link[dev] # "down" \/ Pending(dev)

\* oyobyok_blehid.c:44, "a manual scan owns the radio": while it runs no connection task
\* searches for the keyboard, or begins to connect to it.
ScanOwnsRadio == ui = "scan" /\ ~tangled => \A t \in Tasks : pc[t] \notin {"search", "open"}

\* oyobyok_app.inc:820, "It won't reconnect": a forgotten keyboard is not remembered again
\* but by picking one.
ForgottenStays == [][saved = None /\ saved' # None => ui = "pick_wait" \/ raced]_vars

\* The name looked for does not say which keyboard: it is none, or that of several.
Ambiguous == \/ name = Nameless
             \/ \E j, k \in Keyboards : j # k /\ NameOf[j] = name /\ NameOf[k] = name

\* A wanted keyboard that shows a name of its own comes back at boot and after any drop,
\* also when the two sides disagree about the key.
Reconnects ==
    (want /\ byname) ~> (dev # None \/ ~want \/ Ambiguous \/ missed \/ joined \/ tangled)

\* oyobyok_blehid.h:13: the outcome of a pick arrives.
OutcomeArrives == ~told ~> (told \/ ~want \/ joined \/ tangled)
=============================================================================
