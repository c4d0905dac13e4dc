------------------------------- MODULE NetOps -------------------------------
(***************************************************************************)
(* The host loop, the screens that lead to network work, the one network   *)
(* task and the WiFi radio.  Three parties meet here: the user, whose keys *)
(* go through the bounded key queue; the host thread, which takes one      *)
(* message at a time from that queue and owns every screen variable; and   *)
(* the network task, which runs beside it and reports by posting a DONE    *)
(* code into the same queue.                                               *)
(*                                                                         *)
(* Left to other modules: the contents of lists, naming and managing files,*)
(* Bluetooth and settings rows, the text in the editor, and what happens   *)
(* inside a git, SSH or SFTP operation (here: it succeeds or fails).       *)
(***************************************************************************)
EXTENDS Naturals, Sequences

CONSTANTS Projects,     \* names of git projects
          NoProject,    \* the empty string in curProject and s_git_project
          QCap,         \* length of the key queue (32 on the device)
          Rows,         \* the menu rows the user of this instance ever selects
          HasStack      \* whether the task stack could be reserved at boot

AllRows == {"PROJECTS", "SYNC", "DISK", "GIT", "WIFI", "SFTP", "SSH_TEST",
            "G_SYNC", "G_STATUS", "SERVE", "SEND",
            "WIFI_SCAN", "WIFI_KNOWN", "WIFI_TOGGLE", "WIFI_DISCONNECT"}

ASSUME NetOpsAssumption ==
    /\ NoProject \notin Projects
    /\ QCap \in Nat \ {0}
    /\ Rows \subseteq AllRows
    /\ HasStack \in BOOLEAN

Screens == {"MENU", "LIST", "EDITOR", "ENTRY", "ALERT", "GITSTATUS", "DISK"}
Menus   == {"MAIN", "CONN", "GIT", "WIFI", "SFTP"}
\* listType 0 is the file list and also what other screens leave behind: "FILE"
\* on the list screen, "NONE" elsewhere.
Lists   == {"NONE", "FILE", "WIFI_SCAN", "WIFI_KNOWN",
            "SFTP", "SFTPPROJ", "SFTPPICK", "GITREPO"}
Kinds   == {"sync", "status", "ssh", "push", "serve"}
Titles  == {"none", "Git", "SSH", "SFTP", "SERVE", "WIFI", "OTHER"}
Alerts  == [title : Titles, busy : BOOLEAN, limited : BOOLEAN]
Points  == {"none", "created", "body", "posting", "clearing", "exiting"}
Tasks   == [kind : Kinds \cup {"none"}, pc : Points, proj : Projects \cup {NoProject}]
Leaving == {"Enter", "Esc"}            \* Enter is also the key of a Back row
Keys    == Leaving \cup {"Save"}       \* Ctrl-S
Radio   == {"off", "idle", "trying", "up"}  \* up: connected_name() is not empty
DoneCodes == {"GIT_DONE", "SSH_DONE", "SFTP_DONE"}
Codes   == Keys \cup DoneCodes \cup {"WIFI_OK", "WIFI_FAIL"}
DoneOf  == [k \in Kinds |-> CASE k \in {"sync", "status"} -> "GIT_DONE"
                              [] k = "ssh" -> "SSH_DONE"
                              [] k \in {"push", "serve"} -> "SFTP_DONE"]

VARIABLES
    screen, curmenu, listType,  \* where the user is
    entry,                      \* entryCtxWifiName and entryCtxWifi, those that are set
    have_editor, curProject,
    alert,                      \* alertTitle, alertBusy, and whether alertLimit is set
    s_sync_busy, s_serving,     \* host flags about network work
    s_syncing,                  \* the LED's latched "a sync is running"
    wifi,                       \* one of Radio below
    s_net_running,              \* the slot of the network task
    task,                       \* the task on the static stack: kind, program point, project
    s_git_project,              \* buffer the git hooks write and the task reads
    s_git_stat_ready, s_git_stat, gStat,  \* status result: ready, its project, the copy shown
    s_stop,                     \* the SFTP server's stop request
    q,                          \* the key queue
    lost,                       \* history: a DONE code found the queue full
    crossed,                    \* history: a DONE code was queued for one operation while
                                \* another one's task ran
    left                        \* history: Ctrl-S led away from a busy alert

nav    == <<screen, curmenu, listType, entry, have_editor, curProject>>
slot   == <<s_net_running, task, s_git_project>>
status == <<s_git_stat_ready, s_git_stat, gStat>>
vars   == <<nav, alert, s_sync_busy, s_serving, s_syncing, wifi, slot, status, s_stop, q, lost, crossed, left>>

NoTask == [kind |-> "none", pc |-> "none", proj |-> NoProject]

TypeOK ==
    /\ screen \in Screens /\ curmenu \in Menus /\ listType \in Lists
    /\ entry \subseteq {"NAME", "PASS"}
    /\ have_editor \in BOOLEAN
    /\ curProject \in Projects \cup {NoProject}
    /\ alert \in Alerts
    /\ s_sync_busy \in BOOLEAN /\ s_serving \in BOOLEAN /\ s_syncing \in BOOLEAN
    /\ wifi \in Radio
    /\ s_net_running \in BOOLEAN
    /\ task \in Tasks
    /\ s_git_project \in Projects \cup {NoProject}
    /\ s_git_stat_ready \in BOOLEAN
    /\ s_git_stat \in Projects \cup {NoProject}
    /\ gStat \in Projects \cup {NoProject}
    /\ s_stop \in BOOLEAN
    /\ lost \in BOOLEAN /\ crossed \in BOOLEAN /\ left \in BOOLEAN
    /\ q \in Seq(Codes) /\ Len(q) <= QCap

Init ==
    /\ screen = "MENU" /\ curmenu = "MAIN" /\ listType = "NONE"
    /\ entry = {} /\ have_editor = FALSE /\ curProject = NoProject
    /\ alert = [title |-> "none", busy |-> FALSE, limited |-> FALSE]
    /\ s_sync_busy = FALSE /\ s_serving = FALSE /\ s_syncing = FALSE
    /\ wifi = "off"
    /\ s_net_running = FALSE /\ task = NoTask /\ s_git_project = NoProject
    /\ s_git_stat_ready = FALSE /\ s_git_stat = NoProject /\ gStat = NoProject
    /\ s_stop = FALSE
    /\ q = <<>>
    /\ lost = FALSE /\ crossed = FALSE /\ left = FALSE

-----------------------------------------------------------------------------
(* The key queue.  Every poster uses a zero timeout, so a message that     *)
(* finds the queue full is dropped.                                        *)

Post(rest, code) ==
    /\ q' = IF Len(rest) < QCap THEN Append(rest, code) ELSE rest
    /\ lost' = (lost \/ (code \in DoneCodes /\ Len(rest) >= QCap))

HasDone(queue) == \E i \in 1..Len(queue) : queue[i] \in DoneCodes

\* The host receives the message at the head of the queue.
Receives(code) == q # <<>> /\ Head(q) = code

\* A handler that only consumes its message.
Consume == q' = Tail(q) /\ UNCHANGED lost

UserPress(key) ==
    /\ Post(q, key)
    /\ UNCHANGED <<nav, alert, s_sync_busy, s_serving, s_syncing, wifi, slot, status,
                   s_stop, crossed, left>>

-----------------------------------------------------------------------------
(* The radio, as the host sees it.                                         *)

\* oyobyok_wifi_set_enabled(true): nothing if the radio is on.  Bring-up may
\* fail, and without a known network nothing is tried.
RadioOn ==
    wifi' \in IF wifi = "off" THEN {"off", "idle", "trying"} ELSE {wifi}

RadioOff == wifi' = "off"

\* sync_radio(0) when s_sync_busy has the value busy.
ReleaseRadio(busy) == IF busy THEN UNCHANGED wifi ELSE RadioOff

\* oyobyok_wifi_scan starts the radio if it is off, which may fail.
RadioForScan == wifi' \in IF wifi = "off" THEN {"off", "idle"} ELSE {wifi}

\* do_connect: a radio that does not start posts a failure straight away.
Connect(rest) ==
    \/ /\ wifi' = "trying" /\ q' = rest /\ UNCHANGED lost
    \/ /\ wifi = "off" /\ UNCHANGED wifi /\ Post(rest, "WIFI_FAIL")

in_sync_area ==
    /\ screen # "EDITOR"
    /\ \/ curmenu \in {"CONN", "GIT", "WIFI", "SFTP"}
       \/ listType \in Lists \ {"NONE", "FILE"}

noUi == <<nav, alert, s_sync_busy, s_serving, s_syncing, slot, status, s_stop, crossed, left>>

\* IP_EVENT_STA_GOT_IP.
WifiUp == wifi = "trying" /\ wifi' = "up" /\ Post(q, "WIFI_OK") /\ UNCHANGED noUi

\* The last retry of an attempt failed.
WifiFails == wifi = "trying" /\ wifi' = "idle" /\ Post(q, "WIFI_FAIL") /\ UNCHANGED noUi

\* WIFI_EVENT_STA_DISCONNECTED on an established link: no retry, no message.
WifiLost == wifi = "up" /\ wifi' = "idle" /\ UNCHANGED <<noUi, q, lost>>

-----------------------------------------------------------------------------
(* The network task slot.                                                  *)

\* Mutant of net_spawn: a refusal that posts nothing, whose caller would wait
\* for a code that never comes.
net_spawn_SilentRefusal(kind, rest) ==
    /\ crossed' = (crossed \/ s_net_running)
    /\ q' = rest /\ UNCHANGED lost
    /\ IF s_net_running
       THEN UNCHANGED <<s_net_running, task>>
       ELSE s_net_running' = TRUE /\ task' = [kind |-> kind, pc |-> "created", proj |-> NoProject]

\* net_spawn: refuse while the slot is taken, fail without a stack, else start
\* the task.  Both failures post the operation's own DONE code.
net_spawn(kind, rest) ==
    /\ crossed' = (crossed \/ s_net_running \/ (HasStack /\ HasDone(rest)))
    /\ IF s_net_running \/ ~HasStack
       THEN Post(rest, DoneOf[kind]) /\ UNCHANGED <<s_net_running, task>>
       ELSE /\ s_net_running' = TRUE
            /\ task' = [kind |-> kind, pc |-> "created", proj |-> NoProject]
            /\ q' = rest /\ UNCHANGED lost

taskOnly == <<nav, alert, s_sync_busy, s_serving, s_syncing, wifi, s_git_project, gStat, crossed, left>>

\* The task's first steps: git operations look their project up, the server
\* resets its stop flag.
TaskBegin ==
    /\ task.pc = "created"
    /\ task' = [task EXCEPT !.pc = "body",
                            !.proj = IF task.kind \in {"sync", "status"}
                                     THEN s_git_project ELSE NoProject]
    /\ s_stop' = IF task.kind = "serve" THEN FALSE ELSE s_stop
    /\ UNCHANGED <<taskOnly, s_net_running, s_git_stat_ready, s_git_stat, q, lost>>

\* A sync, SSH test or push ends, well or not.
TaskWorks ==
    /\ task.pc = "body" /\ task.kind \in {"sync", "ssh", "push"}
    /\ task' = [task EXCEPT !.pc = "posting"]
    /\ UNCHANGED <<taskOnly, s_net_running, s_stop, s_git_stat_ready, s_git_stat, q, lost>>

\* git_status_fetch ends by calling git_status(project), which reads the
\* project's name again from the shared buffer.
TaskStatus ==
    /\ task.pc = "body" /\ task.kind = "status"
    /\ task' = [task EXCEPT !.pc = "posting"]
    /\ s_git_stat' = s_git_project /\ s_git_stat_ready' = TRUE
    /\ UNCHANGED <<taskOnly, s_net_running, s_stop, q, lost>>

\* The server leaves its accept loop: told to, on an accept error, or because
\* it could not start serving.
TaskServed ==
    /\ task.pc = "body" /\ task.kind = "serve"
    /\ task' = [task EXCEPT !.pc = "posting"]
    /\ UNCHANGED <<taskOnly, s_net_running, s_stop, s_git_stat_ready, s_git_stat, q, lost>>

\* Mutant of TaskPost: a task that ends without its DONE code.
TaskPost_Forgets ==
    /\ task.pc = "posting"
    /\ task' = [task EXCEPT !.pc = "clearing"]
    /\ UNCHANGED <<taskOnly, s_net_running, s_stop, s_git_stat_ready, s_git_stat, q, lost>>

TaskPost ==
    /\ task.pc = "posting"
    /\ task' = [task EXCEPT !.pc = "clearing"]
    /\ Post(q, DoneOf[task.kind])
    /\ UNCHANGED <<taskOnly, s_net_running, s_stop, s_git_stat_ready, s_git_stat>>

\* net_tramp: the slot is marked free before vTaskDelete.
TaskClear ==
    /\ task.pc = "clearing"
    /\ s_net_running' = FALSE
    /\ task' = [task EXCEPT !.pc = "exiting"]
    /\ UNCHANGED <<taskOnly, s_stop, s_git_stat_ready, s_git_stat, q, lost>>

TaskExit ==
    /\ task.pc = "exiting"
    /\ task' = NoTask
    /\ UNCHANGED <<taskOnly, s_net_running, s_stop, s_git_stat_ready, s_git_stat, q, lost>>

-----------------------------------------------------------------------------
(* Keys, as the host applies them.  Enter on a menu or a list acts on the  *)
(* row the user has moved to: the row is chosen when the key is applied.   *)

work    == <<s_sync_busy, s_serving, s_syncing, slot, status, s_stop, crossed>>
calm    == <<work, left>>
place   == <<entry, have_editor>>
Busy(title, lim) == [title |-> title, busy |-> TRUE, limited |-> lim]
Says(title) == [alert EXCEPT !.title = title]

Selects(row, menu) ==
    Receives("Enter") /\ screen = "MENU" /\ row \in Rows /\ curmenu = menu

\* alert(): the title and the text change, the busy flag stays.
Tell(title) == alert' = Says(title) /\ screen' = "ALERT"

OpenSynchronise ==
    /\ Selects("SYNC", "MAIN")
    /\ curmenu' = "CONN" /\ RadioOn /\ Consume
    /\ UNCHANGED <<screen, listType, place, curProject, alert, calm>>

OpenSubmenu(menu) ==
    /\ Selects(menu, "CONN")
    /\ curmenu' = menu /\ Consume
    /\ UNCHANGED <<screen, listType, place, curProject, alert, wifi, calm>>

OpenProjects ==
    /\ Selects("PROJECTS", "MAIN")
    /\ screen' = "LIST" /\ listType' = "FILE" /\ curProject' = NoProject /\ Consume
    /\ UNCHANGED <<curmenu, place, alert, wifi, calm>>

\* menu_back, from the Back row of a submenu or from Esc.
MenuBack(key) ==
    /\ Receives(key) /\ screen = "MENU" /\ (key = "Enter" => curmenu # "MAIN")
    /\ \/ /\ curmenu = "GIT"
          /\ screen' = "LIST" /\ listType' = "GITREPO" /\ UNCHANGED <<curmenu, wifi>>
       \/ /\ curmenu = "CONN"
          /\ curmenu' = "MAIN" /\ ReleaseRadio(s_sync_busy) /\ UNCHANGED <<screen, listType>>
       \/ /\ curmenu \in {"WIFI", "SFTP"}
          /\ curmenu' = "CONN" /\ UNCHANGED <<screen, listType, wifi>>
       \/ curmenu = "MAIN" /\ UNCHANGED <<screen, curmenu, listType, wifi>>
    /\ Consume
    /\ UNCHANGED <<place, curProject, alert, calm>>

\* open_native_list from a menu row; scanning needs the radio.
OpenList ==
    /\ \/ Selects("GIT", "CONN") /\ listType' = "GITREPO" /\ UNCHANGED wifi
       \/ Selects("SEND", "SFTP") /\ listType' = "SFTP" /\ UNCHANGED wifi
       \/ Selects("WIFI_KNOWN", "WIFI") /\ listType' = "WIFI_KNOWN" /\ UNCHANGED wifi
       \/ Selects("WIFI_SCAN", "WIFI") /\ listType' = "WIFI_SCAN" /\ RadioForScan
    /\ screen' = "LIST" /\ Consume
    /\ UNCHANGED <<curmenu, place, curProject, alert, calm>>

InList(key, lists) == Receives(key) /\ screen = "LIST" /\ listType \in lists

\* The Back row and Esc of a list.  The Back row of the WiFi lists leaves
\* listType as it is; Esc clears it.
ListBack(key) ==
    /\ \/ /\ InList(key, {"SFTPPROJ"})
          /\ listType' = "SFTP" /\ UNCHANGED <<screen, curmenu>>
       \/ /\ InList(key, {"SFTPPICK"})       \* sftp_pick_up: one folder, or out of the project
          /\ listType' \in {"SFTPPICK", "SFTPPROJ"} /\ UNCHANGED <<screen, curmenu>>
       \/ /\ InList(key, {"SFTP", "GITREPO", "WIFI_SCAN", "WIFI_KNOWN"})
          /\ screen' = "MENU"
          /\ curmenu' = CASE listType = "SFTP" -> "SFTP"
                          [] listType = "GITREPO" -> "CONN"
                          [] OTHER -> "WIFI"
          /\ listType' = IF key = "Enter" /\ listType \in {"WIFI_SCAN", "WIFI_KNOWN"}
                         THEN listType ELSE "NONE"
    /\ Consume
    /\ UNCHANGED <<place, curProject, alert, wifi, calm>>

PickRepo(p) ==
    /\ InList("Enter", {"GITREPO"})
    /\ curProject' = p /\ listType' = "NONE" /\ curmenu' = "GIT" /\ screen' = "MENU" /\ Consume
    /\ UNCHANGED <<place, alert, wifi, calm>>

\* A server, then a project, then folders inside it.
PickForPush ==
    /\ \/ InList("Enter", {"SFTP"}) /\ listType' = "SFTPPROJ"
       \/ InList("Enter", {"SFTPPROJ", "SFTPPICK"}) /\ listType' = "SFTPPICK"
    /\ Consume
    /\ UNCHANGED <<screen, curmenu, place, curProject, alert, wifi, calm>>

PickKnown ==
    /\ InList("Enter", {"WIFI_KNOWN"})
    /\ Connect(Tail(q))
    /\ alert' = Busy("WIFI", TRUE) /\ screen' = "ALERT"
    /\ UNCHANGED <<curmenu, listType, place, curProject, calm>>

PickNetwork ==
    /\ InList("Enter", {"WIFI_SCAN"})
    /\ screen' = "ENTRY" /\ Consume
    /\ \E ctx \in {"NAME", "PASS"} : entry' = entry \cup {ctx}
    /\ UNCHANGED <<curmenu, listType, have_editor, curProject, alert, wifi, calm>>

\* The entry for a network name leads to the one for its password; an empty
\* name goes back.  A name is asked for first, should both be set.
EnterName ==
    /\ Receives("Enter") /\ screen = "ENTRY" /\ "NAME" \in entry
    /\ \/ entry' = {"PASS"} /\ UNCHANGED <<screen, curmenu>>
       \/ entry' = entry \ {"NAME"} /\ screen' = "MENU" /\ curmenu' = "WIFI"
    /\ Consume
    /\ UNCHANGED <<listType, have_editor, curProject, alert, wifi, calm>>

EnterPassword ==
    /\ Receives("Enter") /\ screen = "ENTRY" /\ entry = {"PASS"}
    /\ Connect(Tail(q))
    /\ entry' = {} /\ alert' = Busy("WIFI", TRUE) /\ screen' = "ALERT"
    /\ UNCHANGED <<curmenu, listType, have_editor, curProject, calm>>

LeaveEntry ==
    /\ Receives("Esc") /\ screen = "ENTRY"
    /\ entry' = {} /\ curmenu' = "WIFI" /\ screen' = "MENU" /\ Consume
    /\ UNCHANGED <<listType, have_editor, curProject, alert, wifi, calm>>

\* The project browser, as far as it moves the user: into and out of projects,
\* back to the main menu, and into the editor.
Browse(key) ==
    /\ InList(key, {"FILE"})
    /\ \/ /\ curProject = NoProject
          /\ screen' = "MENU" /\ curmenu' = "MAIN" /\ listType' = "NONE"
          /\ UNCHANGED <<curProject, have_editor>>
       \/ /\ curProject # NoProject
          /\ curProject' \in {NoProject, curProject}
          /\ UNCHANGED <<screen, curmenu, listType, have_editor>>
       \/ /\ key = "Enter" /\ curProject = NoProject
          /\ curProject' \in Projects
          /\ UNCHANGED <<screen, curmenu, listType, have_editor>>
       \/ /\ key = "Enter"
          /\ screen' = "EDITOR" /\ have_editor' = TRUE
          /\ UNCHANGED <<curmenu, listType, curProject>>
    /\ Consume
    /\ UNCHANGED <<entry, alert, wifi, calm>>

\* Esc in the editor, and Ctrl-S on any screen as long as a file is open, save
\* and close.  The list takes the place of whatever was shown: an alert that is
\* left this way stays busy.  A failed save says so.
SaveClose ==
    /\ have_editor
    /\ Receives("Save") \/ (Receives("Esc") /\ screen = "EDITOR")
    /\ \/ /\ screen' = "LIST" /\ listType' = "FILE" /\ have_editor' = FALSE
          /\ left' = (left \/ alert.busy) /\ UNCHANGED alert
       \/ Tell("OTHER") /\ UNCHANGED <<listType, have_editor, left>>
    /\ Consume
    /\ UNCHANGED <<curmenu, entry, curProject, wifi, work>>

Settled == [alert EXCEPT !.busy = FALSE]
Dismissed == screen' = IF have_editor THEN "EDITOR" ELSE "MENU"

\* Mutant of DismissAlert: Enter dismisses a busy alert too.
DismissAlert_AlsoBusy ==
    /\ Receives("Enter") /\ screen = "ALERT"
    /\ Dismissed /\ Consume
    /\ UNCHANGED <<curmenu, listType, place, curProject, alert, wifi, calm>>

DismissAlert ==
    /\ Receives("Enter") /\ screen = "ALERT" /\ ~alert.busy
    /\ Dismissed /\ Consume
    /\ UNCHANGED <<curmenu, listType, place, curProject, alert, wifi, calm>>

\* Mutants of EscapeAlert: Esc leaves a serving alert like any other; Esc takes
\* the server as stopped at once; Esc forgets the operation it stops waiting for.
EscapeAlert_LeavesServer ==
    /\ Receives("Esc") /\ screen = "ALERT"
    /\ Dismissed /\ alert' = Settled /\ Consume
    /\ UNCHANGED <<curmenu, listType, place, curProject, wifi, calm>>

EscapeAlert_StopsAtOnce ==
    /\ Receives("Esc") /\ screen = "ALERT"
    /\ Dismissed /\ alert' = Settled /\ Consume
    /\ s_stop' = (s_stop \/ s_serving) /\ s_serving' = FALSE
    /\ UNCHANGED <<curmenu, listType, place, curProject, wifi,
                   s_sync_busy, s_syncing, slot, status, crossed, left>>

EscapeAlert_Forgets ==
    /\ Receives("Esc") /\ screen = "ALERT"
    /\ Dismissed /\ alert' = Settled /\ Consume /\ s_sync_busy' = FALSE
    /\ UNCHANGED <<curmenu, listType, place, curProject, wifi,
                   s_serving, s_stop, s_syncing, slot, status, crossed, left>>

\* Esc while serving asks the server to stop; otherwise it stops waiting.
EscapeAlert ==
    /\ Receives("Esc") /\ screen = "ALERT"
    /\ IF s_serving
       THEN s_stop' = TRUE /\ UNCHANGED <<screen, alert>>
       ELSE Dismissed /\ alert' = Settled /\ UNCHANGED s_stop
    /\ Consume
    /\ UNCHANGED <<curmenu, listType, place, curProject, wifi,
                   s_sync_busy, s_serving, s_syncing, slot, status, crossed, left>>

DismissStatus(key) ==
    /\ Receives(key) /\ screen = "GITSTATUS"
    /\ screen' = "MENU" /\ Consume
    /\ UNCHANGED <<curmenu, listType, place, curProject, alert, wifi, calm>>

\* Enter on a busy alert, Enter in the editor, Enter and Esc in Disk Mode, and
\* Ctrl-S with no file open.
IgnoreKey ==
    /\ \/ Receives("Enter") /\ screen = "ALERT" /\ alert.busy
       \/ Receives("Enter") /\ screen = "EDITOR"
       \/ Receives("Save") /\ ~have_editor
       \/ (Receives("Enter") \/ Receives("Esc")) /\ screen = "DISK"
    /\ Consume
    /\ UNCHANGED <<nav, alert, wifi, calm>>

-----------------------------------------------------------------------------
(* Menu rows that start work.                                              *)

\* wifi_ready_or_alert says no.
NotReady ==
    /\ Selects("G_SYNC", "GIT") \/ Selects("G_STATUS", "GIT") \/ Selects("SERVE", "SFTP")
    /\ wifi # "up"
    /\ Tell("Git") /\ Consume
    /\ UNCHANGED <<curmenu, listType, place, curProject, wifi, calm>>

\* What every started operation shares: a busy alert with its limit, the flag
\* that holds the radio, and a claim on the task slot.
StartOp(kind, title) ==
    /\ alert' = Busy(title, TRUE) /\ screen' = "ALERT"
    /\ s_sync_busy' = TRUE
    /\ net_spawn(kind, Tail(q))
    /\ UNCHANGED <<curmenu, place, curProject, wifi, s_serving, status, s_stop, left>>

\* git_action(EV_G_SYNC) and git_sync_hook.
GitSync ==
    /\ Selects("G_SYNC", "GIT") /\ wifi = "up"
    /\ s_syncing' = TRUE
    /\ s_git_project' = curProject
    /\ StartOp("sync", "Git")
    /\ UNCHANGED listType

\* git_action(EV_G_STATUS) and git_status_hook.
GitStatus ==
    /\ Selects("G_STATUS", "GIT") /\ wifi = "up"
    /\ s_git_project' = curProject
    /\ StartOp("status", "Git")
    /\ UNCHANGED <<listType, s_syncing>>

SshTest ==
    /\ Selects("SSH_TEST", "CONN")
    /\ StartOp("ssh", "SSH")
    /\ UNCHANGED <<listType, s_git_project, s_syncing>>

\* A file or a folder picked for sending.
SftpPush ==
    /\ InList("Enter", {"SFTPPICK"})
    /\ listType' = "NONE"
    /\ StartOp("push", "SFTP")
    /\ UNCHANGED <<s_git_project, s_syncing>>

\* Serving sets its flags only when the task started; a refusal shows its own
\* alert, and the code net_spawn posted follows.
SftpServe ==
    /\ Selects("SERVE", "SFTP") /\ wifi = "up"
    /\ net_spawn("serve", Tail(q))
    /\ screen' = "ALERT"
    /\ IF s_net_running'# s_net_running
       THEN /\ s_serving' = TRUE /\ s_sync_busy' = TRUE /\ s_syncing' = TRUE
            /\ alert' = Busy("SERVE", FALSE)
       ELSE /\ alert' = Says("SERVE")
            /\ UNCHANGED <<s_serving, s_sync_busy, s_syncing>>
    /\ UNCHANGED <<curmenu, listType, place, curProject, wifi, s_git_project, status, s_stop, left>>

DiskMode ==
    /\ Selects("DISK", "MAIN")
    /\ \/ screen' = "DISK" /\ UNCHANGED alert
       \/ Tell("OTHER")
    /\ Consume
    /\ UNCHANGED <<curmenu, listType, place, curProject, wifi, calm>>

ToggleWifi ==
    /\ Selects("WIFI_TOGGLE", "WIFI")
    /\ IF wifi = "off" THEN RadioOn ELSE RadioOff
    /\ Tell("WIFI") /\ Consume
    /\ UNCHANGED <<curmenu, listType, place, curProject, calm>>

DisconnectWifi ==
    /\ Selects("WIFI_DISCONNECT", "WIFI")
    /\ wifi' = IF wifi = "off" THEN "off" ELSE "idle"
    /\ Tell("WIFI") /\ Consume
    /\ UNCHANGED <<curmenu, listType, place, curProject, calm>>

-----------------------------------------------------------------------------
(* Completions, and the once-a-second tick.                                *)

\* op_finished, as every DONE handler begins.
op_finished ==
    /\ s_sync_busy' = FALSE
    /\ IF in_sync_area THEN UNCHANGED wifi ELSE ReleaseRadio(FALSE)

doneOnly == <<curmenu, listType, place, curProject, slot, s_stop, crossed, left>>

oyobyok_app_ssh_result ==
    /\ Receives("SSH_DONE") /\ Consume
    /\ op_finished
    /\ alert' = Settled
    /\ UNCHANGED <<doneOnly, screen, s_serving, s_syncing, status>>

\* Mutant of oyobyok_app_sftp_result: the host still believes it serves.
oyobyok_app_sftp_result_Serves ==
    /\ Receives("SFTP_DONE") /\ Consume
    /\ op_finished
    /\ alert' = Settled
    /\ UNCHANGED <<doneOnly, screen, s_serving, s_syncing, status>>

oyobyok_app_sftp_result ==
    /\ Receives("SFTP_DONE") /\ Consume
    /\ op_finished
    /\ s_serving' = FALSE
    /\ s_syncing' = IF s_serving THEN FALSE ELSE s_syncing
    /\ alert' = Settled
    /\ UNCHANGED <<doneOnly, screen, status>>

\* Away from the alert nothing more is done.  A status result that is ready is
\* taken first, whichever git operation this DONE belongs to.
oyobyok_app_git_result ==
    /\ Receives("GIT_DONE") /\ Consume
    /\ op_finished
    /\ \/ /\ screen # "ALERT"
          /\ alert' = Settled
          /\ UNCHANGED <<screen, s_syncing, status>>
       \/ /\ screen = "ALERT" /\ s_git_stat_ready
          /\ s_git_stat_ready' = FALSE /\ gStat' = s_git_stat /\ screen' = "GITSTATUS"
          /\ alert' = Settled
          /\ UNCHANGED <<s_syncing, s_git_stat>>
       \/ /\ screen = "ALERT" /\ ~s_git_stat_ready
          /\ s_syncing' = FALSE
          /\ alert' = [Settled EXCEPT !.title = "Git"]
          /\ UNCHANGED <<screen, status>>
    /\ UNCHANGED <<doneOnly, s_serving>>

\* Only the WiFi alert listens.
oyobyok_app_wifi_result(code) ==
    /\ Receives(code) /\ Consume
    /\ alert' = IF screen = "ALERT" /\ alert.title = "WIFI" THEN Settled ELSE alert
    /\ UNCHANGED <<nav, wifi, calm>>

oyobyok_app_busy == screen = "ALERT" /\ alert.busy

\* Mutant of TimeOut: an operation the host believes in is waited for beyond its limit.
TimeOut_WaitsForDone ==
    /\ q = <<>> /\ oyobyok_app_busy
    /\ ~s_serving /\ alert.limited /\ ~s_sync_busy
    /\ alert' = Settled
    /\ UNCHANGED <<nav, wifi, calm, q, lost>>

\* oyobyok_app_tick when the limit is reached.  Ticks come only while the queue
\* stays empty; the seconds before the limit change nothing modelled here.
TimeOut ==
    /\ q = <<>> /\ oyobyok_app_busy
    /\ ~s_serving /\ alert.limited
    /\ alert' = Settled
    /\ UNCHANGED <<nav, wifi, calm, q, lost>>

-----------------------------------------------------------------------------
Moves ==
    \/ OpenSynchronise \/ OpenProjects \/ OpenList \/ \E m \in {"WIFI", "SFTP"} : OpenSubmenu(m)
    \/ \E k \in Leaving : MenuBack(k) \/ ListBack(k) \/ Browse(k) \/ DismissStatus(k)
    \/ \E p \in Projects : PickRepo(p)
    \/ PickForPush \/ PickKnown \/ PickNetwork
    \/ EnterName \/ EnterPassword \/ LeaveEntry
    \/ SaveClose \/ DismissAlert \/ EscapeAlert \/ IgnoreKey

Starts ==
    \/ NotReady \/ GitSync \/ GitStatus \/ SshTest \/ SftpPush \/ SftpServe
    \/ DiskMode \/ ToggleWifi \/ DisconnectWifi

Answers ==
    \/ oyobyok_app_ssh_result \/ oyobyok_app_sftp_result \/ oyobyok_app_git_result
    \/ \E c \in {"WIFI_OK", "WIFI_FAIL"} : oyobyok_app_wifi_result(c)

HostStep == Moves \/ Starts \/ Answers

\* Steps of a task that do not depend on anybody: network timeouts bound every
\* git, SSH and SFTP call, and a server told to stop leaves its accept loop.
TaskFair ==
    \/ TaskBegin \/ TaskWorks \/ TaskStatus \/ TaskPost \/ TaskClear \/ TaskExit
    \/ s_stop /\ TaskServed

Next ==
    \/ HostStep \/ TimeOut \/ TaskFair \/ TaskServed
    \/ \E k \in Keys : UserPress(k)
    \/ WifiUp \/ WifiFails \/ WifiLost

Spec == Init /\ [][Next]_vars

\* The host thread always takes the next message, a waiting host ticks, and a
\* running task goes on.  Nothing is assumed of the user or of the radio.
FairSpec == Spec /\ WF_vars(HostStep) /\ WF_vars(TimeOut) /\ WF_vars(TaskFair)
-----------------------------------------------------------------------------
(* Properties.                                                             *)

InFlight == task.pc \in {"created", "body", "posting"}

Pending == InFlight \/ HasDone(q)

NetworkAlertUp == oyobyok_app_busy /\ alert.title \in {"Git", "SSH", "SFTP", "SERVE"}

\* The user never waits for nothing: while the host believes an operation is
\* under way, or shows a busy alert for one, a task that has yet to post its
\* DONE code runs, or a DONE code is queued - unless one met a full queue.
\* (net_spawn's refusals post the code themselves; every task posts once.)  An
\* alert left by Ctrl-S stays busy, and the next text shown as an alert with it.
BusyHasCompletion == (s_sync_busy \/ (NetworkAlertUp /\ ~left)) /\ ~lost => Pending

\* The radio is held for a running task: the flag that keeps sync_radio(0) from
\* switching WiFi off is set from the spawn to the task's own DONE code, except
\* after a DONE code of another operation was queued meanwhile.
TaskHoldsRadio == InFlight /\ ~crossed => s_sync_busy

\* Nobody walks away from a running server: while s_serving is set its alert is
\* up, cannot be dismissed by Enter, and WiFi is on, with the same exception.
\* The one way out is Ctrl-S with a file open.
ServingIsAttended == s_serving /\ ~crossed /\ ~left => oyobyok_app_busy /\ wifi # "off"

\* A serving task has its owner: as long as it runs, s_serving is set, so that
\* Esc on an alert goes to oyobyok_sshd_stop, with the same exception.
ServerHasOwner == InFlight /\ task.kind = "serve" /\ ~crossed => s_serving

\* The inductive invariant behind the four above.  What it adds: a busy alert
\* is on the screen, unless Ctrl-S led away from one; the slot is taken exactly
\* while its task may touch it; unless operations crossed, no DONE code is queued
\* while a task has yet to post its own, and while serving only the server's can
\* come.
BusyIsShown == alert.busy /\ ~left => screen = "ALERT"

SlotIsTaken ==
    /\ s_net_running <=> task.pc \in {"created", "body", "posting", "clearing"}
    /\ s_net_running => HasStack
    /\ task.pc # "none" => task.kind # "none"

OneDone == InFlight /\ ~crossed => ~HasDone(q)

ServerAlone ==
    s_serving /\ ~crossed /\ ~left =>
        /\ screen = "ALERT" /\ alert.busy /\ alert.title # "WIFI" /\ wifi # "off"
        /\ InFlight => task.kind = "serve"
        /\ \A i \in 1..Len(q) : q[i] \notin {"GIT_DONE", "SSH_DONE"}

\* The whole of it, from which the four invariants above follow for any
\* projects, queue length and rows.
IInv ==
    /\ TypeOK /\ BusyIsShown /\ SlotIsTaken
    /\ BusyHasCompletion /\ OneDone /\ TaskHoldsRadio
    /\ ServerAlone /\ ServerHasOwner

\* The user presses no more keys from some point on.
UserIsDone == <>[][~\E k \in Keys : UserPress(k)]_vars

\* A user who puts the device down finds no busy alert when coming back: each
\* one ends by its result or by its limit, even if the DONE code was lost.  Only
\* a server waits for ever.
AlertSettles == UserIsDone => <>[](~oyobyok_app_busy \/ s_serving)

\* The host stops believing in an operation some time after it started, whatever
\* the user does meanwhile: no op is left open (a lost DONE code and a running
\* server aside).
BusySettles == s_sync_busy ~> (~s_sync_busy \/ lost \/ task.kind = "serve")

\* A server told to stop once it runs does stop, and the host learns of it
\* (unless the DONE code met a full queue), so that its alert can be left.
ServerStops == (task.kind = "serve" /\ task.pc = "body" /\ s_stop) ~> (~s_serving \/ lost)
=============================================================================
