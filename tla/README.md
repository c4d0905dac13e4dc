# OYOBYOK, a TLA+ development

OYOBYOK is a handheld writing device: an ESP32-S3 with a small display, a Bluetooth keyboard
and an SD card, which edits text files and exchanges them over git and SFTP.  The firmware is
C.  This directory holds TLA+ models of the parts where several parties meet, the
configurations TLC checks them with, and proofs TLAPS checks.

Paths below are relative to the repository; `app.inc` is
`firmware/shared/oyobyok_app.inc`, `main.c` is `firmware/main/oyobyok_main.c`, and a name
like `git.c` stands for `firmware/components/oyobyok_git/oyobyok_git.c`.

## 1. The system

| Part | State it keeps | Operations | Talks to |
| --- | --- | --- | --- |
| Screens (`app.inc`) | the screen, menu and list shown; the alert; the open file; flags about network work | a key, a completion, a second passing | hooks of `main.c`; the radio; the LED |
| Host loop (`oyobyok_host.c`) | none of its own | takes one message at a time from the key queue, renders | everybody posts into its queue, and drops what does not fit |
| Network task (`main.c`) | one slot, one static stack, message buffers per kind of work | git sync, git status, SSH test, SFTP push, SFTP server | posts a DONE code into the key queue |
| Git engine (`git.c`, libgit2) | a repository on the card | commit, fetch, reconcile, push | the folder the editor writes; the remote |
| SFTP server (`sshd.c`, `sftpd.c`) | one session, a stop flag, file handles | accept, serve, stop | the same folder |
| SSH client (`ssh.c`) | none between calls | connect, push a tree | a server |
| WiFi station (`wifi.c`) | enabled, connecting, retries, target, address | on, off, scan, connect, events of the stack | posts OK and FAIL |
| Keyboard link (`blehid.c`) | device, wanted, scanning, fresh pairing, a task | scan, pair, reconnect, forget | keys into the queue |
| Editor (`app.inc`) | an 8 KB buffer, cursor, selection, clipboard | keys; load and save a file | the card |
| File manager (`app.inc`) | directory, marked entry | new, rename, move, delete | the card |
| LED, buttons, power, display | latches, counters, filters | polled or called | pins |
| Disk Mode (`disk.c`) | the card belongs to the computer | enter, restart | the card |

What is hard here is not any of these alone.  Three tasks and the WiFi stack's events run
beside the host thread and share with it a bounded queue, plain global variables and the card:

* a completion is a message.  It can come late, after its alert ended by limit or by Esc; it
  can be refused by a full queue; it can meet an operation it does not belong to;
* the slot of the one task is freed after its completion was posted;
* the radio is shared by pages, operations and the server, and who leaves last switches it off;
* a sync is some twenty steps on a file system, in the background of an editor that writes the
  same folder, on a device that may be switched off at any time, against a remote that moves.

What makes each part correct:

* screens and task: nobody waits for a completion that is not coming; a running operation keeps
  its radio; a running server can be seen and stopped, until Ctrl-S leaves it; every busy alert
  ends;
* git: nothing saved is lost; a failed sync leaves what it found; nothing leaves the remote;
  both sides converge;
* WiFi: connected means enabled; an attempt ends in exactly one answer;
* keyboard: at most one connection task; a remembered keyboard that shows a name of its own is
  reconnected; a forgotten one is not;
* editor: cursor, selection and text stay in bounds; what is saved is what was typed;
* file manager: an entry moves or stays, and is never in two places or in none.

PROJECT.json lists the places where each of these could go wrong ("hazards"), with the
property that would notice.

## 2. Modules

    Replica          what git synchronisation promises: two copies that exchange edits
       ^ implements
    GitSync          git_sync with the libgit2 calls it makes, step by step
       MCGitSync     its instances          GitSync_proofs   its theorems
    Station          what the WiFi station promises the screens
       ^ implements
    WifiLink         the WiFi station: host thread, event task, radio
       MCWifiLink    its instance           WifiLink_proofs  its theorems
    NetOps           host loop, screens, the network task, the radio as the screens see it
       MCNetOps      its instances          NetOps_proofs    its theorems
    BleLink          the Bluetooth keyboard: screens, connection tasks, kickers, events
       MCBleLink     its instance           BleLink_proofs   its theorems
    SftpSession      one client of the SFTP server: windows, buffers, handles
       MCSftpSession its instance           SftpSession_proofs  its theorems
       Total         the sum of a sequence of numbers
    Editor           text, cursor, selection, clipboard, files
       MCEditor      its instances          Editor_proofs    its theorems and those of Layout
       Layout        the word wrap of the code
    Files            the file list and what it does to the card, the editor and alerts around it
       MCFiles       its instance           Files_proofs     its theorems
    Sums             induction, recursive functions and sums, for the proofs

### NetOps

One action is one message handled by the host thread (`apply_key` and everything the handler
calls), one step of the task between two points where another thread can see a difference, or
one event of the radio.

| Model | Code |
| --- | --- |
| `q`, `Post` | the key queue of 32 and `xQueueSend(...,0)`, which drops at a full queue |
| `OpenSynchronise` ... `DismissStatus` | `app_enter` and `app_esc` by screen; `Browse` is the file list |
| `SaveClose` | `oyobyok_app_save_close`: Esc in the editor, and Ctrl-S on every screen as long as a file is open (`host.c:43`) |
| `GitSync`, `GitStatus`, `SshTest`, `SftpPush`, `SftpServe`, `DiskMode`, `ToggleWifi`, `DisconnectWifi` | the rows of `menu_select` that start work, with the hook in `main.c` each calls |
| `net_spawn` | the slot: refused while one runs, and a DONE code posted all the same |
| `TaskBegin` ... `TaskExit` | the trampoline: the operation, `post_ctl(..._DONE)`, clearing the slot, leaving the stack; a server's task clears the stop flag as it begins |
| `oyobyok_app_*_result`, `op_finished` | the completions |
| `TimeOut` | `oyobyok_app_tick` reaching the alert's limit; the seconds before it change nothing that is modelled |
| `wifi` | off, on, trying, up: `s_enabled`, `s_connecting`, `s_connected` as the screens ask for them |
| `crossed`, `lost` | history, for the properties: a DONE code was queued for one operation while another ran; a DONE code met a full queue |
| `left` | history: Ctrl-S led away from a busy alert, which stays busy; the next alert is busy with it |

An operation's own work is "succeeds or fails".  Rows that lead to pages outside this module
(files, Bluetooth, settings) are left out, and so are the keys that only move a selection: the
row is chosen when Enter is handled.

### GitSync

One project, one file, one branch.  A text is the set of edits it holds, a commit is the
sequence of texts that leads to it, so an ancestor is a prefix.  (Two commits with the same
history of texts are one here.  In git the second is diverged, and a rebase drops it as
applied already: both ways end in the same text.)  A file with conflict markers holds both
sides.

One action is one step after which a power loss, a save from the editor or a push of somebody
else makes a difference: `OpenOrInit`, `AddOrigin` (`open_or_init`), `Recover`, `Commit`,
`Fetch`, `Reconcile`, `FastForward` and `Advance`, `RebaseInit` ... `RebaseAbort`
(`do_rebase_onto` with the libgit2 functions it calls: the dirty check, the checkout of the
new base, the detached HEAD, one merge and one commit per commit replayed), `Push` and `Send`
(the server announces its tip, then takes the update from that tip), `Rollback`.  Each
fallible step has a failing twin, bounded by `MaxFails`: `RebaseFails` is a step of the rebase
that ends in `git_rebase_abort`, `RebaseBreaks` the card failing so that the rebase is neither
finished nor aborted (the move of HEAD, whose failure leads to the abort; finish, likewise; the
abort, at whose result nobody looks), and `AddOriginFails` an origin that could not be written,
which `open_or_init` ignores.  `RebaseCrowded` is no failure of anything: more than 16 files are
in conflict, the rest stays unmerged, and the commit of the replay is refused.  It may happen at
every sync, and no bound ends it.  A card error half-way through one checkout of libgit2 is not
modelled.

libgit2 writes a file through a `.lock` beside it.  `locks` says which of them a power loss has
left on the card: that of the index, of the branch, or of the remote-tracking branch (`Writes`
says at which steps each can be).  Nothing removes one, and `filebuf.c:46` refuses to write the
file from then on; the steps that write it fail whenever it is there (`WriteFails`), and the
others go on.  The lock of `FETCH_HEAD` stops nothing, since its result is not looked at
(`remote.c:1586`).  That of `HEAD` is not modelled.

libgit2 is vendored, and what `git_sync` relies on was read there: a rebase refuses a dirty
folder (`rebase_ensure_not_dirty`), a safe checkout refuses a file it did not expect,
`git_rebase_abort` resets hard, a push checks fast-forward against the announced tip, and a
ref the server refuses is reported through a callback only.

Around it are `OpenFile` and `SaveFile` (the editor reads on opening and writes its whole
buffer on closing), `OtherPush`, and `PowerLoss`.  A push cut off by a power loss, or by a broken
connection, has reached the server or not (`Arrived`).

Three history variables name what the code does not protect against: `clash` (the editor saved
while a rebase had the folder in pieces), `stale` (it saved over a text it had not read) and
`cut` (a rebase was cut short, by a power loss or by `RebaseBreaks`).  The safety properties are
stated outside of these three, and the run `git_doc_save` shows one of them at work.

### Replica

Two copies, of the device and of the remote.  Either side writes, and either side takes over
something the other holds.  `GitSync!Exchanges` maps the device's copy to the folder (to the
branch while a rebase is under way) and the remote's to the text of its tip.  It says that no
step of commit, merge, replay, rollback or push takes back what either side wrote.

### BleLink

`blehid.c` runs on four threads that share plain variables: the host thread (scan, pick,
forget), the connection tasks, one kicker per open, and the event task of ESP-IDF's HID host.
The variables of the model are the file's (`want` is `s_want_conn`, `conn` is `s_conn_bda`, and
so on), with the radio link, the bonds and the queued events added.

| Model | Code |
| --- | --- |
| `Autoreconnect`; `Scan`, `ScanStarts`, `ScanEnds`; `Pick`, `PickSets`, `Ensure`; `Forget` | the calls of the screens, cut where they wait |
| `Starts` ... `Leaves` | `ble_conn_task`: search by name, open (connect, then discover services), judge the result, try again or leave |
| `KickerSecures`, `KickerSaves`, `KickerStalls`, `KickerEnds` | `ble_sec_kicker` |
| `Handle` | `hidh_cb` for open, failed open, close, and a close that says a key is missing |
| `Drops`, `Refuses`, `LosesKey`, `Connects`, `Discovers` and their failures | the keyboard, and the HID host as the code uses it |

A keyboard stands for its address; that an address rotates is the free choice in `KickerSaves`.
The name it shows is another value (`NameOf`), and it may show none: a scan keeps the name of the
first advertisement only (`esp_hid_gap.c:262`), and such a keyboard is listed, and saved, as
"(keyboard)" (`Nameless`).  A reconnection goes by the name saved and skips keyboards without one
(`Findable`).  The wait of a call is a guard: it ends when the task it waits for is gone, or
in a place that can take longer.  A connection lost is reported by a close event, as `hidh_cb`
expects; the comment at `blehid.c:288`, that it sometimes is not, is about the HID host.
`Reboot` keeps what is in NVS and the bonds.  Key reports, their repetition and the connection
parameters are not modelled.

Four history variables name what the code does not protect against: `tangled` (two connection
tasks at once), `missed` (a close handled between a task's last look and its clearing of the
flag), `joined` (a pick that finds an earlier attempt unfinished), `raced` (a forget in the
middle of an attempt).  `Ambiguous` names the fifth case, a name that does not tell which keyboard
is meant.

### WifiLink and Station

`wifi.c` has two threads: the host thread switches, connects and scans; the event task of
ESP-IDF calls `on_wifi`.  They share plain variables, and what the event task handles may be
about an attempt that the host has called off or replaced since.

| Model | Code |
| --- | --- |
| `TurnOn`, `TurnOff`, `Scan`, `Connect`, `ConnectKnown`, `Disconnect`, and their failing twins | the calls of `wifi.h`: what they do to the variables |
| `Tell` | the calls of `esp_wifi` they end with, after which another event may follow |
| `Starts`, `StartFails`, `ThreeSeconds` | `ensure_started` and its limit of one try in three seconds |
| `StaStart`, `StaDisconnected`, `GotIp` | `on_wifi`: the event is taken and decided upon |
| `Again`, `GiveUp`, `Named` | the rest of the same handler, after which the other thread may have come in between |
| `Joins`, `JoinFails`, `Address`, `Drops` | the radio and the network, as the code uses them |
| `known`, `Long` | the networks in NVS: a key holds 15 characters, a longer name is not saved |

`failed` counts the tries of an attempt that failed by themselves; `mixed` says that news of an
earlier attempt was under way when this one began.  `Station` is the view from the screens:
off, idle, trying, up, with one message for each attempt that is not called off, and late
messages of those that are.  `Implements` maps the station to it; while the event task is
between ending an attempt and writing the name, it still counts as trying.

### Editor and Layout

A position is the number of characters before it.  Each key is an action; `Move` is the whole
of `app_nav` for a cursor key, with or without Shift, and a page is `EVIS - 1` lines one after
the other.  `Crashes` is the call of `memmove` with a negative length (see section 6).
`Junk` stands for what `ed_copy` picks up behind the end of the text.  The card is `ok`,
`full` (takes a part of a text and says nothing) or `gone` (`fopen` fails); it may change between
any two keys, so that a file opened while it is gone is shown as an empty text, and is written back
as one when the card is there again.  Esc and Ctrl-S close the editor in the same way
(`SaveClose`), and Ctrl-S does it over the message of a failed save too.

`Layout` is `ed_layout` of the code.  A `Round` is one pass of its loop, but for a word longer
than a line, of which a round takes what one line takes; `ed_layout` is as many rounds as the
text has characters, which is enough, and a round at the end of the text changes nothing.
`MaxLines` is `ED_MAXLN`, the lines that may be begun.  Keys use the result as `LineStarts`;
the assumption `LaidOut` of `MCEditor` makes TLC compute it for every text before it starts.

### Files

The card is a function from paths to what is there.  FatFs is modelled as it is used: it
refuses a name that is taken, and a folder moved below itself is lost.  The list on the screen
is what the last `browser_refill` read (`list`), and every action that refills it does so in
the model.  A row stands for the name as the list shows it, cut at 46 characters (`Listed`); a
pick of such a row is counted as a trouble.  `Elsewhere` is another program that writes the
card between two keys: a sync, or an SFTP client.  `Says`, `AskStatus`, `StatusComes` are the
alerts and results that come over the editor.  `SaveClose` is Esc in the editor and Ctrl-S on any
screen with a file open; it writes to the file's name in the folder shown, whichever that is by
then.  `SaveCut` is the same on a card that fills up: the file is cut, and the text is let go all
the same.  What a name in an entry is for (`entryCtxFS`, `entryCtxRename`) is kept when Ctrl-S
leaves the entry, as in the code, and a WiFi entry opened later finds it.

`marked` and `home` remember what the user picked and where the open text came from; `over`
and `blurred` name what the code does not protect against: a status that replaces the alert of
a failed save, and a row with a cut name.

### SftpSession

One client.  Lengths are counted in units; each direction is a stream, so the input buffer is
known by its length and by what the client sent.  `at` is where the server is: reading
(`top`), looking for a whole request (`drain`, `sftp_drain`), or sending a reply (`reply`,
`chan_send_data`).  A server that waits for room reads packets from within the sending, and
only puts requests aside (`NextAt`).  The client sends ahead of the answers, within the window
it was given, gives back the room it has read, and may end, or leave, at any time.  Key
re-exchange, packets ignored and requests outside of a subsystem change nothing of this.

## 3. Runs

| Run | Instance | Shows |
| --- | --- | --- |
| `net_git` | one project; Sync, Status, pages, editor, Serve, so that a file can be open under the serving alert | `BusyHasCompletion`: no flag and no alert waits for a completion that is not coming; `ServingIsAttended`, `ServerHasOwner`: a running server has its alert, its radio and a way to stop it, until Ctrl-S leads away; `IInv`, the invariant the proofs use, types with it |
| `net_sftp` | Send and Serve, with fairness | `AlertSettles`, `BusySettles`, `ServerStops`: all of it ends |
| `net_radio` | every switch of the radio, SSH test, Disk Mode | `TaskHoldsRadio`: the flag that holds the radio is set while a task works |
| `git_sync` | two edits of the device, one of another computer, one failure, one power loss that may leave a lock, no restriction on the editor | types; `NothingLost`; `RemoteHistoryGrows`; `LeavesAsFound` |
| `git_careful` | two and two edits, one failure, one power loss, `CarefulNext` | `Exchanges` (refinement of Replica) and `EventuallyInSync` |
| `git_doc_save` | one edit on each side | see section 6 |
| `ble_link` | three keyboards, two with names of their own and one without, two tasks, one act of the user after boot, one trouble | types; `NoGhost`: what is shown as connected is linked or about to be noticed; `ScanOwnsRadio`; `ForgottenStays`; `Reconnects`: a wanted keyboard that shows a name of its own comes back at boot and after a drop, with or without its key; `OutcomeArrives` |
| `wifi_link` | two networks, one with a long name, three calls, one trouble | types; `NamedIsLinked`, `OkIsTrue`: what the screens are told is so; `TriesBeforeFailure`; `AttemptEnds`; `OffIsClean`: nothing is left of a network once it is off; `Implements` (refinement of Station) |
| `sftp_session` | one handle, four requests, windows smaller than what is asked | types: the input never passes its buffer; `AnswersInOrder`; `WindowsAgree`; `HandlesAreKnown`; `Answered` |
| `editor_edit` | every text of up to four characters out of a letter, a space and a newline; seven keys | types: cursor in the text, text in the buffer; `SelectionIsAnchorToCursor`; `LinesFit`; `KeepsText`; `LooksChangeNothing` |
| `editor_doc_selection` | the same | see section 6 |
| `files` | a project with a file and a folder with a file whose name is cut; one new entry, one trouble | types: the card stays a tree; `TextsStay`; `UnsavedIsKept` |

**Bounds.**  `QCap = 2`: the queue has to hold a completion and a key, be full, and drop; the
device's 32 allows the same three situations, and `IInv` is proved for every length. `Rows`
splits the menu over the runs, because every row reaches every screen and their product is out of
reach; the rows that can disturb each other are together (both git verbs, and Serve with the one
way to have a file open under an alert; both SFTP ones; everything that touches the radio).
`net_git` has a constraint, `Followed`: at most one of `lost`, `crossed` and `left` happens in a
behaviour; after crossed operations, which are an exception to what is said of a server, none is
started; and a server is followed until it has stopped (`net_sftp` goes on from there). The
proofs are for all rows. `HasStack` is TRUE in the runs and arbitrary in the proofs.  Two edits
of the device let it commit twice before it meets the remote, so that a rebase replays more than
one commit; `MaxTip` lets others push until the branch has two commits (three in `git_careful`),
twice or more in between.  One failure and one power loss in any place are enough for every error
path and every recovery, and for both in one behaviour.  The two edits of the device are
interchangeable, and `git_sync`, which checks no liveness, uses that (`SYMMETRY Alike`); of the
three exceptions `cut`, `clash` and `stale` it follows one in a behaviour (`OneLoss`). In
`ble_link` one of the two keyboards with a name is the one that may be saved at first, since they
are alike until then (`LinkInit`).  In `ble_link` the user's one act (`MaxOps`) comes on top of
the connection made at boot, and a scan and the pick after it are one act, so that a pick meets
another keyboard's attempt; the one trouble is a drop, a failure or a lost key in any place, and
the refusals, stalls and closes that follow from it are not counted. Two tasks are enough for the
second that a race can create.

In `wifi_link` three calls are an attempt, one that replaces it or calls it off, and one
more in between, with `MaxRetry` as in the code; refused tries are not bounded, the trouble is a
lost link, a network that gives no address or a failed bring-up.  In `sftp_session` the client
gives one unit of room, so that a reply of two waits in the middle; four requests are more than
the input buffer of three holds and reach the half of a window of four at which room is given
back; one handle makes every second open a failing one.  Four requests let an open, a use, a
close and a second open meet.  In `editor_edit` a line has two columns and
the table four lines, so that words wrap, are broken, and fill the table; seven keys are
enough to select, cut, move and paste in a file that was opened, with the card changing in
between.  In `files` the depth of three lets a folder go below another; the new entry
(`MaxNew`) may take any name that is there.

**Fairness.**  `NetOps!FairSpec`: the host thread handles the next message (its loop has no
other wait), a host with an empty queue and a busy alert ticks (`oyobyok_host_run` waits one
second then), and a task goes on (every network call has a timeout, and a server told to stop
leaves its accept loop).  Nothing is assumed of the user, the radio or a server nobody stops.
`GitSync!FairSpec`: the task that runs a sync goes on, and the user starts another one some
day.  Failures, losses of power and other people's pushes are bounded, so they end.
`BleLink!FairSpec`: calls, connection tasks, kickers and the event handler go on (each of their
waits has a limit), and the keyboard's troubles end.  Nothing is assumed of the user.
`WifiLink!FairSpec`: a call reaches its end, the event task goes on, and a network answers a
try with yes or no (ESP-IDF has limits for it); one that lets the station join and never gives
it an address stays as it is, and `AttemptEnds` names it.  `SftpSession!FairSpec`: the server
goes on; the client sends what it asked, reads, and gives room back.  A client that does not is
dropped after `IDLE_SECS`.  Nothing makes a client ask, end or leave, and nobody has to stop
the server.  `Editor` and `Files` are sequential: they have no liveness.

## 4. Proofs

All theorems hold for every value of the constants that the modules' assumptions allow.

`NetOps_proofs` proves `IInv` inductive.  `BusyHasCompletion` alone is not: one has to know that
the slot is taken exactly while its task may touch it (`SlotIsTaken`), that a busy alert is on
the screen unless Ctrl-S has left one (`BusyIsShown`), that unless operations crossed no DONE
code is queued while a task has yet to post (`OneDone`), and that while serving nobody else's
DONE can come (`ServerAlone`).  Everything it says of the alert ends with the first Ctrl-S over a
busy one (`left`): from then on the code itself does not know what it shows.  What it says of
slot, task, radio and the server's owner does not.  The steps fall in four groups, and each group
has one lemma with what it needs of the state: steps that leave network work alone, steps of the
task, starts, and completions.  From it follow `TypeCorrect`, `BusyCompletes`, `RadioIsHeld`,
`ServerIsAttended`, `ServerCanBeStopped`.

`GitSync_proofs` proves `TypeCorrect` (with it, that a rebase replays only commits that
exist), and `RemoteGrows`: no step takes a commit off the remote.  The invariant behind the
latter is that between announcement and update the branch still continues the announced tip.

A rebase whose conflicts are too many, and a lock left on the card, add no part to it: they only keep
steps from being taken.

Its second half proves the rest of what the runs check of safety.

- `NothingIsLost` (`NothingLost`).  The invariant `Kept` holds as long as nothing has happened
  that the code does not protect against.  Its three parts: every branch only grows, so a
  commit holds what its ancestors hold (`HistoriesGrow`); outside of a rebase the folder holds
  the branch, so moving the branch back or on loses nothing (`FolderKeepsUp`); inside, the
  commits replayed so far are in the text they were replayed on (`RebaseKeepsUp`).  With the
  first and the last, the parent of a commit is on both sides of its merge, and a merge keeps
  both sides (`MergeKeeps`).
- `RollbackUndoes` (`LeavesAsFound`): `Undoes` says where the branch will be taken back to, and
  that until then branch and folder still hold the text the sync found.
- `SyncExchanges` (`Exchanges`): with `TakesOver` (what the device takes over came from the
  remote) every step of a careful user's syncs is a step of `Replica` or a stutter.  A
  fast-forward and the end of a rebase are a Pull, the server's update is a Push, a save is a
  Write; a rebase in between is invisible.

`WifiLink_proofs` proves what `wifi_link` checks of safety, for any networks, tries, calls and
troubles.  What the radio does, the news of it and the decision of the event task move apart;
`Apart` says how far.  An address announced and not followed by news of its loss is there
(`AddressIsThere`); outside of a call the radio is engaged with the target (`JoinsTarget`), and
so is the name (`NameIsTarget`); what crosses the begin of an attempt is remembered
(`MixIsNoted`).  `NamedCorrect` and `OkCorrect` follow; `ImplementsStation` takes one case
per action, with `LostIsNameless`, `EnabledTries` and `TargetFirst` for the steps that need to
know what the screens see before them.  `TriesCorrect` (`TriesBeforeFailure`) rests on a count,
`Counted`: retries used, losses still queued and the one being decided together are at most
the tries that failed, and one more for the disconnect `do_connect` begins with.  It needs that
a decision is about a running attempt (`DecidedOn`), which holds because whoever calls an
attempt off does so before anything else (`CalledOff`).  `NothingIsStranded` and
`NothingIsLeft` are what `AttemptEnds` and `OffIsClean` need of every state: with caller and event
task at rest and no news queued, an attempt still waited for is in the hands of the radio, and
with the radio off neither name nor address is left.  `Unfinished` says who carries on in between.

`Editor_proofs` proves types (`TypeCorrect`), that a selection goes from its anchor to the cursor
(`SelectionCorrect`), that a text is not let go before the card has it (`TextKept`), and that
looking at a file that could be read changes nothing (`LooksAreHarmless`), for any buffer,
characters, files and screen.  Most of the work is in the types: that up and down land in the
text (`UpDown`), and that a page, as many such steps, does (`GoesInText`).  The strengthening of
the last two is that the open text is the one its file had (`Read`).

Its second section is about the layout of a text of any length, and needs no state.  `Laid` is
what every round of the loop finds and leaves: the table so far is in order, every line closed so
far fits, the column is the distance from the latest start, and a round in the middle of a line
begins behind a space, at a newline or at the end.  `RoundKeeps` proves it round by round, and
that each moves on; `LayoutIs` takes it to the end of the text.  From there `LinesCover` says that
every character is on a line and that the table, once full, still has room for the end of the
text; and `LinesAlwaysFit` is `LinesFit`.

`BleLink_proofs` proves `IInv` inductive for any keyboards, tasks, acts and troubles.  Its parts:
a device kept open has its link, or the news of the loss is under way (`OpenIsUp`, `NoGhost`);
unless tangled there is one task (`OneTask`), so a scan that waited for it has the radio
(`ScanOwnsRadio`); whatever can still save or want a keyboard was begun for one that is wanted
(`SomebodyWanted`, `NothingForgotten`).  Steps fall in those that leave a group of variables as
it is (`Quiet`, `TasksQuiet`, `Idle`) and a few that do not.  From it follow `GhostCorrect`,
`ScanCorrect` and `ForgottenCorrect`.

On top of it, `Hunt` is what its two liveness properties need of every state: outside of the
named races a wanted keyboard that is not in use has somebody who looks for it (`LostIsSought`),
and a pick without an answer has somebody who works at it (`PickIsAwaited`).  Both rest on
`ScanUnwanted`, which lets no task give up for a scan while the keyboard is wanted; on
`FirstTry`, since the first failure of a pick is the one that is told; and on `EnsureWorks`: who
finds the flag down has a task afterwards.

`Files_proofs` proves, for any names, depth of tree, rows and changes of other programs, that
the card stays a tree (`TypeCorrect`), that a text leaves it only in the ways `TextsStay` names
(`TextsCorrect`), and that what was typed is kept, but for a card that fills up and a status that
leads away from a failed save (`UnsavedCorrect`).  The first half is about
paths: `UnderOrder` makes "at or under" an order, `TreeIs` states a tree by what is above an
entry, and `PutTree`, `RemoveTree`, `RenameTree` say that each change of the card keeps it one;
`MovedTree` is a whole subtree under a new name, for which one has to know that the new place is
not below the old one.  The invariant says that a marked entry is the one picked in the folder
shown, and that an entry being moved is neither that folder nor above it (`Unmixed`); that is
why a move cannot swallow itself, although all the code does against it is to leave the entry
out of the list while it is being moved.  `OpenIsHome`
says that the open file is in the folder shown, up to the status that leads away from the editor.

`SftpSession_proofs` proves `OrderCorrect` and `HandlesCorrect` for windows, buffers, packets and
handle tables of any size.  `NoGap` places every packet under way in the stream of replies: each
one begins where the one before it ends, the first where the client is, the last where the
server is, with positions as witnesses; `Replying` ties the reply in the buffer to its
request.  Sending appends a position, receiving takes the first off, and packets without data
have the same place before and after (`AppendEmpty`, `TailEmpty`).  `Owners` says that a handle
in use is in exactly one place: with the client, in the reply buffer, in a reply under way, or in
a close not yet handled; with nothing asked and nothing under way only the first is left.

`Balanced` accounts for the windows: what a side believes it may send, what is under way and
what the other has yet to give back make up the window that was given, and the server gives
back before half of its own is used up.  What is under way is a sum over a queue (`Under`).
`WindowsCorrect` and `TypeCorrect` follow, and `NeverStuck`: with nothing under way, a server that
waits for room has a client with room to give back, and the client has room to send.  It is
what keeps two programs that each wait for the other's window from waiting for good, and the
reason `Answered` holds beyond the instance of the run.

`Sums` is what these proofs stand on where something is counted or repeated.  The induction
theorems of the library take a predicate, which the provers cannot instantiate; `Least`,
`Induction` and `InductionUpTo` say the same of a set, from the library's fact that `<` is well
founded on the naturals.  `Recursion` is that a first value and a rule for the next give a
function, so that `Total` (a recursive function) is the sum it looks like (`TotalIs`), and
`ed_layout` is the result of its rounds.

Only model-checked: the liveness properties, `AlertSettles`, `BusySettles`, `ServerStops`,
`EventuallyInSync`, `Reconnects`, `OutcomeArrives`, `AttemptEnds`, `OffIsClean` and `Answered`
(TLAPS has no proof rule for fairness here; the invariants some of them rest on are proved).
Every invariant and every action property a run checks, and both refinements, are proved.

## 5. Not modelled

- libgit2, by far most of the C in the tree, is vendored.  What `git_sync` relies on is in
  `GitSync`; the rest is a library this program does not reach or uses as a function, and a
  model of it would say nothing about this program.
- Cryptography, key exchange and the parsing of packets (`sshd.c`, TweetNaCl, mbedTLS): data.
- Rendering, fonts, the key map, settings files, configuration files: data or output, with which
  no other party can interfere.
- Buttons, battery and LED priorities: one polling loop each, over measured values.
- What SFTP requests do to files, and the walk of the SSH client over a tree: in `Files` they
  are `Elsewhere`, any change of another program.
- `git_status` beyond its completion, `git_ensure_repo`, several files in one project.
- Key reports and the repetition of a held key (`blehid.c`).
- The desktop emulator, tests and the documentation site.

## 6. Disagreements

Where the code and a text of the repository disagree.  Where a run is named, it shows it; the others
were met while modelling, and the models do as the code does.

| Run | Text | Code |
| --- | --- | --- |
| `git_doc_save` | `git-sync.md:17` and `:30`: syncs finish in the background, nothing is lost | a save during the rebase makes it abort, with a hard reset of the folder |
| `editor_doc_selection` | `writing.md:69`: the selection is underlined text; Backspace and Delete remove it | `ed_insert`, `ed_backspace` and `ed_del_forward` keep the anchor (`app.inc:275`); once it lies behind the end, the next selection reaches behind the text, and removing it is a `memmove` of negative length |
| - | `docs/docs/using/git-sync.md:17`: after Esc "the LED shows the result either way" | `app.inc:668` returns before the LED when the alert is gone; the rainbow stays |
| - | `git-sync.md:26`: Status shows how far you are ahead and behind | a DONE code shows whatever status is ready, under the name of the project picked last (`app.inc:669`, `main.c:204`) |
| - | `writing.md:65`, `app.inc:677`: Ctrl-S in the editor writes the file and returns to its folder | Ctrl-S asks only whether a file is open (`app.inc:678`); once a status has led away from a failed save, it writes the open text to its name in the folder shown by then, over a file of that name |
| - | `first-boot.md:76`: once paired, a keyboard comes back at boot and after any drop | one whose first advertisement has no name is saved as "(keyboard)", and the search skips whatever shows no name (`blehid.c:241`) |
| - | the same | the search goes by the name: of two keyboards that share one, it may take the other |
| - | `sftp.md:24`: Esc stops the server, and WiFi stays up for as long as it serves | Ctrl-S with a file open leaves the alert for the list (`host.c:43`): the server runs on, unseen, and WiFi can be switched off under it |
| - | only a message about work under way is to be waited for (`app.inc:617`) | the same Ctrl-S over any busy alert: `alertBusy` stays set, and the next message (`app.inc:140`) takes no Enter although nothing is awaited: Esc or a limit ends it |
| - | an entry does what it was opened for | Ctrl-S leaves an entry without clearing what it was for (`entryCtxFS`, `entryCtxRename`): a network name or password typed later names a file, or renames the marked one |
| - | `writing.md:77`: your text is safe from a card that fails | a file opened while the card does not read is shown empty (`app.inc:222`), and Esc writes that back once the card is there |
| - | `git-sync.md:36`: keep syncing and both sides are the same | more than sixteen files in conflict end every sync that meets them (`git.c:178`); `EventuallyInSync` names this case |
| - | the same | a power loss in a write of libgit2 leaves a `.lock` that nothing removes (`filebuf.c:46`), and every later sync ends there (`git.c:230`); likewise |
| - | `main.c:40`: the stack is reused, "only one runs at a time" | the slot is freed before `vTaskDelete` (`main.c:46`), so a key handled in between creates a task on a stack in use |
| - | `git.c:212`: "Recover from an interrupted earlier sync" | the recovery drops the rebase state, which holds the branch's old tip, and carries on from wherever HEAD and folder were |
| - | `git-sync.md:36`: leave the remote holding everything the device has | a ref the server refuses is reported to a callback that is not set; the sync says Synced |
| - | `first-boot.md:76`: the keyboard comes back "at boot and after any drop" | a scan clears `s_want_conn` (`blehid.c:147`), and leaving the list sets it no more: no reconnection until a restart |
| - | the same | two connection tasks, or a close that comes while a task leaves, can end with nobody trying (`tangled`, `missed`) |
| - | `app.inc:820`: a forgotten keyboard "won't reconnect" | the kicker of an open under way saves it again (`blehid.c:218`) |
| - | `blehid.h:13`: the outcome of a pick arrives | a pick that finds an old task at work leaves its keyboard to it; nothing is told if that task ends (`joined`) |
| - | `git_engine.h:27`, `git-sync.md:15`: completes or leaves the repository as it was | a failed push returns without the rollback (`git.c:293`); commit and rebase stay |
| - | `architecture.md`: "if the rebase itself fails outright, the commit from step 2 stays" | it is rolled back like any other (`git.c:278`) |
| - | `architecture.md`: leaving the page takes WiFi down "unless a network task is still running" | after a DONE code of a refused operation `s_sync_busy` is clear and WiFi goes down under the task (`app.inc:139`) |
| - | the same: "the task's completion handler releases it" | not after the Back row of a WiFi list, which leaves `listType` behind (`app.inc:134`) |
| - | `sftp.md:24`: Esc stops the server | a stop asked for while the server starts is reset by `oyobyok_sshd_run` (`sshd.c:582`) |
| - | `git-sync.md:17`: "Sync gives up after five minutes" | the alert does, the task goes on (`app.inc:625`) |
| - | `writing.md:77`: a failed save keeps you in the editor | a status result that comes over that alert leads to the menu, with the file still open (`app.inc:669`) |
| - | `sftp.md:40`: the LED shows a push's result | only the git result sets the LED (`app.inc:660`) |
| - | `git-sync.md:22`: a new project is initialised on its first Sync | power lost between init and the origin, or an error of the latter (`git.c:144`): every later sync ends with "no origin". `EventuallyInSync` names this case |
| - | `first-boot.md:69`, `architecture.md:41`: it joins the last known network | the first entry of the flash store (`wifi.c:89`), the one saved longest ago |
| - | `wifi.c:59`: a failed bring-up is not retried within 3 s | nor is one after a bring-up that succeeded and was switched off: off, on within three seconds and a connect is refused |
| - | `first-boot.md:67`: networks you join are remembered | a name of more than 15 characters is no key of the flash store (`wifi.c:124`), and the result is not looked at |
| - | `writing.md:77`: a failed save keeps your text | a full card is no failed save: `fwrite` and `fclose` are not looked at (`app.inc:217`) |
| - | `+ New File` | a name that is taken is not asked about: the file is emptied (`app.inc:930`) |
| - | `writing.md:50`: Esc leaves Manage | in a subfolder it goes up and keeps managing (`app.inc:980`) |
| - | the list shows the entries | a name of more than 46 characters is cut (`app.inc:501`), and what is then opened, renamed or deleted has the cut name |
| - | alerts for a failed Rename or New Folder | the results of `rename` and `mkdir` are not looked at (`app.inc:936`, `:947`) |
| - | `sshd.c:38`: a window of 262144 | the buffer behind it holds 72000 (`sshd.c:506`): a client that fills its window while the server waits for room is dropped ("flooded") |
| - | `sshd.c:513`: EOF and CLOSE come last | an end of file read in the middle of a reply sends them before the rest of it ("overtaken") |
| - | SFTP close succeeds | the result of `fclose` is not looked at (`sftpd.c:212`) |
