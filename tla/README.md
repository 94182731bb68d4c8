# Verification of the CAN logging dash

TLA+ models, model-checking runs and machine-checked proofs for the firmware in
`src/main`: a dash for an electric tractor that logs every CAN frame to an SD
card, keeps trips across power cuts, and hands finished sessions to a phone over
BLE. All line numbers refer to `src/main` unless a path is given.

## 1. The system

| Component | State | Operations | Runs in |
|---|---|---|---|
| Logger (`can_logger.c`) | `s_file`/`s_snap` (the file pair), `s_log_id`, `s_trip_*`, commit and drop counters, marker queue and semaphore; NVS `session_id`, `trip` | boot sequence, drain, flush / snapshot / space / status passes, bus-off pass, TRIP_START, TRIP_END | one task, core 0, priority 7; sole writer of the card |
| SD store (`sd_store.c`) | mounted card | mount, remount, reclaim | logger task |
| SD host shim (`sd_host_init_shim.c`) | `s_initialised` | init once, ignore teardown | callers of the SD driver |
| CAN handler (`can_handler.c`) | node, `s_is_bus_off`, counters | start, receive, state change, recover | interrupts on core 1, a short start task on core 1, logger task |
| BLE (`ble_nus.c`) | `conn_handle`, MTU, `cmd_queue`, `g_app_mode`, live queue; NVS `last_synced` | LIST, GET, DONE, SUMMARY, TIME, STATUS, TRIP_START, TRIP_END, live stream | command task, core 0, priority 4; NimBLE host task for the callbacks |
| Vehicle state, decoder (`vehicle_state.c`, `can_decode.c`) | latest values, time of the last frame | decode a frame, snapshot, is_fresh | written by the logger task, read by the others |
| Clock (`rtc_time.c`, `solar.c`) | system time, its validity | set, read, sunrise and sunset | BLE task, UI |
| User interface (`ui/`) | LVGL objects, brightness | refresh, splash, dim | LVGL task, priority 6 |
| Start-up (`main.c`), bench simulation (`ui/sim_can.c`), console capture script (`tools/`) | – | – | – |

How they interact:

- receive interrupt → `s_frame_queue` (4096) → logger → files, vehicle state,
  live queue;
- state-change interrupt → `s_is_bus_off`, `s_bus_off` → logger → `twai_node_recover`;
- phone → NimBLE callback → `cmd_queue` (8) → command task → `s_marker_queue` (4)
  → logger → `s_marker_sem` and `s_marker_ok` → command task → phone;
- logger and command task share the card (the command task only reads) and
  `s_log_id`, `s_trip_active` without a lock.

What is hard: the power goes at any moment; the card may be full, pulled,
exchanged or write protected; one of two files may fail; a session number lives
in NVS and on the card; a marker may be handled long after its wait ended;
interrupts run on the other core; the logger rotates and deletes sessions while
the phone lists and fetches them. The full list, each at its line, is under
`hazards` in `PROJECT.json`.

What makes each component correct:

- *Sessions*: none is overwritten, none is deleted while it is written, the two
  files of a session stay together, logging recovers by itself.
- *Trips*: an answer to the phone means what a power cut would leave; only a
  marker starts or ends a trip; the marker rows in the files can be parsed.
- *Markers*: an answer is that of this marker, and always comes.
- *CAN node*: off the bus means a recovery is wanted, until it is back.
- *Capture*: drops are tallied exactly, gaps are visible, the time for which rows
  can be lost is bounded.
- *Sync*: what the high-water mark hides is on the phone; everything finished
  gets there.
- *Link*: the mode is that of the connection; the end of a file means all of it;
  little is left of one connection for the next; a command is heard.
- *Figures of a trip*: nothing is counted twice, a cut costs a minute at most, a
  duration fits the clock.
- *Vehicle state*: what is drawn belongs together and is not of a dead bus.
- *SD host shim*: the card comes and goes without the C6 noticing.

## 2. The modules

### CanLogger (with MCCanLogger, TripService)

The logger task is sequential, so it is a program with a control point `pc`;
`caller` names the handler (boot, abandoned file, status pass, space check,
TRIP_START, TRIP_END) that entered the shared sequence claim → reclaim → open →
header → snapshot file, and so decides where it goes on. There is one action for
every step after which a power cut, a pulled card or another card makes a
difference: each NVS write, each `unlink`, `fopen`, commit and `fclose`.

| Code | Model |
|---|---|
| `s_log_id`, `s_trip_active`, `s_commit_fails` | the variables of that name |
| `s_file`, `s_snap` | `stream["raw"]`, `stream["snap"]`: number (0 is NULL), rows not yet synced, error flag |
| NVS `session_id`, `trip` | `nvsId`, `nvsTrip` |
| files of a card | `file[kind][card][number]`: the header and marker rows that are on the card, or `Absent`; `<<>>` is a file whose header never committed |
| mounted card, card in the slot | `mcard` with `mlive` (it has stayed there), `inserted` |
| `claim_log_id` | `ClaimLogId` (every NVS outcome; `ProbeStops` is the bounded probing loop) |
| `sd_store_reclaim` | `ReclaimUnlink`, `ReclaimUnlinkSnap`, `ReclaimDone` |
| `open_log`, `open_snap`, `commit`, `fclose` | `OpenLog`, `OpenLogFails`, `CommitHeader`, `OpenSnap`, `Commit`, `Close` |
| boot loop, `reopen_log`, `remount_card` | `RetryOrLoop`, `GiveUp`, `AfterOpen`, `ReopenLog`, `RemountCard` |
| `handle_trip_start`, `trip_save` | `HandleTripStart`, `TripBegin`, `TripSave` |
| `handle_trip_end`, `trip_forget` | `HandleTripEnd`, `TripForget`, `EndSnap`, `EndRaw` |
| periodic passes | `FlushPass`, `SpaceCheck`, `StatusPass`, `SaveTripPeriodically` |

A power cut resets what is in RAM and loses what a stream had not synced. A
pulled card makes every access fail until a remount. I/O errors, NVS errors and
the rest of the environment spend from `left`, a budget per kind of fault.
`checkedOn` (the card on which the number was found unused) and `promised` (what
the phone was last told) are history variables.

`TripService` says in four actions what the phone relies on: a trip is stored or
not, the phone's view is the last answer or unknown, and only a marker changes
what is stored. `CanLogger` implements it with `stored <- nvsTrip`,
`view <- promised`.

### TripMarkers

The way of a marker from the phone to the logger and back: `cmd_queue`, the
command task at the steps of `can_logger_post_marker` and
`can_logger_wait_marker`, the marker queue, the binary semaphore, and a logger
that may still be mounting its card, or take any time. Markers are numbered, so
that the semaphore remembers whose completion it holds. The logger has the higher
priority on the same core, so it preempts the command task anywhere, while
`marker_done` (set the outcome, give) is one step for it. The trip flag changes
before the card work of a handler (`BeginTrip`, `EndTrip`, then `WorkDone`), so
STATUS may read it in between. `told` is what the phone believes after each kind of
answer: the outcome, STATUS, and the OK that a timed-out wait sends. `sure` says
whether the answer could be definite: an answer with the marker's own completion is,
and the other two are when no marker but one whose flag is already set is under way
(`Undecided`).

### CanNode

`start_node` in its task on core 1, the interrupt's `on_state_change` and the
bus-off pass of the logger on core 0, one action for each access to a shared
flag. The controller is external: it goes off the bus, may accept a recovery
while it is off, and calls back after each change.

### FrameCapture

Numbered frames from the interrupt through the queue into the current file. Of
that file the model keeps the first and last frame, how many there are, and the
sum of its DROPPED rows. `note_drops` is three steps (sample, print, bank) with
the interrupt running in between. After each drain the passes come in the order of
the loop, each if it is due: markers (`Rotate`, as often as there are some), flush
with a reopen if the file is given up, status with a reopen if there is no file.

### SessionSync

LIST, GET and DONE in the command task against a logger that writes rows, rotates
(first free number, with the wrap) and deletes the lowest session. LIST reads the
mark, the active session, the directory and the sizes in separate steps; GET
sends chunk by chunk. The phone is external: it fetches the lowest first, keeps a
session only if as many bytes came as `DATA` announced, and starts over after a
failure.

### BleLink

GAP events and writes of the phone (each a step, since the NimBLE host task has a
higher priority than the command task on the same core) against the command task
and the logger's side of the live queue. Any of these may come between two accesses
of the command task to what they share: between the receive of a command and the mode
it sets, between the tests of link, mode and time, between a chunk of a file and the
next. `task` is where the command task is: with a command `taken`, in
`nus_notify_str`, reading or sending a file, at one of the tests, packing live lines. A
command or frame is the number of the connection it belongs to, `epoch` that of the
present one; NimBLE gives each connection the same handle, so the code cannot tell
them apart, and the guards do not look at `epoch` either, but for `TestTime`, where it
says that the time read is not of this connection.

| Code | Model |
|---|---|
| `gap_event_handler`, `nus_rx_access_cb` | `Connect`, `Disconnect`, `MtuExchanged`, `ReceiveCommand` |
| `nus_notify`, `nus_notify_str`, `notify_chunk_size` | `ReadChunk`, `Accepted`, `NoBuffer`, `Refused` |
| GET: `fread` (which may fail), chunks, line end and END | `ReadFile`, `Followed` |
| `ble_nus_task`: `xQueueReceive`, and its timeout | `Take`, `TimedOut` |
| `dispatch_command` | `Dispatch` |
| its tests of link, mode and time, one by one | `TestLinkAndMode`, `TestTime`, `EnterSpeedo` |
| its loop over the live queue | `PackLine`, `PackEnds` |
| the logger's `xQueueSend(g_ble_live_queue)` | `OfferFrame` (mode tested), `QueueFrame` |

History: `sent` (what this connection accepted of the file), `torn` (a read failed),
`took` (a command taken during this connection set the mode), `caught` (the window of
the command task that the connection came in), `strangers` and `relics` (commands and
live frames of earlier connections that it met, those running, packed or in the
logger's hand included), `hasty` (speedo mode was entered with no phone).

### TripFigures

Charge, running time and start time of a trip over several power-ups: `trip_totals`,
`trip_save`, `trip_resume`, the baseline of a resumed trip in `write_snapshot`, the
TRIP_START and TRIP_END markers, and a clock that is unset, right, or wrong. Seconds
are the unit of time, and the passes of the loop in one second are three steps. The
charge counter is signed (`isa_ah`): it may start anywhere and runs down when the
motor feeds the battery.
`truth` is what an observer knows of the trip; its `slack` is the charge that cuts, a
missing counter or a late baseline explain, and is stated at the step that causes it.

### VehicleState, SdHostShim, Numbers

`VehicleState` is the writer and the refresh of the dash on two cores, one step per
access and critical section. `SdHostShim` is the controller with its two slots, under
the constructor that brings up the C6 and the mounts, failed mounts and remounts of the
logger task; the driver is external, modelled from the comment of the shim. `Numbers`
has the pure algorithms, their loops as recursive functions, next to definitions of what
they are for: shunt words and current with the wrap of 32 bits, speed, decimal and
hexadecimal digits, the bounded list of sessions. `None -> input` is its only step: it
feeds every input of the bounds to the three properties.

### MCParts

CanNode, TripFigures, VehicleState, SdHostShim and Numbers share no state with one
another, so TLC checks them as a sum: `part` names the component that moves, and the
others stay as they start. The fairness of CanNode is that of its own specification,
restricted to its part; the others have none. Every behaviour of a component, with the
others at rest, is a behaviour of the sum (theorem `ComponentsAreParts`), so nothing
is lost, and the state spaces add instead of multiplying.

### Modules that compose

`CanLogger` contains retention and NVS with the logger. `TripMarkers` abstracts
the handlers of `CanLogger` to their outcomes; `SessionSync` abstracts the
session lifecycle to rotation and deletion. Composing `TripMarkers` with
`CanLogger` proper is in the plan.

## 3. The runs

| Run | Module | Bounds | Shows |
|---|---|---|---|
| `lifecycle` | MCCanLogger | 2 cards, 3 numbers, one old session on each; one cut, I/O error, pull and marker, or one cut, I/O error, exchange and each NVS fault | `TypeOK`, `SessionPair`, `OpenFilesExist`, `NoOverwrite` |
| `recovery` | MCCanLogger | a good and a write-protected card, with fairness and NVS working; one cut, I/O error, pull and marker, or one cut, pull and 2 markers, or one cut, I/O error and 3 markers | `TripAgreement`, `TripRowsWellFormed`, `RunningTripMarked`, `TripServiceSpec`, `LoggingRecovers`, `MarkerAnswered`, `BootReachesLoop` |
| `swapped_card` | MCCanLogger | one pull, one marker | violation of `TripStartKeepsSessions` |
| `markers` | TripMarkers | queues of 2, 5 commands | `OwnCompletion`, `AnswersAgree`, `QueueHoldsLateMarkers`, `CommandTaskResponds`, `TypeOK` |
| `markers_stale` | TripMarkers | queues of 2, 3 commands | violation of `WaitsForThisMarker` |
| `parts`, node | CanNode | 3 bus-off events | `RequestKept`, `StartReported`, `RequestRetired`, `RecoversUnlessRaced` |
| `parts`, trip | TripFigures | 6 s, save every 2 s, a cut, a lapse of the counter, a TIME, a clock that is unset, right or 5 s fast, a counter that starts at -6 and goes up or down | `FiguresBounded`, `SummaryConsistent` |
| `parts`, state | VehicleState | 2 frames, 5 ticks, stale after 2 | `SnapshotCoherent`, `OldValuesOnlyOnWaking` |
| `parts`, shim | SdHostShim | 4 mounts | `C6KeepsController` |
| `parts`, numbers | Numbers | bytes, digits and words in base 4, numbers to 800, all directories of up to 4 sessions | `DecodedExactly`, `RowsReadBack`, `ListKeepsLowest` |
| `link` | BleLink | 2 connections, 2 commands, command queue of 1, live queue of 2, 1 retry, chunks of 2 and 4 units, replies and files longer than a chunk, live lines of 2 and 3 | `ModeFitsLink`, `RepliesWhole`, `LeftoversBounded`, `PhoneIsHeard` |
| `link_busy` | BleLink | one connection, one command, a live queue of 1 | violation of `CommandMeansTelematics` |
| `can_node_deaf` | CanNode | 2 bus-off events | violation of `NeverStaysDeaf` |
| `capture` | FrameCapture | queue and batch of 2, 8 frames, 3 faults, 1 rotation, limit of 2 failed commits | `DropsAccounted`, `GapsCovered`, `LossWindow`, `TypeOK` |
| `capture_gap` | FrameCapture | 6 frames, 2 faults | violation of `GapsRecorded` |
| `sync` | SessionSync | 4 numbers, LIST of 3 of which 2 fit, 2 rows, 5 events | `SyncedIsComplete`, `EverythingFetched`, `TypeOK` |

Why the bounds are enough: every branch of every handler is taken within them.
Three numbers make the counter wrap and the probing loop reach its bound; an open
limit of 3 puts the remount of the boot loop before, at and after an attempt;
queues of 2 are empty, half full and full; frames outnumber the queue several
times; a LIST limit below the number of sessions leaves some out. What a larger
number of faults might add is, for the properties of section 5, settled by proof.
`parts` also checks `PartsTypeOK`, the types of all but Numbers. Two connections are one and
its successor, which is all a leftover can concern; six seconds with a save every two
put the cut before, at and after a save, in the mount loop and before and after the
baseline; in base 4 a number wider than a word and one that needs the padding of its
lower half are both below 800.

`CHECK_DEADLOCK FALSE` is set for TripMarkers (the phone has sent its bounded commands
and all is answered, or the card never comes), CanNode (the bounded bus-off events are
over) and the sum, where also the seconds are used up, the last mount is done, or the
input has been computed on: there the system, or what is modelled of it, really rests.

### Fairness

- CanLogger: the task runs its handlers to the end (`WF` on `Handler`), power and
  a card come back eventually, and the flush and status timers come round (`SF`,
  since other handlers start in between). Nothing is assumed of the faults but
  that they end: each spends from a budget.
- TripMarkers: both tasks are scheduled and timeouts expire. Mounting is *not*
  fair: the card may never come, and `CommandTaskResponds` holds all the same.
- CanNode: tasks and interrupts run, time passes, the bus becomes quiet, and the
  driver does not refuse a node that is off the bus for ever (`SF`): without the
  last the retry loop of the code could not succeed either.
- SessionSync: the phone keeps coming back.
- BleLink: time passes, the logger finishes what it began, the command task runs.
  Nothing is asked of the phone or of the bus: `PhoneIsHeard` states as a premise that
  the bus becomes quiet. That a notification finds no buffer again and again is
  allowed; `NotifyRetryLimit` is what ends it.

## 4. Where the code does something else than it says

Found while modelling, each with a run whose counterexample shows it:

1. **A swapped card loses a session.** A number that was chosen for one card, or with
   none, is opened on another, where `fopen("w")` truncates whatever has it. TRIP_START
   without a file opens the number last claimed, after the status pass has claimed it
   without a card, failed and remounted (`swapped_card`, can_logger.c:768); the status
   pass itself claims a fresh number for exactly this reason (1127-1132). The boot loop
   does the same without a marker: it remounts half way (954-956) and goes on under its
   old number.
2. **A late marker answers for the next one** (`markers_stale`, can_logger.c:190).
   The stale completion is cleared before the post, but the late marker may be
   handled after that.
3. **A bus-off request can be lost** (`can_node_deaf`, can_logger.c:1091). The node
   goes off the bus again between the logger's `is_bus_off()` and its
   `s_bus_off = false`.
4. **A gap without a DROPPED row** (`capture_gap`, can_logger.c:515). Frames dropped
   during a reopen lie behind queued ones that go into the new file, and are taken
   as reported. The same holds for a DROPPED row that is printed just before a
   rotation: the term `carried` of `GapsCovered` is these drops.
5. **A busy bus keeps the phone from being heard** (`link_busy`, ble_nus.c:755). The
   loop of the live stream ends when the live queue is empty and does not look at
   `cmd_queue`; if frames come faster than notifications leave, it ends with the
   connection.

Known from reading or from the models, and excluded by a named term or condition
of the properties instead of a run:

- `claim_log_id` without NVS returns 1 without looking at the card (278-281);
  `checkedOn` is `NoCard` then.
- A cut between the two `unlink`s of `sd_store_reclaim` leaves a snapshot file that
  retention never finds (sd_store.c:203-216), and its number is never used again.
- `trip_save` may fail and TRIP_START still answers OK (798-800); the trip
  properties assume NVS works. The result of `write_trip_start_rows` is ignored.
- A wait that times out is answered OK (ble_nus.c:391-398), although the logger may not
  have seen the marker, may still wait for its card, and refuse the marker later; the
  comment (378-380) has OK to TRIP_START mean that the marker reached a log file. In
  `AnswersAgree` `sure` is false then, and only then, unless the logger is at work on it.
- GET takes a failed read for the end of the file and sends END (ble_nus.c:287), which
  is to mean "transfer complete" (247). `torn` marks it; the phone notices by the
  announced size, which is why that is part of the phone in SessionSync.
- A GET outlives its connection (ble_nus.c:288): when the phone is back between two
  chunks, the rest of the file goes to the new connection, where the code means to
  abort (289-291). The running command of `LeftoversBounded` is this.
- LIST samples the active session before it reads the directory (ble_nus.c:184):
  after a rotation in between, the new session is offered, may be confirmed, and
  its remaining rows are never fetched. `raced` marks these runs in
  `SyncedIsComplete` and `EverythingFetched`.
- Once the numbers have wrapped, after NVS was erased, or on a card of another
  board, sessions at or below the mark are never listed, and the lowest number is
  no longer the oldest (`wrapped`).
- 64 empty snapshot files fill all that LIST considers; `EverythingFetched` excludes
  as many empty files as LIST keeps.
- The baseline of a trip started before the first frame of the shunt is zero
  (777-778), and that of a resumed trip is taken at the second fresh snapshot, where
  any frame makes it fresh (671) and which needs an open snapshot file: the trip is
  wrong by what the counter stood at. `slack` has these amounts.
- A cut costs a resumed trip the seconds of its mount loop too: `last_trip` starts
  when the loop does (980), where the comment (155-156) speaks of at most a minute.
  The term is `mounting`.
- A start time that becomes known late (684-688) leaves out the time without power.
- A command of a connection that is gone is executed and answered on the next one. The
  mode it sets is taken for the new connection's if that came in between the queue and
  the mode (736, 495): telematics without a command. `caught = "command"` marks it.
- A live stream that was packed, or a frame the logger was about to queue, goes to the
  new connection if that comes quickly. `LeftoversBounded` says how much at most.
- The time is read, compared with that of the connection in two reads, and the mode is
  written after that (741-743). A connection that comes in between may be in speedo
  mode at once (`caught = "clock"`); if the phone goes instead, the mode stays speedo
  without one and the live queue fills; `hasty` marks it.
- A live line that is longer than the chunk is sent as it is (766) and cut by NimBLE,
  where the comment (751) has lines packed to the size.
- While the dash wakes up it may draw an old copy, or zeros, once as fresh:
  `vehicle_state_is_fresh` is asked after the copy was taken.
- A pack current beyond about 2.1 million units overflows 32 bits, which is undefined
  (can_decode.c:115): `PackCurrent` has both results a build can give.
- vehicle_state.h:29 calls the shunt's words big-endian; can_decode.c and sim_can.c
  read and write the least significant byte first.

## 5. What is proved

TLAPS checks these for every value of the constants: any number of cards, log
numbers and retry limits, any budgets of faults.

- `CanLoggerProofs`: `Typing`, `SessionPairAlways`, `OpenFilesExistAlways`,
  `NoOverwriteAlways`.
- `CanLoggerTripProofs`: `TripAgreementAlways`, `ImplementsTripService`, both under
  the assumption `NvsReliable`: no budget holds a fault of NVS. The card may fail in
  any way and the power may go at any time. `TripRowsWellFormedAlways` and
  `RunningTripMarkedAlways` need no such assumption.
- `TripMarkersProofs`: `Typing`, `OwnCompletionAlways`, `AnswersAgreeAlways`, for all
  three kinds of answers, `QueueHoldsLateMarkersAlways`, for every depth of the queues
  and every delay of the logger.
- `FrameCaptureProofs`: `Typing`, `DropsAccountedAlways`, `GapsCoveredAlways`,
  `LossWindowAlways`, for every queue depth, batch size and commit limit.
- `BleLinkProofs`: `LinkTyping`, `ModeFitsLinkAlways`, `RepliesWholeAlways`,
  `LeftoversBoundedAlways`, for all depths, chunk sizes, lengths and numbers of
  connections.
- `SessionSyncProofs`: `SyncTyping`, `SyncedIsCompleteAlways`, for any number of
  sessions, rows, places in LIST and in its reply, and events.
- `PartsProofs`, the other components of MCParts. CanNode: `NodeTyping`,
  `RequestKeptAlways`, `StartReportedAlways`, for any number of bus-off events.
  VehicleState: `VehicleTyping`, `SnapshotCoherentAlways`,
  `OldValuesOnlyOnWakingAlways`, for any number of frames and refreshes. SdHostShim:
  `ShimTyping`, `C6KeepsControllerAlways`, for any number of mounts. TripFigures:
  `TripTyping`, `FiguresBoundedAlways`, `SummaryConsistentAlways`, for every save
  interval, every number of cuts and lapses, any first value of the counter, whichever
  way it runs, and any errors of the clock that keep the time positive. MCParts:
  `ComponentsAreParts`, that every behaviour of a component with the others at rest is
  one of the sum; the converse (`PartsAreComponents`), and from it `PartsTyping`. Both
  are about safety: fairness is beyond the provers.
- `NumbersProofs`: `DecodedExactlyAlways`, `RowsReadBackAlways`,
  `ListKeepsLowestAlways`, for every even width of a byte, every base, scale, divisor and
  width of a number, every limit of the list and every order of the directory; that the
  widths of the code are among them is `WidthsOfTheCode`.

Assumptions: those of the modules on their constants (`ModelValues`, `Limits`,
`Environment` and so on), which TLC evaluates in the runs, and `NvsReliable` where
it is stated.

The argument for CanLogger. `Inv` is the inductive invariant: the types,
`SessionPair`, `OpenFilesExist`, and `ControlInv`, which says at each control point
what the code can rely on there, for example that no file is open between
`reopen_log` and the next open, and that a retention pass has a current number.
`SessionPair` alone is not inductive, since `OpenSnap` opens the snapshot under
`s_log_id`: one has to know that the raw log is open under it. `NoOverwrite` needs
`Fresh` besides: where a number was found unused on a card, it stays unused there
until the files are opened, and a file opened under it holds no session when it is
opened again. There is a lemma for each action and each of the two invariants.

The argument for trips. `TripInv` says that `nvsTrip` follows `s_trip_active`
except between the two steps of a marker that changes both, and that `promised` is
unknown in between. With it `TripSave` is the `Start` of the service, `TripForget`
its `End`, and every other step asks, answers or stutters.

The argument for the rows. What an open session holds, committed rows and buffer
together, depends on the control point and on whether a trip runs (`Expected`): nothing
before the header, the header until the trip is marked, header and `TRIP_START` from
then on. A commit moves rows from the buffer to the file, in part or not at all, or the
stream fails with an empty buffer and takes no more (`Lined`); so every file is at any
time one of the row lists that make sense (`RowsInv`), wherever the power goes.

The argument for markers. Markers are handled in the order of their numbers: the
completion in the semaphore is of an earlier marker than the one being handled,
and that one earlier than those queued (`OrderInv`); a marker not handled yet is
`late`, but for the one waited for (`LateInv`). So with nothing late at the post,
only the marker's own completion can arrive (`WaitInv`), and the trip flag is as the
outcome says (`OutcomeInv`). A marker in hand whose flag is set is not undecided, and
the flag stays until another is taken (`Decided`), which is why STATUS and the OK of a
timeout agree with it. The markers queued and the one in hand have distinct
numbers, each late or waited for, so counting the numbers bounds the queue.

The argument for the node. The result of the start is stored before it is announced,
and nothing but the start task enables the node (`StartInv`); outside a callback, a
node off the bus is recorded and its recovery wanted, or the one race happened
(`BusInv`).

The argument for capture. Behind the frame at place i of the queue as many frames
have arrived as are queued there (`QueueInv`), so the drops that a new file takes
over are a number. Every frame since the first of the file is in the file, queued,
in a DROPPED row, still to be tallied, or carried over (`GapInv`); tallied drops
include a row printed and not banked, which is what makes it inductive.

The argument for the link. The mode is telematics only if a command was taken during
this connection or was in the window between queue and mode when it came, and speedo
only with three seconds gone or in the other window (`ModeInv`, which says at each test
of the command task what it has established, and of which connection). To the
connection that asked, what was sent and what is left of a file are its size, or a read
failed (`FileInv`); what is packed fits the chunk or is a single line (`StreamInv`).
For the leftovers, a connection starts with a full queue and one running command at
most, and each command of a former connection that is taken moves from one count to
the other (`CommandsLeft`). Without a connection the live queue is empty, unless speedo
mode was entered too late, so a new one meets what is packed, which fits a chunk
(`PackedIsFew`), the line that did not fit and the frame in the logger's hand
(`FramesLeft`).

The argument for the figures. RAM and NVS are related to the truth separately: the
figures in RAM are behind by the cuts and the mount loop, those in NVS by what passed
since the last save besides, which is less than the interval (`Running`). For the
charge the difference between counter and shunt, in either direction, is carried
along, because it turns into slack only when a baseline is taken (`Charge`). A start time that no
wrong clock went into is not before TRIP_START and leaves room for the running time
(`DatesInv`).

The argument for the vehicle state. Outside the critical section of the writer the two
fields are of one frame, and the reader's copy is made within its own; the stamp in
the copy of a refresh is at least what the one before read.

The argument for the sync. The mark is only ever set from a session that LIST found, and
"complete below the mark" is not inductive: it has to be known already of the session
that LIST is about to offer, that GET is sending and that the phone keeps. `SyncInv`
says, until the numbers wrap or a session changes between two reads of a LIST, that no
number in use is above the one being written and that what is confirmed, kept or offered
is below it (`NumbersInv`), and that a session below one that the phone keeps, GET sends
or LIST offers is whole on the phone, empty, or offered with it (`WholeInv`). LIST takes
the lowest, so what it leaves out is above what it offers; a new session is the first
free number, above all the others until the wrap; and a deletion only makes the claim
weaker. There is a lemma for the logger and for each handler.

The argument for the shim. The controller exists exactly when the wrapper says so, the
power channel is taken exactly when sd_store holds it, and no attempt gets as far as the
slot without both (`ShimInv`): the way back of a failed mount leaves all three alone.

The argument for the numbers. A loop is a recursive function in the model, and two things
have to be shown of it. That there is such a function, without which its equation says
nothing: `Recursion` builds it from its finite approximations, which agree where they are
both defined. What it computes: by induction, stated for a *set* of numbers (`Induction`,
`CompleteInduction`, both from the well-foundedness of `<`), since the provers cannot
instantiate the library's theorems, which take an operator. With that, `Value` of digits
taken from the end of a number until nothing is left is the number (`LastDigitsValue`);
`put_u64` adds the low digits, all of them, to those of the quotient (`ValueOfParts`); and
four bytes and the sign make a word again because the digits are below the base and the
word is four bytes wide (`WordReadBack`). For the list, `Holds(ids, W)` is what `Keep`
preserves when a number is added to the set W of those seen: sorted, of W, and what is
missing is above a full list. `Answers` is the same for the entries that fit the response.

## 6. Only model-checked

Liveness (`LoggingRecovers`, `MarkerAnswered`, `BootReachesLoop`,
`CommandTaskResponds`, `RequestRetired`, `RecoversUnlessRaced`,
`EverythingFetched`, `PhoneIsHeard`): TLAPS has no rules for `ENABLED`, so nothing
under fairness is proved. Every invariant and every action property that a passing run
checks is stated by a theorem of section 5. The types of BleLink (`LinkTypeOK`) are only
proved: the run has no need of them.

## 7. Not modelled, and why

- The order of the columns of a row and of a snapshot: layout. The digits are in
  Numbers.
- Peaks and state of charge of a trip: each is a maximum or a last value, saved with
  the figures that are modelled. Energy is treated as charge is, which stands for
  both.
- What SUMMARY reads from the end of a session's file: a scan of the whole file for its
  last TRIP_END row. How it answers is in BleLink.
- Floating point: temperature, speed and energy conversions, the brightness curve,
  sunrise and sunset (`solar.c`). TLC has no floats, and their rounding is all there
  is to say about them.
- Drawing, splash and layout of the user interface: no interaction with the rest.
- The RTC driver over I2C: TripFigures has its outcomes (absent, failing, wrong).
- Whether advertising starts again after a disconnect: its result is only logged
  (`restart_advertising`), so a failure means that no phone ever connects.
- `APP_MODE_WEB_INTERFACE`: no code sets it.
- The wrap of the 32-bit milliseconds at 49.7 days of power: the logger compares
  differences, and a trip that long is not one.
- `main.c`: starts the tasks once. The frames of `ui/sim_can.c`: bench only. `tools/`: host
  side.
- How much room a card has: retention may be short of it before each deletion.
- A snapshot file that a cut left alone between two deletions: the code has no step
  that would ever remove it, so there is nothing to check but that it is so.

## 8. Plan

Done, in this order: CanLogger, TripMarkers, CanNode and FrameCapture with their
proofs, SessionSync; BleLink, TripFigures and VehicleState with theirs, SdHostShim,
Numbers; then the proofs of SessionSync, SdHostShim, Numbers and of the sum of parts. Next:

1. **Composition** of TripMarkers with CanLogger: the outcome of a handler is that of
   the real one, and `TripService` is seen through the queue.
2. **Peaks and the SUMMARY row** in TripFigures; the brightness steps as integers.
