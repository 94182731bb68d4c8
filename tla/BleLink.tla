------------------------------- MODULE BleLink -------------------------------
(***************************************************************************)
(* The BLE link of src/main/ble_nus.c: GAP events and writes, which arrive *)
(* in the NimBLE host task, against the command task that takes commands,  *)
(* sends replies and files in notifications, and streams live frames; and  *)
(* the logger's side of the live queue.                                    *)
(*                                                                         *)
(* NimBLE gives a new connection the handle of the last one, so a task     *)
(* that reads conn_handle cannot tell that the link was gone in between.   *)
(* The host task has the highest priority of these: what it does in one    *)
(* event is one step, and it may come between any two reads and writes of  *)
(* the command task.  No code sets APP_MODE_WEB_INTERFACE, so it is left   *)
(* out.  What the commands do besides answering is SessionSync and         *)
(* TripMarkers; lengths are counted in units of some bytes.                *)
(***************************************************************************)
EXTENDS Integers, Sequences, FiniteSets

CONSTANTS
  CmdQueueDepth,     \* CMD_QUEUE_DEPTH (8)
  LiveQueueDepth,    \* depth of g_ble_live_queue (128)
  NotifyRetryLimit,  \* NOTIFY_RETRY_LIMIT (200)
  DefaultChunk,      \* DEFAULT_CHUNK_SIZE (20)
  MaxChunk,          \* MAX_CHUNK_SIZE (509)
  Mtus,              \* what an exchange of the MTU may end with
  ReplyLens, FileLens, LineLens,  \* lengths of replies, files and live lines
  ShortestLine,      \* no live line is shorter
  MaxConnects,       \* bound: connections
  MaxCommands        \* bound: commands the phone writes

ASSUME LinkLimits ==
  /\ CmdQueueDepth \in Nat \ {0} /\ LiveQueueDepth \in Nat \ {0} /\ NotifyRetryLimit \in Nat
  /\ DefaultChunk \in Nat \ {0} /\ MaxChunk \in Nat /\ MaxChunk >= DefaultChunk
ASSUME LinkData ==
  /\ Mtus \subseteq Nat /\ \A m \in Mtus : m > 3
  /\ ReplyLens \subseteq Nat \ {0} /\ FileLens \subseteq Nat /\ LineLens \subseteq Nat \ {0}
  /\ ShortestLine \in Nat \ {0} /\ \A n \in LineLens : n >= ShortestLine
  /\ MaxConnects \in Nat /\ MaxCommands \in Nat

VARIABLES
  connected,         \* conn_handle is not BLE_HS_CONN_HANDLE_NONE
  negotiated_mtu, g_app_mode,
  connect_time,      \* s_connect_time_ms: "zero", "recent", or "old", 3 s or more ago
  cmd_queue,         \* the connection that each command came on
  g_ble_live_queue,  \* the connection in which each frame was received
  offer,             \* logger: the frame it is about to put there, 0 if none
  task,              \* the command task
  written,           \* commands the phone has written
  epoch,             \* history: connections so far
  sent,              \* history: units of the file that this connection accepted
  torn,              \* history: a read of the file failed before its end
  took,              \* history: a command taken during this connection set the mode
  caught,            \* history: what the connection found the command task busy with
  strangers,         \* history: commands of earlier ones taken or running in it
  relics,            \* history: live frames of earlier ones that it met
  hasty              \* history: speedo mode was entered with no phone connected

link == <<connected, negotiated_mtu, connect_time, epoch>>
live == <<g_ble_live_queue, offer>>
reply == <<sent, torn>>
inherited == <<caught, strangers, relics>>
linkVars == <<link, live, g_app_mode, cmd_queue, task, written, reply, took, inherited, hasty>>

\* The task is at "wait"; has "taken" a command, or tests one thing after the other;
\* in nus_notify_str for a "text", "header", "newline", "end" or "heartbeat"; reading a
\* "file" or sending "data" of it; about to enter speedo mode ("detect"); packing live
\* lines ("pack") or sending what it packed ("flush", "last").  since is the connection
\* in which it took the command or read the time.
Idle == [pc |-> "wait", conn |-> 0, since |-> 0, chunk |-> 0, left |-> 0, read |-> 0,
         lines |-> 0, line |-> 0, size |-> 0, retries |-> 0]

LinkInit ==
  /\ connected = FALSE /\ negotiated_mtu = DefaultChunk + 3 /\ g_app_mode = "detecting"
  /\ connect_time = "zero" /\ cmd_queue = <<>> /\ g_ble_live_queue = <<>> /\ offer = 0
  /\ task = Idle /\ written = 0 /\ epoch = 0 /\ sent = 0 /\ torn = FALSE
  /\ took = FALSE /\ caught = "none" /\ strangers = 0 /\ relics = 0 /\ hasty = FALSE

Least(a, b) == IF a < b THEN a ELSE b
Former(q) == {i \in 1..Len(q) : q[i] < epoch}

\* Live frames that the command task has taken from the queue and not yet sent.
PackedFrames ==
  IF task.pc \in {"pack", "flush", "last"}
  THEN task.lines + (IF task.pc = "flush" THEN 1 ELSE 0) ELSE 0

-----------------------------------------------------------------------------
(* The NimBLE host task: gap_event_handler and nus_rx_access_cb.             *)

\* What a new connection finds: the command task between the queue and the mode, or
\* between the time and the mode; a command running; frames queued and packed.
Meet ==
  /\ took' = FALSE /\ sent' = 0
  /\ caught' = CASE task.pc = "taken" -> "command"
                 [] task.pc \in {"passed?", "judge", "detect"} -> "clock"
                 [] OTHER -> "none"
  /\ strangers' = IF task.conn # 0 THEN 1 ELSE 0
  /\ relics' = Len(g_ble_live_queue) + PackedFrames

\* Mutant of Connect: the mode of the last connection stays.
ConnectKeepsMode ==
  /\ ~connected /\ epoch < MaxConnects
  /\ connected' = TRUE /\ epoch' = epoch + 1 /\ negotiated_mtu' = DefaultChunk + 3
  /\ connect_time' = "recent" /\ Meet
  /\ UNCHANGED <<live, g_app_mode, cmd_queue, task, written, torn, hasty>>

\* A connection that fails leaves everything as it is.
Connect ==
  /\ ~connected /\ epoch < MaxConnects
  /\ connected' = TRUE /\ epoch' = epoch + 1 /\ negotiated_mtu' = DefaultChunk + 3
  /\ g_app_mode' = "detecting" /\ connect_time' = "recent" /\ Meet
  /\ UNCHANGED <<live, cmd_queue, task, written, torn, hasty>>

\* Mutant of Disconnect: the live queue is not emptied.
DisconnectKeepsLive ==
  /\ connected /\ connected' = FALSE
  /\ g_app_mode' = "detecting" /\ connect_time' = "zero" /\ hasty' = FALSE
  /\ UNCHANGED <<live, negotiated_mtu, epoch, cmd_queue, task, written, reply, took, inherited>>

\* The live queue is emptied; commands stay where they are.
Disconnect ==
  /\ connected /\ connected' = FALSE
  /\ g_app_mode' = "detecting" /\ connect_time' = "zero" /\ hasty' = FALSE
  /\ g_ble_live_queue' = <<>>
  /\ UNCHANGED <<negotiated_mtu, epoch, offer, cmd_queue, task, written, reply, took, inherited>>

MtuExchanged ==
  /\ connected /\ negotiated_mtu' \in Mtus
  /\ UNCHANGED <<connected, connect_time, epoch, live, g_app_mode, cmd_queue, task, written,
                 reply, took, inherited, hasty>>

\* A write of the phone; a command is dropped when the queue is full.
ReceiveCommand ==
  /\ connected /\ written < MaxCommands /\ written' = written + 1
  /\ cmd_queue' = IF Len(cmd_queue) < CmdQueueDepth THEN Append(cmd_queue, epoch) ELSE cmd_queue
  /\ UNCHANGED <<link, live, g_app_mode, task, reply, took, inherited, hasty>>

ThreeSeconds ==
  /\ connect_time = "recent" /\ connect_time' = "old"
  /\ UNCHANGED <<connected, negotiated_mtu, epoch, live, g_app_mode, cmd_queue, task, written,
                 reply, took, inherited, hasty>>

-----------------------------------------------------------------------------
(* The logger, for each frame it drains: the mode is read, then the frame is *)
(* put in the live queue if there is room.                                   *)

OfferFrame ==
  /\ g_app_mode = "speedo" /\ offer = 0 /\ offer' = epoch
  /\ UNCHANGED <<link, g_ble_live_queue, g_app_mode, cmd_queue, task, written, reply, took,
                 inherited, hasty>>

QueueFrame ==
  /\ offer # 0 /\ offer' = 0
  /\ g_ble_live_queue' = IF Len(g_ble_live_queue) < LiveQueueDepth
                         THEN Append(g_ble_live_queue, offer) ELSE g_ble_live_queue
  /\ relics' = IF Len(g_ble_live_queue) < LiveQueueDepth /\ connected /\ offer < epoch
               THEN relics + 1 ELSE relics
  /\ UNCHANGED <<link, g_app_mode, cmd_queue, task, written, reply, took, caught, strangers,
                 hasty>>

-----------------------------------------------------------------------------
(* The command task: notifications.                                          *)

\* notify_chunk_size.
ChunkSize == Least(IF negotiated_mtu > 3 THEN negotiated_mtu - 3 ELSE DefaultChunk, MaxChunk)

Strings == {"text", "header", "newline", "end", "heartbeat"}
Packed == {"flush", "last"}
Sending == Strings \cup Packed \cup {"data"}

\* The size is read once for each string, file and drain of the live queue.
ReadChunk ==
  /\ task.pc \in Sending \cup {"file", "pack"} /\ task.chunk = 0
  /\ task' = [task EXCEPT !.chunk = ChunkSize]
  /\ UNCHANGED <<link, live, g_app_mode, cmd_queue, written, reply, took, inherited, hasty>>

\* What the next notification carries.  Packed lines, and what was read of a file, go
\* out as they are.
Piece == CASE task.pc \in Packed -> task.left
           [] task.pc = "data" -> task.read
           [] OTHER -> Least(task.chunk, task.left)

Say(what, len) == [task EXCEPT !.pc = what, !.left = len, !.read = 0, !.chunk = 0, !.retries = 0]
Ended == Idle

\* Once a string or piece is out: a file follows its header, and END its line end.
Followed ==
  CASE task.pc = "header"  -> Say("file", task.size)
    [] task.pc = "data"    -> [task EXCEPT !.pc = "file", !.left = @ - task.read, !.read = 0,
                                           !.retries = 0]
    [] task.pc = "newline" -> Say("end", 1)
    [] task.pc = "flush"   -> [task EXCEPT !.pc = "pack", !.left = task.line, !.lines = 1,
                                           !.line = 0, !.retries = 0]
    [] OTHER               -> Ended

\* fread of the next chunk.  It may return less than a chunk, and nothing when the read
\* fails, which the loop takes for the end of the file: END follows either way, after a
\* line end if the last byte read is not one.
ReadFile ==
  /\ task.pc = "file" /\ task.chunk # 0
  /\ \/ /\ \E n \in 1..Least(task.chunk, task.left) :
              task' = [task EXCEPT !.pc = "data", !.read = n]
        /\ UNCHANGED torn
     \/ /\ task' = Say("end", 1) \/ (task.left < task.size /\ task' = Say("newline", 1))
        /\ torn' = (task.left > 0)
  /\ UNCHANGED <<link, live, g_app_mode, cmd_queue, written, sent, took, inherited, hasty>>

\* nus_notify gets a buffer and a link, and the piece is accepted.
Accepted ==
  /\ task.pc \in Sending /\ task.chunk # 0 /\ connected
  /\ task' = IF task.pc \in Strings /\ Piece < task.left
             THEN [task EXCEPT !.left = @ - Piece, !.retries = 0] ELSE Followed
  /\ sent' = IF task.pc = "data" THEN sent + Piece ELSE sent
  /\ UNCHANGED <<link, live, g_app_mode, cmd_queue, written, torn, took, inherited, hasty>>

\* Mutant of NoBuffer: the count of attempts starts over.
NoBufferForever ==
  /\ task.pc \in Sending /\ task.chunk # 0 /\ connected
  /\ task' = [task EXCEPT !.retries = IF @ < NotifyRetryLimit THEN @ + 1 ELSE 0]
  /\ UNCHANGED <<link, live, g_app_mode, cmd_queue, written, reply, took, inherited, hasty>>

\* Out of buffers: again in 10 ms, whatever the link did in between.
NoBuffer ==
  /\ task.pc \in Sending /\ task.chunk # 0 /\ connected
  /\ task.retries < NotifyRetryLimit
  /\ task' = [task EXCEPT !.retries = @ + 1]
  /\ UNCHANGED <<link, live, g_app_mode, cmd_queue, written, reply, took, inherited, hasty>>

\* Mutant of Refused: a file goes on with its next chunk.
RefusedSkips ==
  /\ task.pc \in Sending /\ task.chunk # 0
  /\ task' = IF task.pc \in {"data", "newline"} THEN Followed ELSE Ended
  /\ UNCHANGED <<link, live, g_app_mode, cmd_queue, written, reply, took, inherited, hasty>>

\* No link, another error, or the retries are used up.  All give up there, but END
\* is tried also when the line end before it failed.
Refused ==
  /\ task.pc \in Sending /\ task.chunk # 0
  /\ task' = IF task.pc = "newline" THEN Say("end", 1) ELSE Ended
  /\ UNCHANGED <<link, live, g_app_mode, cmd_queue, written, reply, took, inherited, hasty>>

-----------------------------------------------------------------------------
(* The command task: its loop.                                               *)

\* xQueueReceive, and the line that is logged before the command is dispatched.
Take ==
  /\ task.pc = "wait" /\ cmd_queue # <<>>
  /\ cmd_queue' = Tail(cmd_queue)
  /\ task' = [Idle EXCEPT !.pc = "taken", !.conn = Head(cmd_queue), !.since = epoch]
  /\ strangers' = IF Head(cmd_queue) < epoch THEN strangers + 1 ELSE strangers
  /\ UNCHANGED <<link, live, g_app_mode, written, reply, took, caught, relics, hasty>>

\* dispatch_command: the mode, then the handler, which answers with a line or, a GET,
\* sends a file.
Dispatch ==
  /\ task.pc = "taken" /\ g_app_mode' = "telematics"
  /\ \/ \E n \in ReplyLens : task' = [task EXCEPT !.pc = "text", !.left = n]
     \/ \E n \in FileLens : task' = [task EXCEPT !.pc = "header", !.left = 1, !.size = n]
  /\ sent' = 0 /\ torn' = FALSE /\ took' = (took \/ task.since = epoch)
  /\ UNCHANGED <<link, live, cmd_queue, written, inherited, hasty>>

\* The wait for a command times out.
TimedOut ==
  /\ task.pc = "wait" /\ cmd_queue = <<>> /\ task' = [Idle EXCEPT !.pc = "link?"]
  /\ UNCHANGED <<link, live, g_app_mode, cmd_queue, written, reply, took, inherited, hasty>>

\* Link and mode are tested one after the other, and the mode is read for each test.
TestLinkAndMode ==
  /\ \/ /\ task.pc = "link?"
        /\ task' = IF connected THEN [Idle EXCEPT !.pc = "detecting?"] ELSE Idle
     \/ /\ task.pc = "detecting?"
        /\ task' = [Idle EXCEPT !.pc = IF g_app_mode = "detecting" THEN "clock" ELSE "speedo?"]
     \/ /\ task.pc = "speedo?"
        /\ task' = [Idle EXCEPT !.pc = IF g_app_mode = "speedo" THEN "pack" ELSE "telematics?"]
     \/ /\ task.pc = "telematics?"
        /\ task' = IF g_app_mode = "telematics" THEN [Idle EXCEPT !.pc = "heartbeat", !.left = 1]
                                               ELSE Idle
  /\ UNCHANGED <<link, live, g_app_mode, cmd_queue, written, reply, took, inherited, hasty>>

\* The time is read, then that of the connection, twice.  With a connection that is
\* younger than the time read, or gone, the difference is anything.
TestTime ==
  /\ \/ task.pc = "clock" /\ task' = [Idle EXCEPT !.pc = "passed?", !.since = epoch]
     \/ /\ task.pc = "passed?"
        /\ task' = IF connect_time = "zero" THEN Idle ELSE [task EXCEPT !.pc = "judge"]
     \/ /\ task.pc = "judge"
        /\ \/ /\ connect_time = "old" \/ connect_time = "zero" \/ task.since # epoch
              /\ task' = [task EXCEPT !.pc = "detect"]
           \/ /\ connect_time # "old" \/ task.since # epoch
              /\ task' = Idle
  /\ UNCHANGED <<link, live, g_app_mode, cmd_queue, written, reply, took, inherited, hasty>>

EnterSpeedo ==
  /\ task.pc = "detect" /\ task' = Idle
  /\ g_app_mode' = "speedo" /\ hasty' = (hasty \/ ~connected)
  /\ UNCHANGED <<link, live, cmd_queue, written, reply, took, inherited>>

\* A frame becomes a line; what was packed goes out first if the line does not fit.
PackLine ==
  /\ task.pc = "pack" /\ task.chunk # 0 /\ g_ble_live_queue # <<>>
  /\ g_ble_live_queue' = Tail(g_ble_live_queue)
  /\ \E n \in LineLens :
       task' = IF task.left > 0 /\ task.left + n > task.chunk
               THEN [task EXCEPT !.pc = "flush", !.line = n]
               ELSE [task EXCEPT !.left = @ + n, !.lines = @ + 1]
  /\ UNCHANGED <<link, offer, g_app_mode, cmd_queue, written, reply, took, inherited, hasty>>

\* Only an empty queue ends the stream.
PackEnds ==
  /\ task.pc = "pack" /\ task.chunk # 0 /\ g_ble_live_queue = <<>>
  /\ task' = IF task.left > 0 THEN [task EXCEPT !.pc = "last"] ELSE Idle
  /\ UNCHANGED <<link, live, g_app_mode, cmd_queue, written, reply, took, inherited, hasty>>

-----------------------------------------------------------------------------

Host == Connect \/ Disconnect \/ MtuExchanged \/ ReceiveCommand
Notifying == ReadChunk \/ Accepted \/ NoBuffer \/ Refused \/ ReadFile
Detecting == TestLinkAndMode \/ TestTime \/ EnterSpeedo
CommandTask == Notifying \/ Take \/ Dispatch \/ TimedOut \/ Detecting \/ PackLine \/ PackEnds

LinkNext == Host \/ ThreeSeconds \/ OfferFrame \/ QueueFrame \/ CommandTask

LinkSpec == LinkInit /\ [][LinkNext]_linkVars

\* Time passes and both tasks run; nothing is asked of the phone or of the bus.
LinkFairSpec == LinkSpec /\ WF_linkVars(ThreeSeconds) /\ WF_linkVars(QueueFrame)
                         /\ WF_linkVars(CommandTask)

-----------------------------------------------------------------------------
(* Properties. *)

Quiets == {"wait", "taken", "link?", "detecting?", "speedo?", "telematics?", "clock", "passed?",
           "judge", "detect", "file", "pack"}

LinkTypeOK ==
  /\ connected \in BOOLEAN /\ negotiated_mtu \in Mtus \cup {DefaultChunk + 3}
  /\ g_app_mode \in {"detecting", "telematics", "speedo"}
  /\ connect_time \in {"zero", "recent", "old"} /\ (connected <=> connect_time # "zero")
  /\ cmd_queue \in Seq(1..MaxConnects) /\ Len(cmd_queue) <= CmdQueueDepth
  /\ g_ble_live_queue \in Seq(1..MaxConnects) /\ Len(g_ble_live_queue) <= LiveQueueDepth
  /\ offer \in 0..MaxConnects /\ epoch \in 0..MaxConnects
  /\ task.pc \in Sending \cup Quiets
  /\ task.conn \in 0..MaxConnects /\ task.since \in 0..MaxConnects
  /\ task.chunk \in 0..MaxChunk /\ task.retries \in 0..NotifyRetryLimit
  /\ {task.left, task.read, task.lines, task.line, task.size, sent} \subseteq Nat
  /\ strangers \in Nat /\ relics \in Nat /\ caught \in {"none", "command", "clock"}
  /\ written \in 0..MaxCommands /\ took \in BOOLEAN /\ torn \in BOOLEAN /\ hasty \in BOOLEAN

\* The mode is that of this connection: telematics only after a command was taken
\* during it, live streaming only after three seconds without one, although the two
\* tasks write the mode without a lock.  The exceptions are the two windows of the
\* command task that the connection may have come in: between a command taken before it
\* and the mode that the command sets, and between the time and the mode.
ModeFitsLink ==
  connected =>
    /\ g_app_mode = "telematics" => took \/ caught = "command"
    /\ g_app_mode = "speedo" => caught = "clock" \/ (connect_time = "old" /\ ~took)

\* To the connection that asked for a file its end is announced only when that
\* connection accepted all of it, however often a buffer was missing, or a read failed;
\* and no notification is longer than the link carries, where NimBLE would cut it off,
\* unless the link changed since the size was read or a single live line is too long.
RepliesWhole ==
  /\ task.pc \in {"newline", "end"} /\ task.since = epoch => sent = task.size \/ torn
  /\ task.pc \in Sending /\ task.chunk = ChunkSize =>
       Piece <= ChunkSize \/ (task.pc \in Packed /\ task.lines = 1)

\* What earlier connections leave behind is bounded.  Of their commands a connection
\* meets at most a full queue and the one that was running, whose answer or file goes on
\* to the new connection however long it is.  Of their live frames it meets those in one
\* notification, or a single line, with the one that did not fit in it and the one that
\* the logger was about to queue; and a full queue if speedo mode was entered with no
\* phone connected.
LeftoversBounded ==
  connected =>
    /\ strangers + Cardinality(Former(cmd_queue)) <= CmdQueueDepth + 1
    /\ LET beside == IF hasty THEN LiveQueueDepth + 2 ELSE 2 IN
         relics <= beside + 1 \/ (relics - beside) * ShortestLine <= MaxChunk

\* A command waits that came on connection e, which is still there.
Waiting(e) == connected /\ epoch = e /\ \E i \in 1..Len(cmd_queue) : cmd_queue[i] = e
Gone(e) == ~connected \/ epoch # e

\* With a quiet bus every command is taken while its connection lasts, whatever the
\* notifications of the one before did; and detection comes to an end.
PhoneIsHeard ==
  /\ <>[](offer = 0) =>
       \A e \in 1..MaxConnects : Waiting(e) ~> g_app_mode = "telematics" \/ Gone(e)
  /\ \A e \in 1..MaxConnects : connected /\ epoch = e ~> g_app_mode # "detecting" \/ Gone(e)

\* ble_nus.h:7: APP_MODE_TELEMATICS is "command received — session sync protocol".
CommandMeansTelematics ==
  \A e \in 1..MaxConnects : Waiting(e) ~> g_app_mode = "telematics" \/ Gone(e)

=============================================================================
