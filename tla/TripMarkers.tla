----------------------------- MODULE TripMarkers -----------------------------
(***************************************************************************)
(* A trip marker on its way from the phone to the logger and its answer on *)
(* the way back: the command queue and command task of src/main/ble_nus.c, *)
(* the marker queue and completion semaphore of src/main/can_logger.c.     *)
(*                                                                         *)
(* Both tasks run on core 0 and the logger has the higher priority, so it  *)
(* preempts the command task between any two of its steps, while set and   *)
(* give of marker_done are one step for the command task.  What the logger *)
(* does with a marker is CanLogger; here it takes time and has an outcome. *)
(* Until its card is mounted the logger takes no marker at all.            *)
(***************************************************************************)
EXTENDS Integers, Sequences, FiniteSets

CONSTANTS
  CmdQueueDepth,     \* CMD_QUEUE_DEPTH (8)
  MarkerQueueDepth,  \* depth of s_marker_queue (4)
  MaxCommands        \* bound: commands the phone sends

ASSUME Depths == /\ CmdQueueDepth \in Nat \ {0}
                 /\ MarkerQueueDepth \in Nat \ {0}
                 /\ MaxCommands \in Nat

Markers == {"TRIP_START", "TRIP_END"}
Commands == Markers \cup {"STATUS"}

VARIABLES
  sent,            \* commands the phone has sent
  cmd_queue,
  pc, cmd,         \* the command task: its control point and its command
  posted,          \* number of the last marker posted
  s_marker_queue,  \* markers with their numbers
  s_marker_sem,    \* the number of the marker whose completion it holds, or 0
  s_marker_ok,
  took,            \* history: the completion that the last wait took
  logger,          \* the logger task's control point
  marker,          \* the marker it is handling
  s_trip_active,
  late,            \* history: markers not handled yet whose wait is over
  behind,          \* history: a marker was late when this one was posted
  told,            \* what the phone believes of the trip; "unknown" while it waits
  sure             \* history: nothing that may change the trip was under way then

task == <<pc, cmd, posted, took, behind>>
sync == <<s_marker_queue, s_marker_sem, s_marker_ok>>
log == <<logger, marker, s_trip_active>>
phone == <<told, sure>>
vars == <<sent, cmd_queue, task, sync, log, late, phone>>

NoMarker == [type |-> "none", n |-> 0]

Init ==
  /\ sent = 0 /\ cmd_queue = <<>>
  /\ pc = "idle" /\ cmd = "none" /\ posted = 0 /\ took = 0 /\ behind = FALSE
  /\ s_marker_queue = <<>> /\ s_marker_sem = 0 /\ s_marker_ok = FALSE
  /\ logger = "mount" /\ marker = NoMarker
  /\ s_trip_active \in BOOLEAN       \* a trip may have been resumed
  /\ late = {} /\ told = "unknown" /\ sure = FALSE

-----------------------------------------------------------------------------
(* The command task. *)

\* nus_rx_access_cb: a command that finds the queue full is dropped.
Receive(c) ==
  /\ sent < MaxCommands /\ sent' = sent + 1
  /\ cmd_queue' = IF Len(cmd_queue) < CmdQueueDepth THEN Append(cmd_queue, c)
                                                    ELSE cmd_queue
  /\ UNCHANGED <<task, sync, log, late, phone>>

\* What the phone believes once it has the answer `belief`.
Tell(belief, definite) == told' = belief /\ sure' = definite

\* Of the unhandled markers n, those that may still change the trip: not the one
\* whose handler has set the flag and is at work on the card.
Undecided(n) == IF logger = "work" THEN n \ {marker.n} ELSE n

\* The answer OK to the marker c, and the state of the trip in STATUS.
Belief(c) == IF c = "TRIP_START" THEN "running" ELSE "idle"
Status == IF s_trip_active THEN "running" ELSE "idle"

\* dispatch_command: STATUS is answered at once.
Dispatch ==
  /\ pc = "idle" /\ cmd_queue # <<>>
  /\ cmd_queue' = Tail(cmd_queue)
  /\ IF Head(cmd_queue) = "STATUS"
     THEN Tell(Status, Undecided(late) = {}) /\ UNCHANGED <<pc, cmd>>
     ELSE Tell("unknown", FALSE) /\ pc' = "clear" /\ cmd' = Head(cmd_queue)
  /\ UNCHANGED <<sent, posted, took, behind, sync, log, late>>

\* Mutant of ClearStale: the completion of a late marker is left there.
ClearNothing ==
  /\ pc = "clear" /\ pc' = "send"
  /\ behind' = (late # {})
  /\ UNCHANGED <<sent, cmd_queue, cmd, posted, took, sync, log, late, phone>>

\* The head of can_logger_post_marker.
ClearStale ==
  /\ pc = "clear" /\ pc' = "send"
  /\ s_marker_sem' = 0
  /\ behind' = (late # {})
  /\ UNCHANGED <<sent, cmd_queue, cmd, posted, took, s_marker_queue, s_marker_ok,
                 log, late, phone>>

\* Mutant of Post: sent and not waited for.
PostOnly ==
  /\ pc = "send" /\ Len(s_marker_queue) < MarkerQueueDepth
  /\ pc' = "idle" /\ cmd' = "none" /\ posted' = posted + 1
  /\ s_marker_queue' = Append(s_marker_queue, [type |-> cmd, n |-> posted + 1])
  /\ UNCHANGED <<sent, cmd_queue, took, behind, s_marker_sem, s_marker_ok, log, late, phone>>

\* Mutant of Post: the queue has no limit.
PostUnbounded ==
  /\ pc = "send" /\ pc' = "wait" /\ posted' = posted + 1
  /\ s_marker_queue' = Append(s_marker_queue, [type |-> cmd, n |-> posted + 1])
  /\ UNCHANGED <<sent, cmd_queue, cmd, took, behind, s_marker_sem, s_marker_ok, log,
                 late, phone>>

Post ==
  /\ pc = "send" /\ Len(s_marker_queue) < MarkerQueueDepth
  /\ pc' = "wait" /\ posted' = posted + 1
  /\ s_marker_queue' = Append(s_marker_queue, [type |-> cmd, n |-> posted + 1])
  /\ UNCHANGED <<sent, cmd_queue, cmd, took, behind, s_marker_sem, s_marker_ok,
                 log, late, phone>>

Answered == pc' = "idle" /\ cmd' = "none"

\* Full for 100 ms: "ERR queue_full".
PostFails ==
  /\ pc = "send" /\ Len(s_marker_queue) = MarkerQueueDepth
  /\ Answered
  /\ UNCHANGED <<sent, cmd_queue, posted, took, behind, sync, log, late, phone>>

\* can_logger_wait_marker, up to the semaphore.
Take ==
  /\ pc = "wait" /\ s_marker_sem # 0
  /\ pc' = "read" /\ took' = s_marker_sem /\ s_marker_sem' = 0
  /\ late' = late \cup ({posted} \ {s_marker_sem})
  /\ UNCHANGED <<sent, cmd_queue, cmd, posted, behind, s_marker_queue, s_marker_ok,
                 log, phone>>

\* Mutant of WaitTimesOut: the wait has no limit.
WaitForever == FALSE

\* After 4 s, or 8 s for TRIP_END: the answer is OK all the same, whether the
\* logger is at work on the marker or has not seen it.
WaitTimesOut ==
  /\ pc = "wait" /\ s_marker_sem = 0
  /\ Answered
  /\ late' = late \cup {posted}
  /\ Tell(Belief(cmd), Undecided(late') = {})
  /\ UNCHANGED <<sent, cmd_queue, posted, took, behind, sync, log>>

\* The outcome is read after the semaphore was taken: "OK" or "ERR no_log".
ReadOutcome ==
  /\ pc = "read" /\ Answered
  /\ Tell(IF s_marker_ok THEN Belief(cmd) ELSE "idle", took = posted)
  /\ UNCHANGED <<sent, cmd_queue, posted, took, behind, sync, log, late>>

-----------------------------------------------------------------------------
(* The logger task. *)

\* sd_store_mount succeeds and the boot sequence ends in the main loop.
Mounted ==
  /\ logger = "mount" /\ logger' = "loop"
  /\ UNCHANGED <<sent, cmd_queue, task, sync, marker, s_trip_active, late, phone>>

TakeMarker ==
  /\ logger = "loop" /\ s_marker_queue # <<>>
  /\ logger' = "handle"
  /\ marker' = Head(s_marker_queue) /\ s_marker_queue' = Tail(s_marker_queue)
  /\ UNCHANGED <<sent, cmd_queue, task, s_marker_sem, s_marker_ok, s_trip_active,
                 late, phone>>

\* marker_done, on the way out of a handler with this outcome.
MarkerDone(ok) ==
  /\ logger' = "loop" /\ marker' = NoMarker
  /\ s_marker_ok' = ok /\ s_marker_sem' = marker.n
  /\ late' = late \ {marker.n}
  /\ UNCHANGED <<sent, cmd_queue, task, s_marker_queue, phone>>

\* handle_trip_start: a running trip is kept; without a log file none starts.
StartKept ==
  /\ logger = "handle" /\ marker.type = "TRIP_START" /\ s_trip_active
  /\ MarkerDone(TRUE) /\ UNCHANGED s_trip_active

\* Mutant of StartFails: the failure is not passed on.
StartFailsSilently ==
  /\ logger = "handle" /\ marker.type = "TRIP_START" /\ ~s_trip_active
  /\ MarkerDone(TRUE) /\ UNCHANGED s_trip_active

StartFails ==
  /\ logger = "handle" /\ marker.type = "TRIP_START" /\ ~s_trip_active
  /\ MarkerDone(FALSE) /\ UNCHANGED s_trip_active

\* handle_trip_end with no trip: not an error.
EndIgnored ==
  /\ logger = "handle" /\ marker.type = "TRIP_END" /\ ~s_trip_active
  /\ MarkerDone(TRUE) /\ UNCHANGED s_trip_active

\* The flag changes before the card work that the answer waits for: the rows and
\* the record of a start, the rotation of an end.
BeginTrip ==
  /\ logger = "handle" /\ marker.type = "TRIP_START" /\ ~s_trip_active
  /\ s_trip_active' = TRUE /\ logger' = "work"
  /\ UNCHANGED <<sent, cmd_queue, task, sync, marker, late, phone>>

EndTrip ==
  /\ logger = "handle" /\ marker.type = "TRIP_END" /\ s_trip_active
  /\ s_trip_active' = FALSE /\ logger' = "work"
  /\ UNCHANGED <<sent, cmd_queue, task, sync, marker, late, phone>>

WorkDone == logger = "work" /\ MarkerDone(TRUE) /\ UNCHANGED s_trip_active

-----------------------------------------------------------------------------

CommandTask ==
  Dispatch \/ ClearStale \/ Post \/ PostFails \/ Take \/ WaitTimesOut \/ ReadOutcome

Handling == TakeMarker \/ StartKept \/ StartFails \/ EndIgnored \/ BeginTrip \/ EndTrip
              \/ WorkDone

Next == (\E c \in Commands : Receive(c)) \/ CommandTask \/ Mounted \/ Handling

Spec == Init /\ [][Next]_vars

\* The command task runs and its timeouts expire; the logger runs, but the card
\* may never be mounted.
FairSpec == Spec /\ WF_vars(CommandTask) /\ WF_vars(Handling)

-----------------------------------------------------------------------------
(* Properties. *)

Numbered == [type : Markers, n : Nat \ {0}]

TypeOK ==
  /\ sent \in Nat /\ cmd_queue \in Seq(Commands)
  /\ pc \in {"idle", "clear", "send", "wait", "read"}
  /\ cmd \in Markers \cup {"none"} /\ (pc # "idle" => cmd \in Markers)
  /\ posted \in Nat /\ took \in Nat /\ behind \in BOOLEAN
  /\ s_marker_queue \in Seq(Numbered) /\ Len(s_marker_queue) <= MarkerQueueDepth
  /\ s_marker_sem \in Nat /\ s_marker_ok \in BOOLEAN
  /\ logger \in {"mount", "loop", "handle", "work"}
  /\ marker \in Numbered \cup {NoMarker}
  /\ (logger \in {"handle", "work"} <=> marker # NoMarker)
  /\ s_trip_active \in BOOLEAN /\ late \subseteq Nat
  /\ told \in {"idle", "unknown", "running"} /\ sure \in BOOLEAN

\* The completion that a wait takes is that of the marker just posted, provided
\* the markers whose waits timed out earlier were handled by the time it was
\* posted: their completions are cleared, however late they came.
OwnCompletion == pc = "read" => took = posted \/ behind

\* The header of can_logger_post_marker: a following wait "waits for *this*
\* marker rather than one whose earlier wait timed out".
WaitsForThisMarker == pc = "read" => took = posted

\* What the phone was told is so until its next marker, for each kind of answer: that
\* of a wait that took its own completion; STATUS, and the OK after a timeout, also
\* in the middle of a handler's work on the card, unless another marker is still to
\* be decided.
AnswersAgree ==
  sure => /\ told = "running" => s_trip_active
          /\ told = "idle" => ~s_trip_active

\* One marker at a time is under way, and those that came too late: the queue
\* fills, and the phone gets "ERR queue_full", only after as many timeouts.
Pending == Len(s_marker_queue) + (IF marker = NoMarker THEN 0 ELSE 1)
QueueHoldsLateMarkers ==
  Pending <= Cardinality(late) + (IF pc = "wait" THEN 1 ELSE 0)

\* The phone always gets an answer: the command task is never stuck behind a
\* logger that waits for a card.
CommandTaskResponds == []<>(pc = "idle")

=============================================================================
