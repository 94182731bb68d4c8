------------------------------- MODULE CanNode -------------------------------
(***************************************************************************)
(* The CAN node (src/main/can_handler.c) and the bus-off pass of the       *)
(* logger task (src/main/can_logger.c): how the node is started from a     *)
(* short-lived task on core 1, and how a node that took itself off the bus *)
(* is recovered.                                                           *)
(*                                                                         *)
(* The state-change callback runs in an interrupt on core 1 while the      *)
(* logger runs on core 0, so every access to the shared flags is a step of *)
(* its own.  The controller and its driver are external: the node goes off *)
(* the bus, may accept a recovery while it is off, finishes it once the    *)
(* bus is quiet, and calls back after each change, one callback at a time. *)
(***************************************************************************)
EXTENDS Integers

CONSTANTS MaxBusOff   \* bound: how often the node goes off the bus

ASSUME Bound == MaxBusOff \in Nat

VARIABLES
  node,          \* the controller: "none", "made", "active", "off", "recovering"
  hooked,        \* the callbacks are registered
  offs,          \* s_bus_off_count
  isr,           \* the callback under way: "none", "off", "notify", "back"
  init,          \* start_task: "none", "make", "register", "enable", "store",
                 \* "announce", "done"
  s_start_ok, s_start_done,
  s_is_bus_off,  \* the live state, written by the callback only
  s_bus_off,     \* a recovery is wanted, written by both
  pc,            \* the logger: "start", "poll", "loop", "check", "clear", "retry"
  started,       \* what can_handler_start returned
  due,           \* RECOVER_RETRY_MS are over since the last request
  raced          \* history: a request was cleared that had just been made

driver == <<node, hooked, offs, isr>>
startup == <<init, s_start_ok, s_start_done>>
flags == <<s_is_bus_off, s_bus_off>>
logger == <<pc, started, due, raced>>
vars == <<driver, startup, flags, logger>>

Init ==
  /\ node = "none" /\ hooked = FALSE /\ offs = 0 /\ isr = "none"
  /\ init = "none" /\ s_start_ok = FALSE /\ s_start_done = FALSE
  /\ s_is_bus_off = FALSE /\ s_bus_off = FALSE
  /\ pc = "start" /\ started = FALSE /\ due = TRUE /\ raced = FALSE

-----------------------------------------------------------------------------
(* can_handler_start: the logger spawns the task and polls for its result.   *)

\* The task may not be created; then CAN stays down.
SpawnStart ==
  /\ pc = "start"
  /\ s_start_done' = FALSE /\ s_start_ok' = FALSE
  /\ \/ pc' = "poll" /\ init' = "make"
     \/ pc' = "loop" /\ init' = init
  /\ UNCHANGED <<driver, flags, started, due, raced>>

\* A call of start_node works, or ends it.
Call(here, next, effect) ==
  /\ init = here
  /\ \/ effect /\ init' = next
     \/ UNCHANGED <<node, hooked>> /\ init' = "store"
  /\ UNCHANGED <<offs, isr, s_start_ok, s_start_done, flags, logger>>

Enabled == node \in {"active", "off", "recovering"}

\* Mutant of RegisterCallbacks: enabled without callbacks.
RegisterNothing == Call("register", "enable", UNCHANGED <<node, hooked>>)

MakeNode == Call("make", "register", node' = "made" /\ UNCHANGED hooked)
RegisterCallbacks == Call("register", "enable", hooked' = TRUE /\ UNCHANGED node)
EnableNode == Call("enable", "store", node' = "active" /\ UNCHANGED hooked)

\* Mutant of StoreResult: announced before it is stored.
AnnounceFirst ==
  /\ init = "store" /\ init' = "announce" /\ s_start_done' = TRUE
  /\ UNCHANGED <<driver, s_start_ok, flags, logger>>

\* start_task: the result, then the announcement.
StoreResult ==
  /\ init = "store" /\ init' = "announce"
  /\ s_start_ok' = Enabled
  /\ UNCHANGED <<driver, s_start_done, flags, logger>>

Announce ==
  /\ init = "announce" /\ init' = "done"
  /\ s_start_done' = TRUE
  /\ UNCHANGED <<driver, s_start_ok, flags, logger>>

ReadResult ==
  /\ pc = "poll" /\ s_start_done
  /\ pc' = "loop" /\ started' = s_start_ok
  /\ UNCHANGED <<driver, startup, flags, due, raced>>

-----------------------------------------------------------------------------
(* The controller and on_state_change.  The node reports nothing before it   *)
(* is enabled.                                                               *)

GoesOff ==
  /\ node = "active" /\ isr = "none" /\ offs < MaxBusOff
  /\ node' = "off" /\ isr' = "off"
  /\ UNCHANGED <<hooked, offs, startup, flags, logger>>

\* A recovery that was accepted is complete.
ComesBack ==
  /\ node = "recovering" /\ isr = "none"
  /\ node' = "active" /\ isr' = "back"
  /\ UNCHANGED <<hooked, offs, startup, flags, logger>>

MarkOff ==
  /\ isr = "off" /\ isr' = "notify"
  /\ offs' = offs + 1 /\ s_is_bus_off' = TRUE
  /\ UNCHANGED <<node, hooked, startup, s_bus_off, logger>>

\* can_logger_notify_bus_off_from_isr.
Notify ==
  /\ isr = "notify" /\ isr' = "none" /\ s_bus_off' = TRUE
  /\ UNCHANGED <<node, hooked, offs, startup, s_is_bus_off, logger>>

\* Mutant of MarkBack: the callback ignores the way back.
BackIgnored == isr = "back" /\ isr' = "none"
               /\ UNCHANGED <<node, hooked, offs, startup, flags, logger>>

MarkBack ==
  /\ isr = "back" /\ isr' = "none" /\ s_is_bus_off' = FALSE
  /\ UNCHANGED <<node, hooked, offs, startup, s_bus_off, logger>>

-----------------------------------------------------------------------------
(* The bus-off pass of the logger's main loop.                               *)

SeeRequest ==
  /\ pc = "loop" /\ s_bus_off /\ pc' = "check"
  /\ UNCHANGED <<driver, startup, flags, started, due, raced>>

\* can_handler_is_bus_off: the node coming back retires the request.
ReadLive ==
  /\ pc = "check"
  /\ pc' = IF s_is_bus_off THEN "retry" ELSE "clear"
  /\ UNCHANGED <<driver, startup, flags, started, due, raced>>

ClearRequest ==
  /\ pc = "clear" /\ pc' = "loop" /\ s_bus_off' = FALSE
  /\ raced' = (raced \/ (s_is_bus_off /\ isr # "notify"))
  /\ UNCHANGED <<driver, startup, s_is_bus_off, started, due>>

\* Mutant of Recover: the request is retired when it is issued.
RecoverOnce ==
  /\ pc = "retry" /\ due /\ pc' = "loop"
  /\ due' = FALSE /\ s_bus_off' = FALSE
  /\ node' \in {node} \cup (IF node = "off" THEN {"recovering"} ELSE {})
  /\ UNCHANGED <<hooked, offs, isr, startup, s_is_bus_off, started, raced>>

\* can_handler_recover: the driver refuses unless the node is off the bus, and
\* may refuse then.
RecoverAccepted ==
  /\ pc = "retry" /\ due /\ node = "off"
  /\ pc' = "loop" /\ due' = FALSE /\ node' = "recovering"
  /\ UNCHANGED <<hooked, offs, isr, startup, flags, started, raced>>

RecoverRefused ==
  /\ pc = "retry" /\ due
  /\ pc' = "loop" /\ due' = FALSE
  /\ UNCHANGED <<driver, startup, flags, started, raced>>

Recover == RecoverAccepted \/ RecoverRefused

WaitToRetry ==
  /\ pc = "retry" /\ ~due /\ pc' = "loop"
  /\ UNCHANGED <<driver, startup, flags, started, due, raced>>

\* Mutant of RetryTimer: the time of the last request is not compared.
RetryNever == FALSE

RetryTimer ==
  /\ ~due /\ due' = TRUE
  /\ UNCHANGED <<driver, startup, flags, pc, started, raced>>

-----------------------------------------------------------------------------

StartTask == MakeNode \/ RegisterCallbacks \/ EnableNode \/ StoreResult \/ Announce
Interrupt == MarkOff \/ Notify \/ MarkBack
Logger == SpawnStart \/ ReadResult \/ SeeRequest \/ ReadLive \/ ClearRequest \/ Recover
            \/ WaitToRetry

Next == StartTask \/ GoesOff \/ ComesBack \/ Interrupt \/ Logger \/ RetryTimer

Spec == Init /\ [][Next]_vars

\* Tasks and callbacks run, time passes, the bus becomes quiet, and the driver
\* does not refuse a node that is off the bus for ever.
FairSpec ==
  /\ Spec
  /\ WF_vars(StartTask) /\ WF_vars(Interrupt) /\ WF_vars(Logger)
  /\ WF_vars(RetryTimer) /\ WF_vars(ComesBack) /\ SF_vars(RecoverAccepted)

-----------------------------------------------------------------------------
(* Properties. *)

TypeOK ==
  /\ node \in {"none", "made", "active", "off", "recovering"} /\ hooked \in BOOLEAN
  /\ offs \in 0..MaxBusOff /\ isr \in {"none", "off", "notify", "back"}
  /\ init \in {"none", "make", "register", "enable", "store", "announce", "done"}
  /\ s_start_ok \in BOOLEAN /\ s_start_done \in BOOLEAN
  /\ s_is_bus_off \in BOOLEAN /\ s_bus_off \in BOOLEAN
  /\ pc \in {"start", "poll", "loop", "check", "clear", "retry"}
  /\ started \in BOOLEAN /\ due \in BOOLEAN /\ raced \in BOOLEAN
  /\ (Enabled => hooked)

\* The logger learns the truth about the start, although the task on core 1
\* hands it over in two unsynchronised flags.
StartReported ==
  [][pc = "poll" /\ pc' = "loop" => (started' <=> Enabled)]_vars

\* A node that is off the bus has a recovery wanted or under way, whatever the
\* driver refused and however the callbacks fell between the steps of the pass;
\* the one exception is a request that was cleared just as it was made.
RequestKept ==
  node = "off" /\ isr = "none" => s_bus_off \/ raced

\* A request is retired once the node is back: none is left over to be retried
\* for the rest of the power cycle.
RequestRetired == s_bus_off ~> ~s_bus_off

\* With that exception, a node that goes off the bus comes back.
RecoversUnlessRaced == node = "off" ~> node = "active" \/ raced

\* The comments of on_state_change and of the pass: "an unattended logger must
\* not stay deaf", no request is "dropped" so that the logger would "stay deaf
\* for the rest of the power cycle".
NeverStaysDeaf == node = "off" ~> node = "active"

=============================================================================
