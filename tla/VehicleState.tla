----------------------------- MODULE VehicleState -----------------------------
(***************************************************************************)
(* The vehicle state (src/main/vehicle_state.c): one writer, the logger    *)
(* task decoding frame by frame (can_decode.c, can_logger.c), and the      *)
(* refresh of the dash (ui/ui_dash.c), which copies the state in one       *)
(* critical section and asks in a second whether it is fresh.  The two may *)
(* run on different cores, so each write and each half of the copy is a    *)
(* step; only the spinlock orders them.                                    *)
(*                                                                         *)
(* A field is the number of the frame that it was decoded from.  A frame   *)
(* of the pack current writes two of them, any other one.  Time advances   *)
(* in units of 100 ms or more; a refresh may be late by any time.          *)
(***************************************************************************)
EXTENDS Integers

CONSTANTS
  Stale,                 \* STALE_MS
  MaxFrames, MaxTime     \* bounds

ASSUME StateBounds == Stale \in Nat \ {0} /\ MaxFrames \in Nat /\ MaxTime \in Nat \ {0}

VARIABLES
  s_lock,       \* who is in the critical section: "none", "writer", "reader"
  s_state,      \* last_frame_us (0 if none), pack_current_ma, power_w
  writer,       \* "idle", "stamp", "decode", "power"
  frame,        \* frames so far; the one being decoded
  reader,       \* refresh_cb: "idle", "copy", "second", "ask", "compare", "draw"
  copy,         \* its copy of the state
  last, fresh,  \* vehicle_state_is_fresh: the stamp it read, and its answer
  shown,        \* the dash: "--", or the values of the copy
  asked,        \* history: when the last refresh compared
  tick          \* esp_timer_get_time

stateVars == <<s_lock, s_state, writer, frame, reader, copy, last, fresh, shown, asked, tick>>

Zeros == [last_frame_us |-> 0, pack_current_ma |-> 0, power_w |-> 0]

StateInit ==
  /\ s_lock = "none" /\ s_state = Zeros /\ writer = "idle" /\ frame = 0
  /\ reader = "idle" /\ copy = Zeros /\ last = 0 /\ fresh = FALSE
  /\ shown = "--" /\ asked = 1 /\ tick = 1

-----------------------------------------------------------------------------
(* The logger task: vehicle_state_lock, can_decode_frame, unlock.            *)

\* Mutant of Lock: the writer does not take the lock.
LockNothing == s_lock # "writer" /\ writer' = "stamp" /\ UNCHANGED s_lock
Lock == s_lock = "none" /\ s_lock' = "writer" /\ writer' = "stamp"

DrainOne ==
  /\ writer = "idle" /\ frame < MaxFrames /\ frame' = frame + 1 /\ Lock
  /\ UNCHANGED <<s_state, reader, copy, last, fresh, shown, asked, tick>>

\* Any frame at all counts as the bus being alive.
Stamp ==
  /\ writer = "stamp" /\ writer' = "decode"
  /\ s_state' = [s_state EXCEPT !.last_frame_us = tick]
  /\ UNCHANGED <<s_lock, frame, reader, copy, last, fresh, shown, asked, tick>>

DecodeCurrent ==
  /\ writer = "decode" /\ writer' = "power"
  /\ s_state' = [s_state EXCEPT !.pack_current_ma = frame]
  /\ UNCHANGED <<s_lock, frame, reader, copy, last, fresh, shown, asked, tick>>

Unlocked == writer' = "idle" /\ s_lock' = IF s_lock = "writer" THEN "none" ELSE s_lock

DecodePower ==
  /\ writer = "power" /\ Unlocked
  /\ s_state' = [s_state EXCEPT !.power_w = frame]
  /\ UNCHANGED <<frame, reader, copy, last, fresh, shown, asked, tick>>

\* Other fields, or none for an id that is not displayed.
DecodeOther ==
  /\ writer = "decode" /\ Unlocked
  /\ UNCHANGED <<s_state, frame, reader, copy, last, fresh, shown, asked, tick>>

-----------------------------------------------------------------------------
(* refresh_cb of the dash.                                                   *)

\* vehicle_state_snapshot.
BeginCopy ==
  /\ reader = "idle" /\ s_lock = "none" /\ s_lock' = "reader" /\ reader' = "copy"
  /\ UNCHANGED <<s_state, writer, frame, copy, last, fresh, shown, asked, tick>>

CopyFirst ==
  /\ reader = "copy" /\ reader' = "second"
  /\ copy' = [s_state EXCEPT !.power_w = copy.power_w]
  /\ UNCHANGED <<s_lock, s_state, writer, frame, last, fresh, shown, asked, tick>>

CopySecond ==
  /\ reader = "second" /\ reader' = "ask" /\ s_lock' = "none"
  /\ copy' = [copy EXCEPT !.power_w = s_state.power_w]
  /\ UNCHANGED <<s_state, writer, frame, last, fresh, shown, asked, tick>>

\* vehicle_state_is_fresh: the stamp is read in a critical section, the time after it.
ReadStamp ==
  /\ reader = "ask" /\ s_lock = "none" /\ reader' = "compare"
  /\ last' = s_state.last_frame_us
  /\ UNCHANGED <<s_lock, s_state, writer, frame, copy, fresh, shown, asked, tick>>

\* Mutant of FreshAt: that nothing ever arrived is not looked at.
FreshEver(stamp) == tick - stamp < Stale

FreshAt(stamp) == stamp # 0 /\ tick - stamp < Stale

Compare ==
  /\ reader = "compare" /\ reader' = "draw"
  /\ fresh' = FreshAt(last) /\ asked' = tick
  /\ UNCHANGED <<s_lock, s_state, writer, frame, copy, last, shown, tick>>

Draw ==
  /\ reader = "draw" /\ reader' = "idle"
  /\ shown' = IF fresh THEN "values" ELSE "--"
  /\ copy' = Zeros /\ last' = 0 /\ fresh' = FALSE
  /\ UNCHANGED <<s_lock, s_state, writer, frame, asked, tick>>

Tick ==
  /\ tick < MaxTime /\ tick' = tick + 1
  /\ UNCHANGED <<s_lock, s_state, writer, frame, reader, copy, last, fresh, shown, asked>>

-----------------------------------------------------------------------------

Decode == DrainOne \/ Stamp \/ DecodeCurrent \/ DecodePower \/ DecodeOther
Refresh == BeginCopy \/ CopyFirst \/ CopySecond \/ ReadStamp \/ Compare \/ Draw

StateNext == Decode \/ Refresh \/ Tick

StateSpec == StateInit /\ [][StateNext]_stateVars

-----------------------------------------------------------------------------
(* Properties. *)

Fields == [last_frame_us : 0..MaxTime, pack_current_ma : 0..MaxFrames, power_w : 0..MaxFrames]

StateTypeOK ==
  /\ s_lock \in {"none", "writer", "reader"} /\ s_state \in Fields /\ copy \in Fields
  /\ writer \in {"idle", "stamp", "decode", "power"} /\ frame \in 0..MaxFrames
  /\ reader \in {"idle", "copy", "second", "ask", "compare", "draw"}
  /\ last \in 0..MaxTime /\ fresh \in BOOLEAN /\ shown \in {"--", "values"}
  /\ asked \in 1..MaxTime /\ tick \in 1..MaxTime

\* What the dash draws belongs together: the power is the one computed from the
\* current beside it, although both are copied while frames are decoded on the other
\* core.
SnapshotCoherent ==
  reader \in {"ask", "compare", "draw"} => copy.pack_current_ma = copy.power_w

\* Whether the state is fresh is asked after the copy was taken, so a frame in between
\* makes an old copy, or zeros, pass as fresh.  That happens only when the dash showed
\* "--" before: while it shows values, those it draws next are of a bus that was still
\* alive, by the limit of Stale, when the refresh before this one asked.
OldValuesOnlyOnWaking ==
  [][reader = "compare" /\ fresh' /\ shown = "values" =>
       copy.last_frame_us # 0 /\ asked - copy.last_frame_us < Stale]_stateVars

=============================================================================
