----------------------------- MODULE TripFigures -----------------------------
(***************************************************************************)
(* The figures of a trip (src/main/can_logger.c) across power-ups: charge  *)
(* used, running time and start time, from the record in NVS, the charge   *)
(* counter of the shunt and a clock that may be unset or wrong             *)
(* (src/main/rtc_time.c).                                                  *)
(*                                                                         *)
(* Time goes in seconds, the interval of snapshots; the passes of the      *)
(* logger's loop in one second are taken together.  Charge stands for      *)
(* energy too; peaks and the state of charge are left out.  The counter    *)
(* is signed, may start at any value in each power-up, and runs down while *)
(* the motor feeds the battery; nothing is used with the power off.  NVS   *)
(* works here: CanLogger has its faults.                                   *)
(***************************************************************************)
EXTENDS Integers

CONSTANTS
  SaveInterval,   \* TRIP_SAVE_INTERVAL_MS, in seconds (60)
  StaleAfter,     \* silence after which the state is not fresh, in seconds (2)
  FirstCounts,    \* what the charge counter may start at
  Uses,           \* units that may be used, or given back, in a second
  Slow, Fast,     \* by how much a clock that was never set by the phone is off
  Dawn,           \* unix time at the start of the model
  \* bounds: seconds, those before a trip, seconds without the counter or snapshot file,
  \* power cuts, trips, times set by the phone
  MaxSeconds, MaxIdle, MaxLapses, MaxCuts, MaxTrips, MaxTimes

ASSUME TripTimes == SaveInterval \in Nat \ {0} /\ StaleAfter \in Nat \ {0}
ASSUME TripData ==
  /\ FirstCounts \subseteq Int /\ Uses \subseteq -1..1 /\ Fast \subseteq Nat /\ Slow \subseteq Nat
  /\ Dawn \in Nat \ {0} /\ \A s \in Slow : s + MaxSeconds < Dawn
ASSUME TripBounds == {MaxSeconds, MaxIdle, MaxLapses, MaxCuts, MaxTrips, MaxTimes} \subseteq Nat

VARIABLES
  power,          \* "off", "mounting" (the mount loop), "loop"
  pass,           \* of the main loop: "sleep", "markers", "snapshot"
  up,             \* esp_timer_get_time, in seconds
  shunt,          \* the counter in the shunt
  isa_ah,         \* vehicle_state: the counter, 0 before it arrived
  quiet,          \* seconds since the last frame of any kind, up to StaleAfter
  last_trip,      \* seconds since the last save, up to SaveInterval
  clock,          \* Unset (~s_valid), or the error of the system clock, in a sequence
  rtc,            \* the same of the battery-backed clock
  s_trip_active, s_trip_start_ah, s_trip_start_tick, s_trip_baseline_ok,
  s_trip_fresh_snaps, s_trip_carry,
  nvs_trip,       \* the record in NVS, or NoTrip
  now,            \* the true time
  truth           \* history; see NoHistory

ram == <<up, isa_ah, quiet, last_trip>>
clocks == <<clock, rtc>>
trip == <<s_trip_active, s_trip_start_ah, s_trip_start_tick, s_trip_baseline_ok,
          s_trip_fresh_snaps, s_trip_carry>>
tripVars == <<power, pass, ram, shunt, clocks, trip, nvs_trip, now, truth>>

NoTrip == [version |-> 0]
NoCarry == [version |-> 1, start_unix |-> 0, run_s |-> 0, ah_as |-> 0]
Unset == <<>>
Right == <<0>>
WrongClocks == {<<e>> : e \in Fast} \cup {<<-e>> : e \in Slow}

\* What an observer knows of the trip: units used, seconds with power, when it began,
\* whether the clock was right then, and has been wrong since; cuts and seconds of
\* mounting in it, and the units that its charge may be wrong by: those used without
\* the counter or a baseline, those of the cuts, and by how much the copy of the counter
\* was off when a baseline was taken.  Then what was spent of the bounds.
NoHistory == [used |-> 0, ran |-> 0, began |-> 0, dated |-> FALSE, misled |-> FALSE,
              cuts |-> 0, mounting |-> 0, slack |-> 0, trips |-> 0, times |-> 0, powercuts |-> 0, lapses |-> 0]

RamCleared ==
  /\ up' = 0 /\ isa_ah' = 0 /\ quiet' = StaleAfter /\ last_trip' = 0
  /\ s_trip_start_ah' = 0 /\ s_trip_start_tick' = 0
  /\ s_trip_baseline_ok' = FALSE /\ s_trip_fresh_snaps' = 0

TripInit ==
  /\ power = "off" /\ pass = "sleep" /\ shunt = 0
  /\ up = 0 /\ isa_ah = 0 /\ quiet = StaleAfter /\ last_trip = 0
  /\ clock = Unset /\ rtc \in {Unset, Right} \cup WrongClocks
  /\ s_trip_active = FALSE /\ s_trip_start_ah = 0 /\ s_trip_start_tick = 0
  /\ s_trip_baseline_ok = FALSE /\ s_trip_fresh_snaps = 0
  /\ s_trip_carry = NoCarry /\ nvs_trip = NoTrip
  /\ now = 0 /\ truth = NoHistory

UpTo(a, b) == IF a < b THEN a ELSE b
Valid == clock # Unset                    \* rtc_time_valid
Wrong(c) == c \notin {Unset, Right}
Time == Dawn + now + clock[1]             \* time(NULL), of a clock that is set
Fresh == quiet < StaleAfter               \* vehicle_state_is_fresh(2000)

-----------------------------------------------------------------------------
(* trip_totals and trip_save.                                                *)

RunTotal == s_trip_carry.run_s + (up - s_trip_start_tick)

\* Mutant of AhTotal: a resumed trip counts without its baseline.
AhTotalUnbased == s_trip_carry.ah_as + isa_ah - s_trip_start_ah

AhTotal ==
  s_trip_carry.ah_as + (IF s_trip_baseline_ok THEN isa_ah - s_trip_start_ah ELSE 0)

\* The start time, once the clock is known.
StartKnown ==
  IF s_trip_carry.start_unix = 0 /\ Valid THEN Time - RunTotal ELSE s_trip_carry.start_unix

TripRecord ==
  [s_trip_carry EXCEPT !.run_s = RunTotal, !.ah_as = AhTotal, !.start_unix = StartKnown]

-----------------------------------------------------------------------------
(* Power, time and the phone.                                                *)

\* Bound: nothing more happens when the last trip is over.
Going == truth.trips < MaxTrips \/ nvs_trip # NoTrip

\* rtc_time_init reads the clock, or cannot; trip_resume picks up a trip.
PowerUp ==
  /\ power = "off" /\ Going /\ power' = "mounting" /\ pass' = "sleep"
  /\ shunt' \in FirstCounts
  /\ RamCleared
  /\ clock' \in {rtc, Unset}
  /\ s_trip_active' = (nvs_trip # NoTrip)
  /\ s_trip_carry' = IF nvs_trip # NoTrip THEN nvs_trip ELSE NoCarry
  /\ truth' = [truth EXCEPT !.misled = @ \/ (nvs_trip # NoTrip /\ Wrong(clock'))]
  /\ UNCHANGED <<rtc, nvs_trip, now>>

PowerCut ==
  /\ power # "off" /\ Going /\ truth.powercuts < MaxCuts /\ power' = "off"
  /\ pass' = "sleep" /\ shunt' = 0 /\ RamCleared /\ clock' = Unset
  /\ s_trip_active' = FALSE /\ s_trip_carry' = NoCarry
  /\ truth' = [truth EXCEPT !.powercuts = @ + 1,
                            !.cuts = @ + (IF s_trip_active THEN 1 ELSE 0),
                            !.slack = @ + (IF s_trip_active THEN SaveInterval ELSE 0)]
  /\ UNCHANGED <<rtc, nvs_trip, now>>

OffSecond ==
  /\ power = "off" /\ Going /\ now < MaxSeconds /\ now' = now + 1
  /\ UNCHANGED <<power, pass, ram, shunt, clocks, trip, nvs_trip, truth>>

\* TIME of the phone: rtc_time_set; the RTC may be absent or fail.  In the loop only
\* the markers and the save read the clock, so it is set there.
SetTime ==
  /\ power = "mounting" \/ (power = "loop" /\ pass = "markers")
  /\ Going /\ truth.times < MaxTimes
  /\ clock' = Right /\ rtc' \in {rtc, Right}
  /\ truth' = [truth EXCEPT !.times = @ + 1]
  /\ UNCHANGED <<power, pass, ram, shunt, trip, nvs_trip, now>>

\* A second of the trip, in which n units are used.
Passed(n) == [truth EXCEPT !.used = @ + n, !.ran = @ + 1,
                           !.slack = @ + (IF s_trip_baseline_ok THEN 0 ELSE 1)]

TimePasses ==
  /\ Going /\ now < MaxSeconds /\ (now >= MaxIdle => nvs_trip # NoTrip)
  /\ now' = now + 1 /\ up' = up + 1

MountSecond ==
  /\ power = "mounting" /\ TimePasses
  /\ \E n \in Uses :
       /\ shunt' = shunt + n
       /\ truth' = IF s_trip_active THEN [Passed(n) EXCEPT !.mounting = @ + 1] ELSE truth
  /\ UNCHANGED <<power, pass, isa_ah, quiet, last_trip, clocks, trip, nvs_trip>>

-----------------------------------------------------------------------------
(* The logger task.                                                          *)

\* Mounted; CAN is started and last_trip set.
LoopStarts ==
  /\ power = "mounting" /\ Going /\ power' = "loop" /\ last_trip' = 0
  /\ UNCHANGED <<pass, up, isa_ah, quiet, shunt, clocks, trip, nvs_trip, now, truth>>

\* The next second and its frames: with the charge counter, or, a lapse, only others
\* or none.
Drain ==
  /\ power = "loop" /\ pass = "sleep" /\ pass' = "markers" /\ TimePasses
  /\ last_trip' = UpTo(last_trip + 1, SaveInterval)
  /\ \E n \in Uses :
       LET history == IF s_trip_active THEN Passed(n) ELSE truth IN
         /\ shunt' = shunt + n
         /\ \/ isa_ah' = shunt' /\ quiet' = 0 /\ truth' = history
            \/ /\ truth.lapses < MaxLapses
               /\ quiet' \in {0, UpTo(quiet + 1, StaleAfter)}
               /\ truth' = [history EXCEPT !.lapses = @ + 1, !.slack = @ + 1]
               /\ UNCHANGED isa_ah
  /\ UNCHANGED <<power, clocks, trip, nvs_trip>>

\* How far the last count that arrived is from that of the shunt.
Behind == IF isa_ah < shunt THEN shunt - isa_ah ELSE isa_ah - shunt

\* handle_trip_start, with the files open: a running trip is kept.
TripStart ==
  /\ power = "loop" /\ pass = "markers" /\ ~s_trip_active /\ truth.trips < MaxTrips
  /\ s_trip_start_ah' = isa_ah /\ s_trip_start_tick' = up
  /\ s_trip_baseline_ok' = TRUE /\ s_trip_active' = TRUE
  /\ s_trip_carry' = [NoCarry EXCEPT !.start_unix = IF Valid THEN Time ELSE 0]
  /\ nvs_trip' = s_trip_carry'
  /\ truth' = [NoHistory EXCEPT !.began = now, !.dated = (clock = Right),
                                !.misled = Wrong(clock),
                                !.slack = Behind,
                                !.trips = truth.trips + 1, !.times = truth.times,
                                !.powercuts = truth.powercuts, !.lapses = truth.lapses]
  /\ UNCHANGED <<power, pass, ram, shunt, clocks, s_trip_fresh_snaps, now>>

\* The TRIP_END row; with a start time in the past the duration is wall-clock time.
Row(wall, start) ==
  [duration_s |-> IF wall THEN Time - start ELSE RunTotal,
   start_unix |-> IF Valid /\ ~wall THEN Time - RunTotal ELSE start, ah |-> AhTotal]

\* Mutant of Summary: a start time in the future is taken for one in the past.
SummaryOfFuture == Row(Valid /\ s_trip_carry.start_unix # 0, s_trip_carry.start_unix)

Summary ==
  LET start == s_trip_carry.start_unix
  IN Row(Valid /\ start # 0 /\ start <= Time, start)

\* handle_trip_end: the trip is forgotten, and Summary written.
TripEnd ==
  /\ power = "loop" /\ pass = "markers" /\ s_trip_active
  /\ s_trip_active' = FALSE /\ nvs_trip' = NoTrip
  /\ UNCHANGED <<power, pass, ram, shunt, clocks, s_trip_start_ah, s_trip_start_tick,
                 s_trip_baseline_ok, s_trip_fresh_snaps, s_trip_carry, now, truth>>

\* The saved trip is kept current.
SavePass ==
  /\ power = "loop" /\ pass = "markers" /\ pass' = "snapshot"
  /\ IF s_trip_active /\ last_trip >= SaveInterval
     THEN /\ last_trip' = 0 /\ nvs_trip' = TripRecord
          /\ s_trip_carry' = [s_trip_carry EXCEPT !.start_unix = StartKnown]
     ELSE UNCHANGED <<last_trip, nvs_trip, s_trip_carry>>
  /\ UNCHANGED <<power, up, isa_ah, quiet, shunt, clocks, s_trip_active,
                 s_trip_start_ah, s_trip_start_tick, s_trip_baseline_ok,
                 s_trip_fresh_snaps, now, truth>>

\* write_snapshot: a resumed trip gets its baseline at the second fresh one.
Snapshot ==
  /\ power = "loop" /\ pass = "snapshot" /\ pass' = "sleep"
  /\ s_trip_active /\ ~s_trip_baseline_ok
  /\ s_trip_fresh_snaps' = IF Fresh THEN s_trip_fresh_snaps + 1 ELSE 0
  /\ IF s_trip_fresh_snaps' >= 2
     THEN /\ s_trip_baseline_ok' = TRUE /\ s_trip_start_ah' = isa_ah
          /\ truth' = [truth EXCEPT !.slack = @ + Behind]
     ELSE UNCHANGED <<s_trip_baseline_ok, s_trip_start_ah, truth>>
  /\ UNCHANGED <<power, ram, shunt, clocks, s_trip_active, s_trip_start_tick, s_trip_carry,
                 nvs_trip, now>>

\* It only writes a row, or, a lapse, there is no snapshot file.
PlainSnapshot ==
  /\ power = "loop" /\ pass = "snapshot" /\ pass' = "sleep"
  /\ IF s_trip_active /\ ~s_trip_baseline_ok
     THEN truth.lapses < MaxLapses /\ truth' = [truth EXCEPT !.lapses = @ + 1]
     ELSE truth' = truth
  /\ UNCHANGED <<power, ram, shunt, clocks, trip, nvs_trip, now>>

-----------------------------------------------------------------------------

TripNext ==
  \/ PowerUp \/ PowerCut \/ OffSecond \/ SetTime \/ MountSecond \/ LoopStarts
  \/ Drain \/ TripStart \/ TripEnd \/ SavePass \/ Snapshot \/ PlainSnapshot

TripSpec == TripInit /\ [][TripNext]_tripVars

-----------------------------------------------------------------------------
(* Properties. *)

Record == [version : {1}, start_unix : Nat, run_s : Nat, ah_as : Int]

TripTypeOK ==
  /\ power \in {"off", "mounting", "loop"}
  /\ pass \in {"sleep", "markers", "snapshot"}
  /\ {up, now, s_trip_start_tick} \subseteq Nat
  /\ {shunt, isa_ah, s_trip_start_ah} \subseteq Int
  /\ quiet \in 0..StaleAfter /\ last_trip \in 0..SaveInterval
  /\ {clock, rtc} \subseteq {Unset, Right} \cup WrongClocks
  /\ s_trip_active \in BOOLEAN /\ s_trip_baseline_ok \in BOOLEAN
  /\ s_trip_fresh_snaps \in 0..2
  /\ s_trip_carry \in Record /\ nvs_trip \in Record \cup {NoTrip}

\* A trip never counts a unit or a second twice, however often the power goes and
\* whichever way the counter runs, and a cut costs at most the time since the last save
\* ("at most a minute").  Besides, only what was used without the counter or before a
\* resumed trip had its baseline is missing, and of the running time the seconds of the
\* mount loop; and a baseline that is taken before the counter arrived is wrong by what
\* the counter stood at.
FiguresBounded ==
  s_trip_active =>
    /\ LET missing == truth.ran - RunTotal
       IN 0 <= missing /\ missing <= truth.cuts * SaveInterval + truth.mounting
    /\ LET missing == truth.used - AhTotal
       IN -truth.slack <= missing /\ missing <= truth.slack

\* Whatever the clock did, the duration written for a trip is no negative number; and
\* with a clock that was unset or right, but never wrong, it lies between the running
\* time and the time since TRIP_START, which it is if the clock was right at both ends.
SummaryConsistent ==
  power = "loop" /\ pass = "markers" /\ s_trip_active =>
    LET elapsed == now - truth.began
    IN /\ Summary.duration_s >= 0
       /\ ~truth.misled =>
            /\ RunTotal <= Summary.duration_s /\ Summary.duration_s <= elapsed
            /\ Valid => Summary.start_unix + Summary.duration_s = Time
            /\ truth.dated /\ Valid => Summary.duration_s = elapsed

=============================================================================
