----------------------------- MODULE PartsProofs -----------------------------
(***************************************************************************)
(* Proofs about the components MCParts puts side by side, for all values   *)
(* of their constants: the start and recovery of the CAN node under every  *)
(* interleaving of interrupt, start task and logger; the shared vehicle    *)
(* state; the controller of the two SDMMC slots; the running time, charge  *)
(* and duration of a trip; and that the behaviours of MCParts are those of *)
(* the components, no more and no less (Numbers has a proof module of its  *)
(* own).                                                                   *)
(***************************************************************************)
EXTENDS MCParts, TLAPS

-----------------------------------------------------------------------------
(* CanNode.                                                                *)

\* The hand-over of the start: the announcement is the last write of the task, and
\* the node is enabled only from the step before the result is stored.
StartInv ==
  /\ s_start_done <=> init = "done"
  /\ pc = "start" => init = "none"
  /\ init \in {"none", "make"} => node = "none"
  /\ init \in {"register", "enable"} => node = "made"
  /\ init = "enable" => hooked
  /\ init \in {"announce", "done"} => (s_start_ok <=> Enabled)

\* The callbacks follow the node: a node off the bus is recorded as such, and its
\* recovery wanted, once no callback is under way.
BusInv ==
  /\ isr = "off" => offs < MaxBusOff
  /\ isr \in {"off", "notify"} => node \in {"off", "recovering"}
  /\ isr = "back" => node = "active"
  /\ isr = "notify" => s_is_bus_off
  /\ node \in {"off", "recovering"} /\ isr = "none" =>
       s_is_bus_off /\ (s_bus_off \/ raced)

NodeInv == TypeOK /\ StartInv /\ BusInv

\* At the start nothing was spawned and no bus-off has happened.
LEMMA NodeInit == Init => NodeInv
<1> SUFFICES ASSUME Init PROVE NodeInv
  OBVIOUS
<1>1. s_start_done = FALSE /\ init = "none" /\ node = "none"
  BY DEF Init
<1>2. StartInv
  BY <1>1 DEF StartInv
<1>3. /\ hooked \in BOOLEAN /\ s_start_ok \in BOOLEAN /\ s_start_done \in BOOLEAN
     /\ s_is_bus_off \in BOOLEAN /\ s_bus_off \in BOOLEAN
     /\ started \in BOOLEAN /\ due \in BOOLEAN /\ raced \in BOOLEAN
  BY DEF Init
<1>4. TypeOK
  BY <1>1, <1>3, Bound DEF Init, TypeOK, Enabled
<1>5. BusInv
  BY DEF Init, BusInv
<1> QED
  BY <1>2, <1>4, <1>5 DEF NodeInv

\* The start task.
LEMMA StartTaskStep == NodeInv /\ StartTask => NodeInv'
<1> SUFFICES ASSUME NodeInv, StartTask PROVE NodeInv'
  OBVIOUS
<1> USE DEF NodeInv, TypeOK, StartInv, BusInv, Enabled, flags, logger
<1>1. CASE MakeNode
  BY <1>1 DEF MakeNode, Call
<1>2. CASE RegisterCallbacks
  BY <1>2 DEF RegisterCallbacks, Call
<1>3. CASE EnableNode
  BY <1>3 DEF EnableNode, Call
<1>4. CASE StoreResult
  BY <1>4 DEF StoreResult, driver
<1>5. CASE Announce
  BY <1>5 DEF Announce, driver
<1> QED
  BY <1>1, <1>2, <1>3, <1>4, <1>5 DEF StartTask

\* The controller and its callbacks.
LEMMA DriverStep == NodeInv /\ (GoesOff \/ ComesBack \/ Interrupt) => NodeInv'
<1> SUFFICES ASSUME NodeInv, GoesOff \/ ComesBack \/ Interrupt PROVE NodeInv'
  OBVIOUS
<1> USE Bound DEF NodeInv, TypeOK, StartInv, BusInv, Enabled, startup, logger
<1>1. CASE GoesOff
  BY <1>1 DEF GoesOff, flags
<1>2. CASE ComesBack
  BY <1>2 DEF ComesBack, flags
<1>3. CASE MarkOff
  BY <1>3 DEF MarkOff
<1>4. CASE Notify
  BY <1>4 DEF Notify
<1>5. CASE MarkBack
  BY <1>5 DEF MarkBack
<1> QED
  BY <1>1, <1>2, <1>3, <1>4, <1>5 DEF Interrupt

\* The logger, and the time it waits for.
LEMMA LoggerStep == NodeInv /\ (Logger \/ RetryTimer) => NodeInv'
<1> SUFFICES ASSUME NodeInv, Logger \/ RetryTimer PROVE NodeInv'
  OBVIOUS
<1> USE DEF NodeInv, TypeOK, StartInv, BusInv, Enabled
<1>1. CASE SpawnStart
  <2>1. init = "none" /\ init' \in {"none", "make"} /\ s_start_done' = FALSE /\ pc' # "start"
    BY <1>1 DEF SpawnStart
  <2>2. StartInv'
    BY <1>1, <2>1 DEF SpawnStart, driver
  <2>3. TypeOK' /\ BusInv'
    BY <1>1, <2>1 DEF SpawnStart, driver, flags
  <2> QED
    BY <2>2, <2>3
<1>2. CASE ReadResult
  <2>1. pc' = "loop" /\ started' \in BOOLEAN /\ UNCHANGED <<driver, startup, flags, due, raced>>
    BY <1>2 DEF ReadResult
  <2> QED
    BY <2>1 DEF driver, startup, flags
<1>3. CASE SeeRequest \/ ReadLive \/ WaitToRetry
  BY <1>3 DEF SeeRequest, ReadLive, WaitToRetry, driver, startup, flags
<1>4. CASE ClearRequest
  BY <1>4 DEF ClearRequest, driver, startup
<1>5. CASE RecoverAccepted
  BY <1>5 DEF RecoverAccepted, startup, flags
<1>6. CASE RecoverRefused
  BY <1>6 DEF RecoverRefused, driver, startup, flags
<1>7. CASE RetryTimer
  <2>1. due' \in BOOLEAN /\ UNCHANGED <<driver, startup, flags, pc, started, raced>>
    BY <1>7 DEF RetryTimer
  <2> QED
    BY <2>1 DEF driver, startup, flags
<1> QED
  BY <1>1, <1>2, <1>3, <1>4, <1>5, <1>6, <1>7 DEF Logger, Recover

\* Every step of the node keeps it.
LEMMA NodeStep == NodeInv /\ [Next]_vars => NodeInv'
<1> SUFFICES ASSUME NodeInv, [Next]_vars PROVE NodeInv'
  OBVIOUS
<1>1. CASE Next
  BY <1>1, StartTaskStep, DriverStep, LoggerStep DEF Next
<1>2. CASE UNCHANGED vars
  BY <1>2 DEF vars, driver, startup, flags, logger, NodeInv, TypeOK, StartInv, BusInv, Enabled
<1> QED
  BY <1>1, <1>2

\* The types of the flags; the node is enabled only with its callbacks registered,
\* whatever call of start_node failed.
THEOREM NodeTyping == Spec => []TypeOK
<1>1. NodeInv => TypeOK
  BY DEF NodeInv
<1> QED
  BY NodeInit, NodeStep, <1>1, PTL DEF Spec

\* However the callbacks fall between the steps of the logger's pass, and whatever
\* the driver refuses, a node off the bus has its recovery wanted, unless the
\* request was cleared just as it was made.
THEOREM RequestKeptAlways == Spec => []RequestKept
<1>1. NodeInv => RequestKept
  BY DEF NodeInv, BusInv, RequestKept
<1> QED
  BY NodeInit, NodeStep, <1>1, PTL DEF Spec

\* can_handler_start returns whether the node is enabled.
THEOREM StartReportedAlways == Spec => StartReported
<1> DEFINE Told == pc = "poll" /\ pc' = "loop" => (started' <=> Enabled)
<1>1. NodeInv /\ [Next]_vars => [Told]_vars
  <2> SUFFICES ASSUME NodeInv, Next, pc = "poll", pc' = "loop" PROVE started' <=> Enabled
    OBVIOUS
  <2>1. ReadResult
    BY DEF Next, StartTask, MakeNode, RegisterCallbacks, EnableNode, Call, StoreResult,
           Announce, GoesOff, ComesBack, Interrupt, MarkOff, Notify, MarkBack, Logger,
           SpawnStart, SeeRequest, ReadLive, ClearRequest, Recover, RecoverAccepted,
           RecoverRefused, WaitToRetry, RetryTimer, logger
  <2> QED
    BY <2>1 DEF ReadResult, NodeInv, TypeOK, StartInv
<1> QED
  BY NodeInit, NodeStep, <1>1, PTL DEF Spec, StartReported

-----------------------------------------------------------------------------
(* VehicleState.                                                           *)

\* The lock is held by who is inside.
LockInv ==
  /\ s_lock = "writer" <=> writer # "idle"
  /\ s_lock = "reader" <=> reader \in {"copy", "second"}

\* Only in the middle of a frame of the current do its two fields differ, and half a
\* copy is taken while no frame is decoded.
CopyInv ==
  /\ writer # "power" => s_state.pack_current_ma = s_state.power_w
  /\ writer = "power" => s_state.pack_current_ma = frame
  /\ reader = "second" => copy.pack_current_ma = s_state.pack_current_ma

VehicleInv == StateTypeOK /\ LockInv /\ CopyInv /\ SnapshotCoherent

\* By the limit, a bus with this stamp was alive when the last refresh asked.
Alive(stamp) == stamp # 0 /\ asked - stamp < Stale

\* While values are shown, the stamp of the state, then of the copy, was alive when the
\* refresh before asked.
WakeInv ==
  /\ asked <= tick /\ s_state.last_frame_us <= tick
  /\ reader \in {"compare", "draw"} /\ last # 0 => last <= s_state.last_frame_us
  /\ reader = "draw" /\ fresh => Alive(last)
  /\ shown = "values" /\ reader \in {"idle", "copy"} => Alive(s_state.last_frame_us)
  /\ shown = "values" /\ reader \in {"second", "ask", "compare"} =>
       Alive(copy.last_frame_us)

\* Each action keeps the types.
LEMMA VehicleTypeStep ==
  ASSUME StateTypeOK, [StateNext]_stateVars
  PROVE  StateTypeOK'
<1> USE StateBounds DEF StateTypeOK, Fields, Zeros
<1>1. CASE DrainOne   BY <1>1 DEF DrainOne, Lock
<1>2. CASE Stamp      BY <1>2 DEF Stamp
<1>3. CASE DecodeCurrent  BY <1>3 DEF DecodeCurrent
<1>4. CASE DecodePower    BY <1>4 DEF DecodePower, Unlocked
<1>5. CASE DecodeOther    BY <1>5 DEF DecodeOther, Unlocked
<1>6. CASE BeginCopy  BY <1>6 DEF BeginCopy
<1>7. CASE CopyFirst  BY <1>7 DEF CopyFirst
<1>8. CASE CopySecond BY <1>8 DEF CopySecond
<1>9. CASE ReadStamp  BY <1>9 DEF ReadStamp
<1>10. CASE Compare   BY <1>10 DEF Compare, FreshAt
<1>11. CASE Draw
  <2>1. shown' = "values" \/ shown' = "--"
    BY <1>11 DEF Draw
  <2>4. last' \in 0..MaxTime /\ reader' = "idle"
    BY <1>11 DEF Draw
  <2>5. fresh' \in BOOLEAN
    <3>1. fresh' = FALSE  BY <1>11, Zenon DEF Draw
    <3> QED BY <3>1
  <2>2. copy' \in Fields
    BY <1>11 DEF Draw
  <2>3. UNCHANGED <<s_lock, s_state, writer, frame, asked, tick>>
    BY <1>11 DEF Draw
  <2> QED BY <2>1, <2>2, <2>3, <2>4, <2>5
<1>12. CASE Tick      BY <1>12 DEF Tick
<1>13. CASE UNCHANGED stateVars  BY <1>13 DEF stateVars
<1> QED BY <1>1, <1>2, <1>3, <1>4, <1>5, <1>6, <1>7, <1>8, <1>9, <1>10, <1>11, <1>12, <1>13
        DEF StateNext, Decode, Refresh

\* Each action keeps the copy coherent.
LEMMA CopyStep ==
  ASSUME VehicleInv, [StateNext]_stateVars
  PROVE  LockInv' /\ CopyInv' /\ SnapshotCoherent'
<1> USE DEF VehicleInv, StateTypeOK, Fields, LockInv, CopyInv, SnapshotCoherent
<1>1. CASE DrainOne   BY <1>1 DEF DrainOne, Lock
<1>2. CASE Stamp      BY <1>2 DEF Stamp
<1>3. CASE DecodeCurrent  BY <1>3 DEF DecodeCurrent
<1>4. CASE DecodePower
  <2>1. s_lock = "writer" /\ s_lock' = "none" /\ writer' = "idle" /\ reader' = reader
        /\ copy' = copy
    BY <1>4 DEF DecodePower, Unlocked
  <2>2. s_state'.power_w = frame
    BY <1>4 DEF DecodePower
  <2> QED BY <1>4, <2>1, <2>2 DEF DecodePower
<1>5. CASE DecodeOther    BY <1>5 DEF DecodeOther, Unlocked
<1>6. CASE BeginCopy  BY <1>6 DEF BeginCopy
<1>7. CASE CopyFirst  BY <1>7 DEF CopyFirst
<1>8. CASE CopySecond
  <2>1. s_lock = "reader" /\ writer = "idle" /\ s_lock' = "none" /\ writer' = writer
        /\ reader = "second" /\ reader' = "ask"
    BY <1>8 DEF CopySecond
  <2>2. s_state' = s_state /\ copy'.power_w = s_state.power_w
        /\ copy'.pack_current_ma = copy.pack_current_ma
    BY <1>8 DEF CopySecond
  <2> QED BY <2>1, <2>2
<1>9. CASE ReadStamp  BY <1>9 DEF ReadStamp
<1>10. CASE Compare   BY <1>10 DEF Compare
<1>11. CASE Draw      BY <1>11 DEF Draw
<1>12. CASE Tick      BY <1>12 DEF Tick
<1>13. CASE UNCHANGED stateVars  BY <1>13 DEF stateVars
<1> QED BY <1>1, <1>2, <1>3, <1>4, <1>5, <1>6, <1>7, <1>8, <1>9, <1>10, <1>11, <1>12, <1>13
        DEF StateNext, Decode, Refresh

\* Each action keeps the stamps in order.
LEMMA WakeStep ==
  ASSUME StateTypeOK, StateTypeOK', WakeInv, [StateNext]_stateVars
  PROVE  WakeInv'
<1> USE StateBounds DEF StateTypeOK, Fields, WakeInv, Alive
<1>1. CASE DrainOne   BY <1>1 DEF DrainOne, Lock
<1>2. CASE Stamp      BY <1>2 DEF Stamp
<1>3. CASE DecodeCurrent  BY <1>3 DEF DecodeCurrent
<1>4. CASE DecodePower    BY <1>4 DEF DecodePower, Unlocked
<1>5. CASE DecodeOther    BY <1>5 DEF DecodeOther, Unlocked
<1>6. CASE BeginCopy  BY <1>6 DEF BeginCopy
<1>7. CASE CopyFirst  BY <1>7 DEF CopyFirst
<1>8. CASE CopySecond BY <1>8 DEF CopySecond
<1>9. CASE ReadStamp  BY <1>9 DEF ReadStamp
<1>10. CASE Compare
  <2>1. fresh' => last # 0 /\ tick - last < Stale
    BY <1>10, Zenon DEF Compare, FreshAt
  <2>2. asked' = tick /\ reader' = "draw" /\ reader = "compare"
        /\ UNCHANGED <<s_state, copy, last, shown, tick>>
    BY <1>10 DEF Compare
  <2> QED BY <2>1, <2>2
<1>11. CASE Draw
  <2>1. shown' = "values" => fresh
    BY <1>11 DEF Draw
  <2>2. shown' = "values" => Alive(s_state.last_frame_us)'
    BY <1>11, <2>1 DEF Draw
  <2> QED BY <1>11, <2>2 DEF Draw
<1>12. CASE Tick      BY <1>12 DEF Tick
<1>13. CASE UNCHANGED stateVars  BY <1>13 DEF stateVars
<1> QED BY <1>1, <1>2, <1>3, <1>4, <1>5, <1>6, <1>7, <1>8, <1>9, <1>10, <1>11, <1>12, <1>13
        DEF StateNext, Decode, Refresh

\* The types, the lock and the copy, always.
LEMMA VehicleInvariance == StateSpec => []VehicleInv
<1>1. StateInit => VehicleInv
  <2> SUFFICES ASSUME StateInit PROVE VehicleInv
    OBVIOUS
  <2>1. Zeros \in Fields
    BY StateBounds DEF Zeros, Fields
  <2>2. StateTypeOK
    <3>1. fresh \in BOOLEAN
      <4>1. fresh = FALSE  BY Zenon DEF StateInit
      <4> QED BY <4>1
    <3> QED BY <2>1, <3>1, StateBounds DEF StateInit, StateTypeOK
  <2>3. LockInv /\ CopyInv /\ SnapshotCoherent
    BY DEF StateInit, Zeros, LockInv, CopyInv, SnapshotCoherent
  <2> QED BY <2>2, <2>3 DEF VehicleInv
<1>2. VehicleInv /\ [StateNext]_stateVars => VehicleInv'
  BY VehicleTypeStep, CopyStep DEF VehicleInv
<1> QED BY <1>1, <1>2, PTL DEF StateSpec

\* The state of the writer and of the dash keeps its type, for every number of frames
\* (vehicle_state.c, refresh_cb).
THEOREM VehicleTyping == StateSpec => []StateTypeOK
<1>1. VehicleInv => StateTypeOK  BY DEF VehicleInv
<1> QED BY VehicleInvariance, <1>1, PTL

\* What the dash draws belongs together (vehicle_state_snapshot against the decoding in
\* the logger task).
THEOREM SnapshotCoherentAlways == StateSpec => []SnapshotCoherent
<1>1. VehicleInv => SnapshotCoherent  BY DEF VehicleInv
<1> QED BY VehicleInvariance, <1>1, PTL

\* A refresh that draws values after one that did draws values of a bus that was alive
\* when that one asked (refresh_cb, vehicle_state_is_fresh).
THEOREM OldValuesOnlyOnWakingAlways == StateSpec => OldValuesOnlyOnWaking
<1> DEFINE Waking == reader = "compare" /\ fresh' /\ shown = "values" =>
                       copy.last_frame_us # 0 /\ asked - copy.last_frame_us < Stale
<1>1. StateInit => WakeInv
  BY StateBounds DEF StateInit, WakeInv, Alive, Zeros
<1>2. VehicleInv /\ VehicleInv' /\ WakeInv /\ [StateNext]_stateVars => WakeInv'
  BY WakeStep DEF VehicleInv
<1>3. WakeInv => [Waking]_stateVars
  BY DEF WakeInv, Alive
<1> HIDE DEF Waking
<1>4. StateSpec => [][Waking]_stateVars
  BY <1>1, <1>2, <1>3, VehicleInvariance, PTL DEF StateSpec
<1> QED BY <1>4 DEF Waking, OldValuesOnlyOnWaking

-----------------------------------------------------------------------------
(* SdHostShim.                                                             *)

\* The controller is there from the first success of the wrapper on, the power channel
\* is taken exactly when sd_store holds it, and no attempt gets as far as the slot
\* without either; what an attempt failed for is not yet known while it is under way.
ShimInv ==
  /\ controller = IF s_initialised THEN "up" ELSE "none"
  /\ slots # {} => s_initialised
  /\ ldo <=> s_pwr
  /\ store = "power" => ~ s_pwr
  /\ store \in {"slot", "probe"} => s_initialised
  /\ store \notin {"idle", "unwind"} => reason = "none"
  /\ reason = "power" => store = "idle" /\ ~ ldo
  /\ reason = "host" => ~ s_initialised

\* The parts of ShimTypeOK.
Handles == s_initialised \in BOOLEAN /\ ldo \in BOOLEAN /\ s_pwr \in BOOLEAN /\ s_card \in BOOLEAN
Places ==
  /\ controller \in {"none", "up", "deleted"} /\ slots \subseteq {0, 1}
  /\ store \in {"constructor", "idle", "power", "host", "slot", "probe", "unwind"}
  /\ mounts \in 0..MaxMounts /\ reason \in {"none", "power", "host", "card"}

\* Together they are it.
LEMMA ShimDivided == ShimTypeOK <=> Handles /\ Places
BY DEF ShimTypeOK, Handles, Places

\* Each action of the constructor and of the logger keeps it.
LEMMA ShimStep ==
  ASSUME Handles, Places, ShimInv, [ShimNext]_shimVars
  PROVE  Handles' /\ Places' /\ ShimInv'
<1>1. CASE BringUpC6
  <2>1. CASE HostInit(TRUE) /\ slots' \in {slots, slots \cup {1}}
    <3>1. s_initialised' = TRUE /\ controller' = "up"
      BY <2>1 DEF HostInit, RealInit, Handles, ShimInv
    <3>2. store' = "idle" /\ UNCHANGED <<ldo, s_pwr, s_card, mounts, reason>>
      BY <1>1 DEF BringUpC6, card
    <3>3. Handles'
      BY <3>1, <3>2 DEF Handles
    <3>4. Places'
      BY <2>1, <3>1, <3>2 DEF Places
    <3>5. ShimInv'
      BY <1>1, <3>1, <3>2 DEF ShimInv, BringUpC6
    <3> QED
      BY <3>3, <3>4, <3>5
  <2>2. CASE HostInit(FALSE) /\ UNCHANGED slots
    BY <1>1, <2>2 DEF BringUpC6, HostInit, RealInit, card, Handles, Places, ShimInv
  <2> QED
    BY <1>1, <2>1, <2>2 DEF BringUpC6
<1>2. CASE Mount
  BY <1>2, ShimBound DEF Mount, Handles, Places, ShimInv
<1>3. CASE AcquirePower
  <2>1. CASE ~ldo /\ store' = "host" /\ ldo' = TRUE /\ s_pwr' = TRUE /\ UNCHANGED reason
    <3>1. UNCHANGED <<controller, slots, s_initialised, s_card, mounts>> /\ store = "power"
      BY <1>3 DEF AcquirePower
    <3>2. Handles'
      BY <2>1, <3>1 DEF Handles
    <3>3. Places'
      BY <2>1, <3>1 DEF Places
    <3>4. ShimInv'
      BY <2>1, <3>1 DEF ShimInv
    <3> QED
      BY <3>2, <3>3, <3>4
  <2>2. CASE store' = "idle" /\ reason' = "power" /\ UNCHANGED <<ldo, s_pwr>>
    BY <1>3, <2>2 DEF AcquirePower, Handles, Places, ShimInv
  <2> QED
    BY <1>3, <2>1, <2>2 DEF AcquirePower
<1>4. CASE MountHost
  <2>1. CASE HostInit(TRUE) /\ store' = "slot" /\ UNCHANGED reason
    <3>1. s_initialised' = TRUE /\ controller' = "up"
      BY <2>1 DEF HostInit, RealInit, Handles, ShimInv
    <3>2. store = "host" /\ UNCHANGED <<slots, ldo, s_pwr, s_card, mounts>>
      BY <1>4 DEF MountHost
    <3>3. Handles'
      BY <3>1, <3>2 DEF Handles
    <3>4. Places'
      BY <2>1, <3>1, <3>2 DEF Places
    <3>5. ShimInv'
      BY <2>1, <3>1, <3>2 DEF ShimInv
    <3> QED
      BY <3>3, <3>4, <3>5
  <2>2. CASE HostInit(FALSE) /\ store' = "unwind" /\ reason' = "host"
    BY <1>4, <2>2 DEF MountHost, HostInit, RealInit, Handles, Places, ShimInv
  <2> QED
    BY <1>4, <2>1, <2>2 DEF MountHost
<1>5. CASE MountSlot
  BY <1>5 DEF MountSlot, Handles, Places, ShimInv
<1>6. CASE Probe
  <2>1. CASE store' = "idle" /\ s_card' = TRUE /\ UNCHANGED reason
    <3>1. store = "probe" /\ UNCHANGED <<controller, slots, s_initialised, ldo, s_pwr, mounts>>
      BY <1>6 DEF Probe
    <3>2. Handles'
      BY <2>1, <3>1 DEF Handles
    <3> QED
      BY <2>1, <3>1, <3>2 DEF Places, ShimInv
  <2>2. CASE store' = "unwind" /\ reason' = "card" /\ UNCHANGED s_card
    BY <1>6, <2>2 DEF Probe, Handles, Places, ShimInv
  <2> QED
    BY <1>6, <2>1, <2>2 DEF Probe
<1>7. CASE Unwind
  BY <1>7 DEF Unwind, DeinitSlot, Handles, Places, ShimInv
<1>8. CASE Unmount
  <2>1. store = "idle" /\ s_card' = FALSE
        /\ UNCHANGED <<controller, slots, s_initialised, store, ldo, s_pwr, mounts, reason>>
    BY <1>8 DEF Unmount, DeinitSlot
  <2>2. Handles'
    BY <2>1 DEF Handles
  <2> QED
    BY <2>1, <2>2 DEF Places, ShimInv
<1>9. CASE UNCHANGED shimVars
  BY <1>9 DEF shimVars, Handles, Places, ShimInv
<1> QED
  BY <1>1, <1>2, <1>3, <1>4, <1>5, <1>6, <1>7, <1>8, <1>9 DEF ShimNext

\* It holds of every behaviour.
LEMMA ShimInvariance == ShimSpec => [](Handles /\ Places /\ ShimInv)
<1>1. ASSUME ShimInit PROVE Handles /\ Places /\ ShimInv
  <2>1. Handles
    BY <1>1 DEF ShimInit, Handles
  <2>2. Places
    BY <1>1, ShimBound DEF ShimInit, Places
  <2>3. ShimInv
    <3>1. ~ s_initialised /\ ~ ldo /\ ~ s_pwr /\ store = "constructor" /\ reason = "none"
          /\ controller = "none" /\ slots = {}
      BY <1>1 DEF ShimInit
    <3>2. ldo <=> s_pwr
      BY <3>1
    <3> QED
      BY <3>1, <3>2 DEF ShimInv
  <2> QED
    BY <2>1, <2>2, <2>3
<1> QED
  BY <1>1, ShimStep, PTL DEF ShimSpec

\* The types of the controller, the slots, the handles and the logger's place.
THEOREM ShimTyping == ShimSpec => []ShimTypeOK
BY ShimInvariance, ShimDivided, PTL

\* However often the card is mounted, fails or is remounted, the controller under the C6
\* stays up, and no attempt fails for what an earlier one has taken.
THEOREM C6KeepsControllerAlways == ShimSpec => []C6KeepsController
<1>1. ShimInv => C6KeepsController
  BY DEF ShimInv, C6KeepsController
<1> QED
  BY <1>1, ShimInvariance, PTL

-----------------------------------------------------------------------------
(* TripFigures.                                                            *)

Histories == [used : Int, ran : Nat, began : Nat, dated : BOOLEAN, misled : BOOLEAN,
              cuts : Nat, mounting : Nat, slack : Nat, trips : Nat, times : Nat,
              powercuts : Nat, lapses : Nat]
Clocks == {Unset, Right} \cup WrongClocks

\* The types, in parts, and what relates the program's own variables: NVS has the record
\* of the trip that is running, and a trip is saved in the pass in which a save is due.
Passes == power \in {"off", "mounting", "loop"} /\ pass \in {"sleep", "markers", "snapshot"}
Counters == /\ up \in Nat /\ shunt \in Int /\ isa_ah \in Int
            /\ s_trip_start_ah \in Int /\ s_trip_start_tick \in Nat
            /\ quiet \in 0..StaleAfter /\ last_trip \in 0..SaveInterval
            /\ now \in Nat /\ now <= MaxSeconds
ClocksRead == clock \in Clocks /\ rtc \in Clocks
Flags == /\ s_trip_active \in BOOLEAN /\ s_trip_baseline_ok \in BOOLEAN
         /\ s_trip_fresh_snaps \in 0..2 /\ (~s_trip_baseline_ok => s_trip_fresh_snaps < 2)
Records == s_trip_carry \in Record /\ nvs_trip \in Record \cup {NoTrip}
Where == /\ power = "off" => ~s_trip_active
         /\ power # "off" => (s_trip_active <=> nvs_trip # NoTrip)
         /\ power # "loop" => ~s_trip_baseline_ok /\ last_trip = 0
         /\ s_trip_active /\ pass # "markers" => last_trip < SaveInterval

\* The record in NVS is behind by what was run since the last save, beyond what cuts
\* and mounting explain; the figures in RAM are not behind it.
Lost == truth.cuts * SaveInterval + truth.mounting
Running ==
  nvs_trip # NoTrip =>
    /\ truth.ran <= now /\ nvs_trip.run_s <= truth.ran
    /\ truth.ran - nvs_trip.run_s <= Lost + last_trip
    /\ s_trip_active => /\ s_trip_start_tick <= up
                        /\ RunTotal <= truth.ran /\ truth.ran - RunTotal <= Lost

\* The charge counter runs both ways, so that the figures may be off in both: without a
\* baseline the saved figure is the one in RAM; with one, the figure in RAM is off by
\* no more than the slack, and would not be after the next frame of the shunt.
Within(d, limit) == -limit <= d /\ d <= limit
Missed == truth.used - s_trip_carry.ah_as - (shunt - s_trip_start_ah)
Charge ==
  nvs_trip # NoTrip =>
    /\ Within(truth.used - nvs_trip.ah_as, truth.slack + last_trip)
    /\ s_trip_active /\ ~s_trip_baseline_ok =>
         /\ nvs_trip.ah_as = s_trip_carry.ah_as
         /\ Within(truth.used - nvs_trip.ah_as, truth.slack)
    /\ s_trip_active /\ s_trip_baseline_ok =>
         Within(Missed, truth.slack) /\ Within(Missed + (shunt - isa_ah), truth.slack)

TripParts == Passes /\ Counters /\ ClocksRead /\ Flags /\ Records /\ truth \in Histories
FiguresInv == TripParts /\ Where /\ Running /\ Charge

(* Records and clocks. *)

\* A stored trip is never taken for none.
LEMMA NoTripApart == \A r \in Record : r # NoTrip /\ r.run_s \in Nat /\ r.ah_as \in Int
BY DEF Record, NoTrip

\* A trip that was not resumed carries nothing.
LEMMA NoCarryType == NoCarry \in Record /\ NoCarry.run_s = 0 /\ NoCarry.ah_as = 0
BY DEF NoCarry, Record

\* A clock that is set is ahead of the seconds of the model.
LEMMA TimeType ==
  ASSUME clock \in Clocks, Valid, now \in Nat
  PROVE  Time \in Nat /\ Time >= now
<1> USE TripData, TripBounds DEF Valid, Time
<1>1. CASE clock = Right
  BY <1>1 DEF Right
<1>2. CASE clock \in {<<e>> : e \in Fast}
  <2>1. PICK e \in Fast : clock = <<e>>  BY <1>2
  <2>2. clock[1] = e /\ e \in Nat  BY <2>1
  <2> QED BY <2>2
<1>3. CASE clock \in {<<-e>> : e \in Slow}
  <2>1. PICK e \in Slow : clock = <<-e>>  BY <1>3
  <2>2. clock[1] = -e /\ e \in Nat /\ e + MaxSeconds < Dawn /\ MaxSeconds \in Nat  BY <2>1
  <2> QED BY <2>2
<1> QED BY <1>1, <1>2, <1>3 DEF Clocks, WrongClocks

\* A second of the trip, and a lapse.
LEMMA PassedFields ==
  ASSUME truth \in Histories, NEW n \in -1..1
  PROVE  /\ Passed(n) \in Histories
         /\ Passed(n).used = truth.used + n /\ Passed(n).ran = truth.ran + 1
         /\ Passed(n).slack = truth.slack + (IF s_trip_baseline_ok THEN 0 ELSE 1)
         /\ Passed(n).cuts = truth.cuts /\ Passed(n).mounting = truth.mounting
<1>1. truth.used + n \in Int /\ truth.ran + 1 \in Nat /\ truth.slack + 0 \in Nat
      /\ truth.slack + 1 \in Nat
  BY DEF Histories
<1>2. CASE s_trip_baseline_ok
  <2>1. Passed(n) = [truth EXCEPT !.used = @ + n, !.ran = @ + 1, !.slack = @ + 0]
    BY <1>2 DEF Passed
  <2> QED BY <1>1, <1>2, <2>1 DEF Histories
<1>3. CASE ~s_trip_baseline_ok
  <2>1. Passed(n) = [truth EXCEPT !.used = @ + n, !.ran = @ + 1, !.slack = @ + 1]
    BY <1>3 DEF Passed
  <2> QED BY <1>1, <1>3, <2>1 DEF Histories
<1> QED BY <1>2, <1>3

\* What the observer knows after a lapse of the counter.
LEMMA LapseFields ==
  ASSUME NEW h \in Histories
  PROVE  LET l == [h EXCEPT !.lapses = @ + 1, !.slack = @ + 1]
         IN /\ l \in Histories /\ l.slack = h.slack + 1 /\ l.used = h.used /\ l.ran = h.ran
            /\ l.cuts = h.cuts /\ l.mounting = h.mounting
<1>1. h.lapses + 1 \in Nat /\ h.slack + 1 \in Nat  BY DEF Histories
<1> QED BY <1>1 DEF Histories

\* The figures are numbers, and the saved record is one.
LEMMA TotalsType ==
  ASSUME TripParts, Where, Running, s_trip_active
  PROVE  /\ RunTotal \in Nat /\ RunTotal <= now /\ AhTotal \in Int
         /\ StartKnown \in Nat
         /\ TripRecord \in Record /\ TripRecord.run_s = RunTotal
         /\ TripRecord.ah_as = AhTotal
<1>1. /\ s_trip_carry \in Record /\ s_trip_carry.run_s \in Nat /\ s_trip_carry.ah_as \in Int
      /\ s_trip_carry.start_unix \in Nat
  BY DEF TripParts, Records, Record
<1>2. nvs_trip # NoTrip  BY DEF Where
<1>3. RunTotal \in Nat /\ RunTotal <= now
  BY <1>1, <1>2 DEF RunTotal, Running, TripParts, Counters, Histories
<1>4. AhTotal \in Int  BY <1>1 DEF AhTotal, TripParts, Counters
<1>5. StartKnown \in Nat
  <2>1. CASE s_trip_carry.start_unix = 0 /\ Valid
    <3>1. Time \in Nat /\ Time >= now  BY <2>1, TimeType DEF TripParts, Counters, ClocksRead
    <3> QED BY <1>3, <2>1, <3>1 DEF StartKnown, TripParts, Counters
  <2>2. CASE ~(s_trip_carry.start_unix = 0 /\ Valid)
    BY <1>1, <2>2 DEF StartKnown
  <2> QED BY <2>1, <2>2
<1> QED BY <1>1, <1>3, <1>4, <1>5 DEF TripRecord, Record

\* How far the copy of the counter is off is the distance of the two counts.
LEMMA BehindType ==
  ASSUME shunt \in Int, isa_ah \in Int
  PROVE  Behind \in Nat /\ Within(shunt - isa_ah, Behind) /\ Within(-(shunt - isa_ah), Behind)
BY DEF Behind, Within

(* Power, time and the phone. *)

\* The records and figures of a trip, at what they are used for.
LEMMA NumbersAre ==
  ASSUME FiguresInv
  PROVE  /\ truth.used \in Int
         /\ {truth.ran, truth.cuts, truth.mounting, truth.slack} \subseteq Nat
         /\ s_trip_carry.run_s \in Nat /\ s_trip_carry.ah_as \in Int
         /\ nvs_trip # NoTrip =>
              nvs_trip \in Record /\ nvs_trip.run_s \in Nat /\ nvs_trip.ah_as \in Int
         /\ Lost \in Nat
<1>1. truth.used \in Int /\ {truth.ran, truth.cuts, truth.mounting, truth.slack} \subseteq Nat
  BY DEF FiguresInv, TripParts, Histories
<1>2. truth.cuts * SaveInterval \in Nat  BY <1>1, TripTimes
<1> QED BY <1>1, <1>2, NoTripApart DEF FiguresInv, TripParts, Records, Lost

\* Power comes.
LEMMA PowerUpStep ==
  ASSUME FiguresInv, PowerUp
  PROVE  FiguresInv'
<1> USE DEF FiguresInv, PowerUp, RamCleared
<1>1. Passes' /\ Counters'
  BY TripTimes, TripData DEF TripParts, Passes, Counters
<1>2. ClocksRead'  BY DEF TripParts, ClocksRead, Clocks
<1>3. s_trip_active' \in BOOLEAN /\ s_trip_baseline_ok' \in BOOLEAN /\ ~s_trip_baseline_ok'
      /\ (s_trip_active' <=> nvs_trip # NoTrip)
  BY Zenon
<1>4. Flags'  BY <1>3 DEF Flags
<1>5. s_trip_carry' = (IF nvs_trip # NoTrip THEN nvs_trip ELSE NoCarry) /\ nvs_trip' = nvs_trip
  OBVIOUS
<1>6. Records'  BY <1>5, NoCarryType, NumbersAre DEF TripParts, Records
<1>7. /\ truth' \in Histories
      /\ UNCHANGED <<truth.used, truth.ran, truth.cuts, truth.mounting, truth.slack>>
  <2>1. (truth.misled \/ (nvs_trip # NoTrip /\ Wrong(clock'))) \in BOOLEAN
    BY Zenon
  <2> QED BY <2>1 DEF TripParts, Histories
<1>8. Where'  BY <1>3, <1>5, TripTimes DEF Where
<1>9. Running'
  <2> SUFFICES ASSUME nvs_trip # NoTrip PROVE Running'
    BY <1>5 DEF Running
  <2>1. up' = 0 /\ s_trip_start_tick' = 0 /\ s_trip_carry' = nvs_trip /\ now' = now
        /\ last_trip' = 0 /\ last_trip = 0
    BY <1>5 DEF Where
  <2>2. RunTotal' = nvs_trip.run_s  BY <2>1, NumbersAre DEF RunTotal
  <2> QED BY <1>5, <1>7, <2>1, <2>2, NumbersAre DEF Running, Lost
<1>10. Charge'
  <2> SUFFICES ASSUME nvs_trip # NoTrip PROVE Charge'
    BY <1>5 DEF Charge, Within
  <2>1. s_trip_carry' = nvs_trip /\ last_trip' = 0 /\ last_trip = 0  BY <1>5 DEF Where
  <2> QED BY <1>3, <1>5, <1>7, <2>1, NumbersAre DEF Charge, Within
<1> QED BY <1>1, <1>2, <1>4, <1>6, <1>7, <1>8, <1>9, <1>10 DEF TripParts

\* Power goes.
LEMMA PowerCutStep ==
  ASSUME FiguresInv, PowerCut
  PROVE  FiguresInv'
<1> USE DEF FiguresInv, PowerCut, RamCleared
<1>1. Passes' /\ Counters'
  BY TripTimes DEF TripParts, Passes, Counters
<1>2. ClocksRead'  BY DEF TripParts, ClocksRead, Clocks
<1>3. /\ s_trip_active' \in BOOLEAN /\ s_trip_baseline_ok' \in BOOLEAN
      /\ ~s_trip_active' /\ ~s_trip_baseline_ok'
  BY Zenon
<1>4. Flags'  BY <1>3 DEF Flags
<1>5. s_trip_carry' = NoCarry /\ nvs_trip' = nvs_trip /\ now' = now /\ last_trip' = 0
      /\ power' = "off"
  OBVIOUS
<1>6. Records'  BY <1>5, NoCarryType DEF TripParts, Records
<1>7. CASE s_trip_active
  <2>1. truth' = [truth EXCEPT !.powercuts = @ + 1, !.cuts = @ + 1,
                               !.slack = @ + SaveInterval]
    BY <1>7
  <2>2. /\ truth' \in Histories
        /\ truth'.used = truth.used /\ truth'.ran = truth.ran
        /\ truth'.cuts = truth.cuts + 1 /\ truth'.mounting = truth.mounting
        /\ truth'.slack = truth.slack + SaveInterval
    <3>1. truth.powercuts + 1 \in Nat /\ truth.cuts + 1 \in Nat
          /\ truth.slack + SaveInterval \in Nat
      BY TripTimes DEF TripParts, Histories
    <3> QED BY <2>1, <3>1 DEF TripParts, Histories
  <2>3. Lost' = Lost + SaveInterval
    <3>1. (truth.cuts + 1) * SaveInterval = truth.cuts * SaveInterval + SaveInterval
      BY NumbersAre, TripTimes
    <3>2. truth.cuts * SaveInterval \in Nat  BY NumbersAre, TripTimes
    <3> QED BY <2>2, <3>1, <3>2, NumbersAre, TripTimes DEF Lost
  <2>4. last_trip <= SaveInterval /\ last_trip \in Nat /\ now \in Nat
    BY DEF TripParts, Counters
  <2>5. Running'
    BY <1>3, <1>5, <2>2, <2>3, <2>4, NumbersAre, TripTimes DEF Running
  <2>6. Charge'
    BY <1>3, <1>5, <2>2, <2>4, NumbersAre, TripTimes DEF Charge, Within
  <2> QED BY <1>1, <1>2, <1>3, <1>4, <1>5, <1>6, <2>2, <2>5, <2>6 DEF TripParts, Where
<1>8. CASE ~s_trip_active
  <2>1. nvs_trip = NoTrip  BY <1>8 DEF Where
  <2>2. truth' = [truth EXCEPT !.powercuts = @ + 1, !.cuts = @ + 0, !.slack = @ + 0]
    BY <1>8
  <2>3. truth' \in Histories
    <3>1. truth.powercuts + 1 \in Nat /\ truth.cuts + 0 \in Nat /\ truth.slack + 0 \in Nat
      BY DEF TripParts, Histories
    <3> QED BY <2>2, <3>1 DEF TripParts, Histories
  <2> QED BY <1>1, <1>2, <1>3, <1>4, <1>5, <1>6, <2>1, <2>3
          DEF TripParts, Where, Running, Charge, Within
<1> QED BY <1>7, <1>8 DEF TripParts, Flags

\* The second of the mount loop is in the figures of RAM, and not in those of NVS.
LEMMA MountSecondStep ==
  ASSUME FiguresInv, MountSecond
  PROVE  FiguresInv'
<1> USE DEF FiguresInv, MountSecond, TimePasses
<1>1. PICK n \in Uses :
        /\ shunt' = shunt + n
        /\ truth' = IF s_trip_active THEN [Passed(n) EXCEPT !.mounting = @ + 1] ELSE truth
  OBVIOUS
<1>2. n \in -1..1  BY TripData
<1>3. UNCHANGED <<power, pass, isa_ah, quiet, last_trip, clock, rtc, s_trip_active,
                  s_trip_start_ah, s_trip_start_tick, s_trip_baseline_ok,
                  s_trip_fresh_snaps, s_trip_carry, nvs_trip>>
      /\ now' = now + 1 /\ up' = up + 1
  BY DEF clocks, trip
<1>4. Counters'  BY <1>1, <1>2, <1>3, TripBounds DEF TripParts, Counters
<1>5. Passes' /\ ClocksRead' /\ Flags' /\ Records' /\ Where'
  BY <1>3 DEF TripParts, Passes, ClocksRead, Flags, Records, Where
<1>6. ~s_trip_baseline_ok  BY DEF Where
<1>7. CASE s_trip_active
  <2>1. /\ truth' \in Histories
        /\ truth'.used = truth.used + n /\ truth'.ran = truth.ran + 1
        /\ truth'.slack = truth.slack + 1 /\ truth'.cuts = truth.cuts
        /\ truth'.mounting = truth.mounting + 1
    <3>1. truth' = [Passed(n) EXCEPT !.mounting = @ + 1]  BY <1>1, <1>7
    <3>2. Passed(n) \in Histories /\ Passed(n).mounting + 1 \in Nat
      BY <1>2, PassedFields, NumbersAre DEF TripParts
    <3>3. truth' \in Histories  BY <3>1, <3>2 DEF Histories
    <3>4. /\ truth'.used = Passed(n).used /\ truth'.ran = Passed(n).ran
          /\ truth'.slack = Passed(n).slack /\ truth'.cuts = Passed(n).cuts
          /\ truth'.mounting = Passed(n).mounting + 1
      BY <3>1, <3>2 DEF Histories
    <3> QED BY <1>2, <1>6, <3>3, <3>4, PassedFields, NumbersAre DEF TripParts
  <2>2. Lost' = Lost + 1
    <3>1. truth.cuts * SaveInterval \in Nat  BY NumbersAre, TripTimes
    <3> QED BY <2>1, <3>1, NumbersAre DEF Lost
  <2>3. Running'
    <3>1. RunTotal' = RunTotal + 1  BY <1>3, NumbersAre DEF RunTotal, TripParts, Counters
    <3>2. RunTotal \in Int /\ up \in Nat /\ now \in Nat /\ last_trip \in Nat
          /\ s_trip_start_tick \in Nat
      BY NumbersAre DEF RunTotal, TripParts, Counters
    <3> QED BY <1>3, <2>1, <2>2, <3>1, <3>2, NumbersAre DEF Running
  <2>4. Charge'
    BY <1>2, <1>3, <1>6, <2>1, NumbersAre DEF Charge, Within, TripParts, Counters
  <2> QED BY <1>4, <1>5, <2>1, <2>3, <2>4 DEF TripParts
<1>8. CASE ~s_trip_active
  <2>1. nvs_trip = NoTrip /\ truth' = truth  BY <1>1, <1>8 DEF Where
  <2> QED BY <1>3, <1>4, <1>5, <2>1 DEF TripParts, Running, Charge, Within
<1> QED BY <1>7, <1>8

\* Those that touch neither the figures nor the history.
LEMMA AsideStep ==
  ASSUME FiguresInv, OffSecond \/ SetTime \/ LoopStarts \/ PlainSnapshot
  PROVE  FiguresInv'
<1> USE DEF FiguresInv
<1>1. UNCHANGED <<up, isa_ah, quiet, shunt, s_trip_active, s_trip_start_ah,
                  s_trip_start_tick, s_trip_baseline_ok, s_trip_fresh_snaps, s_trip_carry,
                  nvs_trip>>
  BY DEF OffSecond, SetTime, LoopStarts, PlainSnapshot, ram, trip
<1>2. /\ truth' \in Histories
      /\ UNCHANGED <<truth.used, truth.ran, truth.cuts, truth.mounting, truth.slack>>
  <2>1. truth.times + 1 \in Nat /\ truth.lapses + 1 \in Nat  BY DEF TripParts, Histories
  <2>2. truth' = truth \/ truth' = [truth EXCEPT !.times = @ + 1]
        \/ truth' = [truth EXCEPT !.lapses = @ + 1]
    BY DEF OffSecond, SetTime, LoopStarts, PlainSnapshot
  <2> QED BY <2>1, <2>2 DEF TripParts, Histories
<1>3. /\ now' \in Nat /\ now' >= now /\ now' <= MaxSeconds
      /\ last_trip' \in {last_trip, 0} /\ last_trip \in Nat
  BY TripBounds DEF OffSecond, SetTime, LoopStarts, PlainSnapshot, TripParts, Counters, ram
<1>4. power' # "loop" => last_trip' = last_trip /\ power' = power
  BY DEF OffSecond, SetTime, LoopStarts, PlainSnapshot, ram
<1>5. last_trip' # last_trip => last_trip = 0
  BY DEF OffSecond, SetTime, LoopStarts, PlainSnapshot, ram, Where
<1>6. Passes'
  BY DEF OffSecond, SetTime, LoopStarts, PlainSnapshot, TripParts, Passes
<1>7. ClocksRead'
  BY DEF OffSecond, SetTime, LoopStarts, PlainSnapshot, TripParts, ClocksRead, Clocks, clocks
<1>8. Counters' /\ Flags' /\ Records'
  BY <1>1, <1>3, TripTimes DEF TripParts, Counters, Flags, Records
<1>9. Where'
  <2>1. power' = "off" <=> power = "off"
    BY DEF OffSecond, SetTime, LoopStarts, PlainSnapshot
  <2>2. pass' # "markers" => pass # "markers"
    BY DEF OffSecond, SetTime, LoopStarts, PlainSnapshot
  <2> QED BY <1>1, <1>3, <1>4, <2>1, <2>2, TripTimes DEF Where
<1>10. RunTotal' = RunTotal /\ Lost' = Lost /\ Missed' = Missed
  BY <1>1, <1>2 DEF RunTotal, Lost, Missed
<1>11. Running'
  BY <1>1, <1>2, <1>3, <1>5, <1>10, NumbersAre DEF Running, TripParts, Counters
<1>12. Charge'
  BY <1>1, <1>2, <1>3, <1>5, <1>10, NumbersAre DEF Charge, Within
<1> QED BY <1>2, <1>6, <1>7, <1>8, <1>9, <1>11, <1>12 DEF TripParts

(* The logger task. *)

\* A frame of the shunt is drained.
LEMMA DrainStep ==
  ASSUME FiguresInv, Drain
  PROVE  FiguresInv'
<1> USE DEF FiguresInv, Drain, TimePasses
<1> DEFINE history(n) == IF s_trip_active THEN Passed(n) ELSE truth
           lapse(n) == [history(n) EXCEPT !.lapses = @ + 1, !.slack = @ + 1]
<1>1. PICK n \in Uses :
        /\ shunt' = shunt + n
        /\ \/ isa_ah' = shunt' /\ quiet' = 0 /\ truth' = history(n)
           \/ /\ quiet' \in {0, UpTo(quiet + 1, StaleAfter)}
              /\ truth' = lapse(n) /\ isa_ah' = isa_ah
  OBVIOUS
<1>2. n \in -1..1  BY TripData
<1>3. UNCHANGED <<power, clock, rtc, s_trip_active, s_trip_start_ah, s_trip_start_tick,
                  s_trip_baseline_ok, s_trip_fresh_snaps, s_trip_carry, nvs_trip>>
      /\ now' = now + 1 /\ up' = up + 1 /\ now < MaxSeconds
      /\ power = "loop" /\ pass = "sleep" /\ pass' = "markers"
      /\ last_trip' = UpTo(last_trip + 1, SaveInterval)
  BY DEF clocks, trip
<1>4. /\ up \in Nat /\ shunt \in Int /\ isa_ah \in Int
      /\ s_trip_start_ah \in Int /\ s_trip_start_tick \in Nat
      /\ last_trip \in 0..SaveInterval /\ now \in Nat /\ quiet \in 0..StaleAfter
  BY DEF TripParts, Counters
<1>5. shunt' \in Int /\ isa_ah' \in Int /\ quiet' \in 0..StaleAfter
  BY <1>1, <1>2, <1>4, TripTimes DEF UpTo
<1>6. last_trip' \in 0..SaveInterval
      /\ (s_trip_active => last_trip' = last_trip + 1)
  BY <1>3, <1>4, TripTimes DEF UpTo, Where
<1>7. Counters'  BY <1>3, <1>4, <1>5, <1>6, TripBounds DEF Counters
<1>8. Passes' /\ ClocksRead' /\ Flags' /\ Records' /\ Where'
  BY <1>3 DEF TripParts, Passes, ClocksRead, Flags, Records, Where
<1>9. history(n) \in Histories
  BY <1>2, PassedFields DEF TripParts
<1>10. truth' \in Histories
  <2>1. lapse(n) \in Histories
    <3> DEFINE h == history(n)
    <3>1. h \in Histories  BY <1>9
    <3> HIDE DEF h
    <3>2. [h EXCEPT !.lapses = @ + 1, !.slack = @ + 1] \in Histories  BY <3>1, LapseFields
    <3> QED BY <3>2 DEF h
  <2> QED BY <1>1, <1>9, <2>1
<1>11. CASE s_trip_active
  <2> DEFINE late == IF s_trip_baseline_ok THEN 0 ELSE 1
  <2>0. history(n) = Passed(n)  BY <1>11
  <2>1. /\ truth'.used = truth.used + n /\ truth'.ran = truth.ran + 1
        /\ truth'.cuts = truth.cuts /\ truth'.mounting = truth.mounting
        /\ \/ isa_ah' = shunt' /\ truth'.slack = truth.slack + late
           \/ isa_ah' = isa_ah /\ truth'.slack = truth.slack + late + 1
    <3>1. CASE isa_ah' = shunt' /\ truth' = Passed(n)
      BY <1>2, <3>1, PassedFields DEF TripParts
    <3>2. CASE isa_ah' = isa_ah /\ truth' = lapse(n)
      <4> DEFINE h == Passed(n)
      <4>1. h \in Histories /\ truth' = [h EXCEPT !.lapses = @ + 1, !.slack = @ + 1]
        BY <1>9, <2>0, <3>2
      <4> HIDE DEF h
      <4>2. /\ truth'.slack = h.slack + 1 /\ truth'.used = h.used /\ truth'.ran = h.ran
            /\ truth'.cuts = h.cuts /\ truth'.mounting = h.mounting
        BY <4>1, LapseFields
      <4>3. /\ h.used = truth.used + n /\ h.ran = truth.ran + 1
            /\ h.slack = truth.slack + late
            /\ h.cuts = truth.cuts /\ h.mounting = truth.mounting
        BY <1>2, PassedFields DEF TripParts, h
      <4> QED BY <3>2, <4>2, <4>3
    <3> QED BY <1>1, <2>0, <3>1, <3>2
  <2>2. Lost' = Lost  BY <2>1 DEF Lost
  <2>3. Running'
    <3>1. RunTotal' = RunTotal + 1 /\ RunTotal \in Int
      BY <1>3, <1>4, NumbersAre DEF RunTotal
    <3> QED BY <1>3, <1>4, <1>6, <1>11, <2>1, <2>2, <3>1, NumbersAre DEF Running
  <2>4. Charge'
    <3>1. CASE s_trip_baseline_ok
      <4>1. Missed' = Missed /\ Missed \in Int
        BY <1>1, <1>2, <1>3, <1>4, <2>1, NumbersAre DEF Missed
      <4> QED BY <1>1, <1>2, <1>3, <1>4, <1>6, <1>11, <2>1, <3>1, <4>1, NumbersAre DEF Charge, Within
    <3>2. CASE ~s_trip_baseline_ok
      BY <1>2, <1>3, <1>4, <1>6, <1>11, <2>1, <3>2, NumbersAre DEF Charge, Within
    <3> QED BY <3>1, <3>2 DEF TripParts, Flags
  <2> QED BY <1>7, <1>8, <1>10, <2>3, <2>4 DEF TripParts
<1>12. CASE ~s_trip_active
  <2>1. nvs_trip = NoTrip  BY <1>3, <1>12 DEF Where
  <2> QED BY <1>3, <1>7, <1>8, <1>10, <2>1 DEF TripParts, Running, Charge, Within
<1> QED BY <1>11, <1>12

\* What the observer knows when a trip begins.
Begun(began, dated, misled, slack, trips, times, powercuts, lapses) ==
  [used |-> 0, ran |-> 0, began |-> began, dated |-> dated, misled |-> misled, cuts |-> 0,
   mounting |-> 0, slack |-> slack, trips |-> trips, times |-> times,
   powercuts |-> powercuts, lapses |-> lapses]

\* TRIP_START.
LEMMA TripStartStep ==
  ASSUME FiguresInv, TripStart
  PROVE  FiguresInv'
<1> USE DEF FiguresInv, TripStart
<1>1. UNCHANGED <<power, pass, up, isa_ah, quiet, last_trip, shunt, clock, rtc,
                  s_trip_fresh_snaps, now>>
      /\ power = "loop" /\ pass = "markers" /\ ~s_trip_active
  BY DEF ram, clocks
<1>2. /\ s_trip_active' \in BOOLEAN /\ s_trip_baseline_ok' \in BOOLEAN
      /\ s_trip_active' /\ s_trip_baseline_ok'
      /\ s_trip_start_ah' = isa_ah /\ s_trip_start_tick' = up
  BY Zenon
<1>3. /\ up \in Nat /\ shunt \in Int /\ isa_ah \in Int /\ now \in Nat
      /\ last_trip \in 0..SaveInterval
  BY DEF TripParts, Counters
<1>4. /\ s_trip_carry' \in Record /\ s_trip_carry'.run_s = 0 /\ s_trip_carry'.ah_as = 0
      /\ nvs_trip' = s_trip_carry'
  <2> DEFINE start == IF Valid THEN Time ELSE 0
  <2>1. start \in Nat
    BY TimeType DEF TripParts, Counters, ClocksRead
  <2>2. s_trip_carry' = [NoCarry EXCEPT !.start_unix = start]  OBVIOUS
  <2> HIDE DEF start
  <2> QED BY <2>1, <2>2, NoCarryType DEF NoCarry, Record
<1>5. nvs_trip' # NoTrip  BY <1>4, NoTripApart
<1>6. /\ truth' \in Histories /\ truth'.used = 0 /\ truth'.ran = 0 /\ truth'.cuts = 0
      /\ truth'.mounting = 0 /\ truth'.slack = Behind
  <2>1. (clock = Right) \in BOOLEAN /\ Wrong(clock) \in BOOLEAN  BY Zenon DEF Wrong
  <2>2. Behind \in Nat  BY <1>3, BehindType
  <2>3. truth.trips + 1 \in Nat /\ truth.times \in Nat /\ truth.powercuts \in Nat
        /\ truth.lapses \in Nat
    BY DEF TripParts, Histories
  <2>4. truth' = Begun(now, clock = Right, Wrong(clock), Behind, truth.trips + 1, truth.times,
                       truth.powercuts, truth.lapses)
    BY DEF NoHistory, Begun
  <2>5. PICK dated, misled \in BOOLEAN :
          truth' = Begun(now, dated, misled, Behind, truth.trips + 1, truth.times,
                         truth.powercuts, truth.lapses)
    BY <2>1, <2>4, Zenon
  <2>6. now \in Nat  BY <1>3
  <2> HIDE DEF TripStart, FiguresInv
  <2> DEFINE h == Begun(now, dated, misled, Behind, truth.trips + 1, truth.times,
                        truth.powercuts, truth.lapses)
  <2>7. dated \in BOOLEAN /\ misled \in BOOLEAN
    OBVIOUS
  <2>8. /\ h \in Histories /\ h.used = 0 /\ h.ran = 0 /\ h.cuts = 0 /\ h.mounting = 0
        /\ h.slack = Behind
    BY <2>2, <2>3, <2>6, <2>7 DEF Begun, Histories
  <2>9. truth' = h  BY <2>5
  <2> HIDE DEF h
  <2> QED BY <2>8, <2>9
<1>7. Passes' /\ Counters' /\ ClocksRead' /\ Flags' /\ Records'
  BY <1>1, <1>2, <1>3, <1>4 DEF TripParts, Passes, Counters, ClocksRead, Flags, Records
<1>8. Where'  BY <1>1, <1>2, <1>5 DEF Where
<1>9. Running'
  <2>1. RunTotal' = 0  BY <1>1, <1>2, <1>3, <1>4 DEF RunTotal
  <2>2. Lost' = 0  BY <1>6, TripTimes DEF Lost
  <2> QED BY <1>1, <1>2, <1>3, <1>4, <1>6, <2>1, <2>2 DEF Running
<1>10. Charge'
  <2>1. Missed' = -(shunt - isa_ah) /\ (shunt - isa_ah)' = shunt - isa_ah
    BY <1>1, <1>2, <1>3, <1>4, <1>6 DEF Missed
  <2> QED BY <1>1, <1>2, <1>3, <1>4, <1>6, <2>1, BehindType DEF Charge, Within
<1> QED BY <1>6, <1>7, <1>8, <1>9, <1>10 DEF TripParts

\* TRIP_END.
LEMMA TripEndStep ==
  ASSUME FiguresInv, TripEnd
  PROVE  FiguresInv'
<1> USE DEF FiguresInv, TripEnd
<1>1. UNCHANGED <<power, pass, up, isa_ah, quiet, last_trip, shunt, clock, rtc,
                  s_trip_start_ah, s_trip_start_tick, s_trip_baseline_ok,
                  s_trip_fresh_snaps, s_trip_carry, now, truth>>
      /\ power = "loop" /\ nvs_trip' = NoTrip
  BY DEF ram, clocks
<1>2. s_trip_active' \in BOOLEAN /\ ~s_trip_active'  BY Zenon
<1> QED BY <1>1, <1>2 DEF TripParts, Passes, Counters, ClocksRead, Flags, Records, Where,
                          Running, Charge, Within

\* A save brings NVS up to what RAM has.
LEMMA SavePassStep ==
  ASSUME FiguresInv, SavePass
  PROVE  FiguresInv'
<1> USE DEF FiguresInv, SavePass
<1>1. UNCHANGED <<power, up, isa_ah, quiet, shunt, clock, rtc, s_trip_active,
                  s_trip_start_ah, s_trip_start_tick, s_trip_baseline_ok,
                  s_trip_fresh_snaps, now, truth>>
      /\ power = "loop" /\ pass = "markers" /\ pass' = "snapshot"
  BY DEF clocks
<1>2. CASE s_trip_active /\ last_trip >= SaveInterval
  <2>1. /\ last_trip' = 0 /\ nvs_trip' = TripRecord
        /\ s_trip_carry' = [s_trip_carry EXCEPT !.start_unix = StartKnown]
    BY <1>2
  <2>2. nvs_trip # NoTrip  BY <1>1, <1>2 DEF Where
  <2>3. /\ nvs_trip' \in Record /\ nvs_trip' # NoTrip
        /\ nvs_trip'.run_s = RunTotal /\ nvs_trip'.ah_as = AhTotal
        /\ RunTotal \in Nat /\ AhTotal \in Int
    BY <1>2, <2>1, TotalsType, NoTripApart
  <2>4. /\ s_trip_carry' \in Record /\ s_trip_carry'.run_s = s_trip_carry.run_s
        /\ s_trip_carry'.ah_as = s_trip_carry.ah_as
    <3>1. StartKnown \in Nat /\ s_trip_carry \in Record
      BY <1>2, TotalsType DEF TripParts, Records
    <3> QED BY <2>1, <3>1 DEF Record
  <2>5. Passes' /\ Counters' /\ ClocksRead' /\ Flags' /\ Records'
    BY <1>1, <2>1, <2>3, <2>4, TripTimes
    DEF TripParts, Passes, Counters, ClocksRead, Flags, Records
  <2>6. Where'  BY <1>1, <1>2, <2>1, <2>3, TripTimes DEF Where
  <2>7. RunTotal' = RunTotal /\ Lost' = Lost /\ Missed' = Missed
    BY <1>1, <2>4 DEF RunTotal, Lost, Missed
  <2>8. Running'
    BY <1>1, <1>2, <2>1, <2>2, <2>3, <2>7, NumbersAre DEF Running
  <2>9. Charge'
    <3>1. CASE s_trip_baseline_ok
      <4>1. truth.used - AhTotal = Missed + (shunt - isa_ah) /\ Missed \in Int
            /\ shunt - isa_ah \in Int
        BY <3>1, NumbersAre DEF AhTotal, Missed, TripParts, Counters
      <4> QED BY <1>1, <1>2, <2>1, <2>2, <2>3, <2>4, <2>7, <3>1, <4>1, NumbersAre DEF Charge, Within
    <3>2. CASE ~s_trip_baseline_ok
      <4>1. AhTotal = s_trip_carry.ah_as  BY <3>2, NumbersAre DEF AhTotal
      <4> QED BY <1>1, <1>2, <2>1, <2>2, <2>3, <2>4, <3>2, <4>1, NumbersAre DEF Charge, Within
    <3> QED BY <3>1, <3>2
  <2> QED BY <1>1, <2>5, <2>6, <2>8, <2>9 DEF TripParts
<1>3. CASE ~(s_trip_active /\ last_trip >= SaveInterval)
  <2>1. UNCHANGED <<last_trip, nvs_trip, s_trip_carry>>  BY <1>3
  <2>2. RunTotal' = RunTotal /\ Lost' = Lost /\ Missed' = Missed
    BY <1>1, <2>1 DEF RunTotal, Lost, Missed
  <2>3. Passes' /\ Counters' /\ ClocksRead' /\ Flags' /\ Records'
    BY <1>1, <2>1 DEF TripParts, Passes, Counters, ClocksRead, Flags, Records
  <2>4. Where'  BY <1>1, <1>3, <2>1, TripTimes DEF Where, TripParts, Counters
  <2> QED BY <1>1, <2>1, <2>2, <2>3, <2>4 DEF TripParts, Running, Charge, Within
<1> QED BY <1>2, <1>3

\* The baseline is the counter as it was last seen.
LEMMA SnapshotStep ==
  ASSUME FiguresInv, Snapshot
  PROVE  FiguresInv'
<1> USE DEF FiguresInv, Snapshot
<1>1. UNCHANGED <<power, up, isa_ah, quiet, last_trip, shunt, clock, rtc, s_trip_active,
                  s_trip_start_tick, s_trip_carry, nvs_trip, now>>
      /\ power = "loop" /\ pass = "snapshot" /\ pass' = "sleep"
      /\ s_trip_active /\ ~s_trip_baseline_ok
  BY DEF ram, clocks
<1>2. /\ shunt \in Int /\ isa_ah \in Int
      /\ s_trip_fresh_snaps \in 0..1
  BY <1>1 DEF TripParts, Counters, Flags
<1>3. s_trip_fresh_snaps' \in 0..2  BY <1>2
<1>4. nvs_trip # NoTrip  BY <1>1 DEF Where
<1>5. Passes' /\ ClocksRead' /\ Records'
  BY <1>1 DEF TripParts, Passes, ClocksRead, Records
<1>6. Where'  BY <1>1 DEF Where
<1>7. CASE s_trip_fresh_snaps' >= 2
  <2>1. /\ s_trip_baseline_ok' \in BOOLEAN /\ s_trip_baseline_ok'
        /\ s_trip_start_ah' = isa_ah
        /\ truth' = [truth EXCEPT !.slack = @ + Behind]
    BY <1>7, Zenon
  <2>2. /\ truth' \in Histories /\ truth'.slack = truth.slack + Behind
        /\ UNCHANGED <<truth.used, truth.ran, truth.cuts, truth.mounting>>
    <3>1. truth.slack + Behind \in Nat  BY <1>2, BehindType, NumbersAre
    <3> QED BY <2>1, <3>1 DEF TripParts, Histories
  <2>3. Counters' /\ Flags'  BY <1>1, <1>3, <2>1 DEF TripParts, Counters, Flags
  <2>4. Running'
    <3>1. RunTotal' = RunTotal /\ Lost' = Lost  BY <1>1, <2>2 DEF RunTotal, Lost
    <3> QED BY <1>1, <2>2, <3>1 DEF Running
  <2>5. Charge'
    <3>1. Missed' = truth.used - s_trip_carry.ah_as - (shunt - isa_ah)
      BY <1>1, <2>1, <2>2 DEF Missed
    <3>2. (shunt - isa_ah)' = shunt - isa_ah  BY <1>1
    <3>3. s_trip_baseline_ok' /\ last_trip \in Nat
      BY <2>1 DEF TripParts, Counters
    <3> QED BY <1>1, <1>2, <1>4, <2>2, <3>1, <3>2, <3>3, BehindType, NumbersAre DEF Charge, Within
  <2> QED BY <1>5, <1>6, <2>2, <2>3, <2>4, <2>5 DEF TripParts
<1>8. CASE ~(s_trip_fresh_snaps' >= 2)
  <2>1. UNCHANGED <<s_trip_baseline_ok, s_trip_start_ah, truth>>  BY <1>8
  <2>2. Counters' /\ Flags'  BY <1>1, <1>3, <1>8, <2>1 DEF TripParts, Counters, Flags
  <2>3. RunTotal' = RunTotal /\ Lost' = Lost /\ Missed' = Missed
    BY <1>1, <2>1 DEF RunTotal, Lost, Missed
  <2> QED BY <1>1, <1>5, <1>6, <2>1, <2>2, <2>3 DEF TripParts, Running, Charge, Within
<1> QED BY <1>7, <1>8

(* The theorems. *)

\* The invariant holds of every behaviour.
LEMMA FiguresInductive == TripSpec => []FiguresInv
<1>1. TripInit => FiguresInv
  <2> SUFFICES ASSUME TripInit PROVE FiguresInv
    OBVIOUS
  <2> USE DEF TripInit
  <2>1. Passes /\ Counters  BY TripTimes, TripBounds DEF Passes, Counters
  <2>2. ClocksRead  BY DEF ClocksRead, Clocks
  <2>3. /\ s_trip_active \in BOOLEAN /\ s_trip_baseline_ok \in BOOLEAN
        /\ ~s_trip_active /\ ~s_trip_baseline_ok
    BY Zenon
  <2>4. Flags  BY <2>3 DEF Flags
  <2>5. Records  BY NoCarryType DEF Records
  <2>6. truth \in Histories
    <3>1. FALSE \in BOOLEAN  OBVIOUS
    <3> QED BY <3>1 DEF NoHistory, Histories
  <2> QED BY <2>1, <2>2, <2>3, <2>4, <2>5, <2>6
          DEF FiguresInv, TripParts, Where, Running, Charge, Within
<1>2. FiguresInv /\ [TripNext]_tripVars => FiguresInv'
  <2> SUFFICES ASSUME FiguresInv, [TripNext]_tripVars PROVE FiguresInv'
    OBVIOUS
  <2>1. CASE UNCHANGED tripVars
    BY <2>1 DEF tripVars, ram, clocks, trip, FiguresInv, TripParts, Passes, Counters, ClocksRead,
                Flags, Records, Where, Running, Charge, Within, RunTotal, Lost, Missed
  <2> QED BY <2>1, PowerUpStep, PowerCutStep, MountSecondStep, AsideStep, DrainStep,
             TripStartStep, TripEndStep, SavePassStep, SnapshotStep DEF TripNext
<1> QED BY <1>1, <1>2, PTL DEF TripSpec

\* The figures stay within their types: TripTypeOK, for all constants.
THEOREM TripTyping == TripSpec => []TripTypeOK
<1>1. FiguresInv => TripTypeOK
  BY DEF FiguresInv, TripParts, Passes, Counters, ClocksRead, Clocks, Flags, Records, TripTypeOK
<1> QED BY <1>1, FiguresInductive, PTL

\* A trip counts nothing twice, and misses what power cuts, the mount loop and a
\* missing counter explain: FiguresBounded, for all constants.
THEOREM FiguresBoundedAlways == TripSpec => []FiguresBounded
<1>1. FiguresInv => FiguresBounded
  <2> SUFFICES ASSUME FiguresInv, s_trip_active PROVE FiguresBounded
    BY DEF FiguresBounded
  <2>1. nvs_trip # NoTrip  BY DEF FiguresInv, Where
  <2>2. Running /\ Charge  BY DEF FiguresInv
  <2>3. 0 <= truth.ran - RunTotal
        /\ truth.ran - RunTotal <= truth.cuts * SaveInterval + truth.mounting
    <3>1. RunTotal \in Nat  BY TotalsType DEF FiguresInv
    <3> QED BY <2>1, <2>2, <3>1, NumbersAre DEF Running, Lost
  <2>4. -truth.slack <= truth.used - AhTotal /\ truth.used - AhTotal <= truth.slack
    <3>0. shunt \in Int /\ isa_ah \in Int /\ s_trip_start_ah \in Int
      BY DEF FiguresInv, TripParts, Counters
    <3>1. CASE s_trip_baseline_ok
      <4>1. truth.used - AhTotal = Missed + (shunt - isa_ah) /\ Missed \in Int
        BY <3>0, <3>1, NumbersAre DEF AhTotal, Missed
      <4> QED BY <2>1, <2>2, <3>0, <3>1, <4>1, NumbersAre DEF Charge, Within
    <3>2. CASE ~s_trip_baseline_ok
      <4>1. AhTotal = s_trip_carry.ah_as  BY <3>2, NumbersAre DEF AhTotal
      <4> QED BY <2>1, <2>2, <3>2, <4>1, NumbersAre DEF Charge, Within
    <3> QED BY <3>1, <3>2
  <2> QED BY <2>3, <2>4 DEF FiguresBounded
<1> QED BY <1>1, FiguresInductive, PTL

(* The summary of a trip. *)

\* A start time that no wrong clock went into is not before TRIP_START and leaves
\* room for the running time; with the right clock at TRIP_START it is exact.
Dates(start, run) ==
  \/ start = 0 /\ ~truth.dated
  \/ /\ Dawn + truth.began <= start /\ start + run <= Dawn + now
     /\ truth.dated => start = Dawn + truth.began

DatesInv ==
  nvs_trip # NoTrip =>
    /\ truth.began + truth.ran <= now
    /\ ~truth.misled =>
         /\ Dates(nvs_trip.start_unix, nvs_trip.run_s)
         /\ s_trip_active => /\ clock \in {Unset, Right}
                             /\ Dates(s_trip_carry.start_unix, RunTotal)

\* The numbers in them.
LEMMA DateNumbers ==
  ASSUME FiguresInv
  PROVE  /\ truth.began \in Nat /\ now \in Nat /\ now <= MaxSeconds /\ truth.ran \in Nat
         /\ s_trip_carry.start_unix \in Nat /\ RunTotal \in Int
         /\ nvs_trip # NoTrip => nvs_trip.start_unix \in Nat /\ nvs_trip.run_s \in Nat
BY DEF FiguresInv, TripParts, Counters, Records, Record, Histories, RunTotal

\* What leaves room for the running time still does when both have moved on.
LEMMA Later ==
  ASSUME NEW start \in Nat, NEW run \in Int, NEW dawn \in Nat, NEW d \in Nat,
         NEW m \in Nat, NEW n \in Nat, n >= m + d, start + run <= dawn + m
  PROVE  start + run <= dawn + n /\ start + (run + d) <= dawn + n
OBVIOUS

\* Steps in which no figure of the trip changes but those that time moves.
LEMMA DatesKept ==
  ASSUME FiguresInv, DatesInv, UNCHANGED <<nvs_trip, s_trip_active, s_trip_carry>>,
         NEW d \in {0, 1}, now' >= now + d, now' \in Nat,
         nvs_trip # NoTrip => truth'.ran = truth.ran + d,
         s_trip_active => RunTotal' = RunTotal + d,
         UNCHANGED <<truth.began, truth.dated, truth.misled>>,
         s_trip_active => clock' \in {clock, Right}
  PROVE  DatesInv'
<1>0. Dawn \in Nat /\ now \in Nat /\ truth.began \in Nat /\ d \in Nat
      /\ now' \in Nat /\ now' >= now + d
  BY DateNumbers, TripData
<1>1. ASSUME NEW start \in Nat, NEW run \in Int, Dates(start, run)
      PROVE  \/ start = 0 /\ ~truth'.dated
             \/ /\ Dawn + truth'.began <= start /\ start + run <= Dawn + now'
                /\ truth'.dated => start = Dawn + truth'.began
  <2>1. start + run <= Dawn + now => start + run <= Dawn + now'  BY <1>0, Later
  <2> QED BY <1>1, <2>1 DEF Dates
<1>2. ASSUME NEW start \in Nat, NEW run \in Int, Dates(start, run)
      PROVE  \/ start = 0 /\ ~truth'.dated
             \/ /\ Dawn + truth'.began <= start /\ start + (run + d) <= Dawn + now'
                /\ truth'.dated => start = Dawn + truth'.began
  <2>1. start + run <= Dawn + now => start + (run + d) <= Dawn + now'  BY <1>0, Later
  <2> QED BY <1>2, <2>1 DEF Dates
<1>3. nvs_trip # NoTrip => truth'.began + truth'.ran <= now'
  BY DateNumbers DEF DatesInv
<1>4. nvs_trip # NoTrip /\ ~truth.misled =>
        Dates(nvs_trip.start_unix, nvs_trip.run_s)'
  BY <1>1, DateNumbers DEF DatesInv, Dates
<1>5. nvs_trip # NoTrip /\ ~truth.misled /\ s_trip_active =>
        clock' \in {Unset, Right} /\ Dates(s_trip_carry.start_unix, RunTotal)'
  BY <1>2, DateNumbers DEF DatesInv, Dates
<1> QED BY <1>3, <1>4, <1>5 DEF DatesInv

\* Every step keeps the dates.
LEMMA DatesStep ==
  ASSUME FiguresInv, FiguresInv', DatesInv, TripNext
  PROVE  DatesInv'
<1>0. truth \in Histories /\ up \in Nat /\ s_trip_start_tick \in Nat
      /\ s_trip_carry.run_s \in Nat /\ now \in Nat
  BY NumbersAre DEF FiguresInv, TripParts, Counters
<1>1. CASE PowerUp
  <2> SUFFICES ASSUME nvs_trip # NoTrip PROVE DatesInv'
    BY <1>1 DEF PowerUp, DatesInv
  <2>1. /\ nvs_trip' = nvs_trip /\ s_trip_carry' = nvs_trip /\ now' = now
        /\ up' = 0 /\ s_trip_start_tick' = 0
    BY <1>1 DEF PowerUp, RamCleared
  <2>2. RunTotal' = nvs_trip.run_s  BY <2>1, DateNumbers DEF RunTotal
  <2>3. /\ truth'.began = truth.began /\ truth'.ran = truth.ran
        /\ truth'.dated = truth.dated
        /\ truth'.misled = (truth.misled \/ (nvs_trip # NoTrip /\ Wrong(clock')))
    BY <1>0, <1>1 DEF PowerUp, Histories
  <2>4. ~truth'.misled => ~truth.misled /\ clock' \in {Unset, Right}
    BY <2>3, Zenon DEF Wrong
  <2> QED BY <2>1, <2>2, <2>3, <2>4 DEF DatesInv, Dates
<1>2. CASE PowerCut
  <2>1. ~s_trip_active'  BY <1>2, Zenon DEF PowerCut
  <2>2. nvs_trip' = nvs_trip /\ now' = now  BY <1>2 DEF PowerCut
  <2>3. UNCHANGED <<truth.began, truth.ran, truth.dated, truth.misled>>
    BY <1>0, <1>2 DEF PowerCut, Histories
  <2> QED BY <2>1, <2>2, <2>3 DEF DatesInv, Dates
<1>3. CASE OffSecond \/ SetTime \/ LoopStarts \/ PlainSnapshot
  <2>1. UNCHANGED <<nvs_trip, s_trip_active, s_trip_carry, up, s_trip_start_tick>>
        /\ now' >= now + 0 /\ now' \in Nat
    BY <1>0, <1>3 DEF OffSecond, SetTime, LoopStarts, PlainSnapshot, ram, trip
  <2>2. UNCHANGED <<truth.began, truth.dated, truth.misled>> /\ truth'.ran = truth.ran + 0
    BY <1>0, <1>3 DEF OffSecond, SetTime, LoopStarts, PlainSnapshot, Histories
  <2>3. clock' \in {clock, Right}
    BY <1>3 DEF OffSecond, SetTime, LoopStarts, PlainSnapshot, clocks
  <2>4. RunTotal' = RunTotal + 0  BY <1>0, <2>1 DEF RunTotal
  <2> QED BY <2>1, <2>2, <2>3, <2>4, DatesKept
<1>4. CASE MountSecond \/ Drain
  <2>1. UNCHANGED <<nvs_trip, s_trip_active, s_trip_carry, s_trip_start_tick, clock,
                    s_trip_baseline_ok>>
        /\ up' = up + 1 /\ now' >= now + 1 /\ now' \in Nat
        /\ power # "off"
    <3>1. CASE MountSecond  BY <1>0, <3>1 DEF MountSecond, TimePasses, trip, clocks
    <3>2. CASE Drain  BY <1>0, <3>2 DEF Drain, TimePasses, trip, clocks
    <3> QED BY <1>4, <3>1, <3>2
  <2>2. PICK n \in Uses :
          LET history == IF s_trip_active THEN Passed(n) ELSE truth
          IN \/ truth' = history
             \/ s_trip_active /\ truth' = [history EXCEPT !.mounting = @ + 1]
             \/ truth' = [history EXCEPT !.lapses = @ + 1, !.slack = @ + 1]
    BY <1>4 DEF MountSecond, Drain
  <2>3. n \in -1..1  BY TripData
  <2>4. /\ Passed(n) \in Histories /\ Passed(n).ran = truth.ran + 1
        /\ Passed(n).began = truth.began /\ Passed(n).dated = truth.dated
        /\ Passed(n).misled = truth.misled
    <3>1. Passed(n) \in Histories /\ Passed(n).ran = truth.ran + 1
      BY <1>0, <2>3, PassedFields
    <3>2. /\ Passed(n).began = truth.began /\ Passed(n).dated = truth.dated
          /\ Passed(n).misled = truth.misled
      BY <1>0 DEF Passed, Histories
    <3> QED BY <3>1, <3>2
  <2>5. UNCHANGED <<truth.began, truth.dated, truth.misled>>
        /\ (s_trip_active => truth'.ran = truth.ran + 1)
    <3> DEFINE history == IF s_trip_active THEN Passed(n) ELSE truth
    <3>1. history \in Histories /\ (s_trip_active => history = Passed(n))
          /\ (~s_trip_active => history = truth)
      BY <1>0, <2>4
    <3>2. \/ truth' = history
          \/ s_trip_active /\ truth' = [history EXCEPT !.mounting = @ + 1]
          \/ truth' = [history EXCEPT !.lapses = @ + 1, !.slack = @ + 1]
      BY <2>2
    <3> HIDE DEF history
    <3>3. truth'.began = history.began /\ truth'.dated = history.dated
          /\ truth'.misled = history.misled /\ truth'.ran = history.ran
      BY <3>1, <3>2 DEF Histories
    <3> QED BY <2>4, <3>1, <3>3
  <2>6. s_trip_active <=> nvs_trip # NoTrip  BY <2>1 DEF FiguresInv, Where
  <2>7. RunTotal' = RunTotal + 1  BY <1>0, <2>1 DEF RunTotal
  <2> QED BY <2>1, <2>5, <2>6, <2>7, DatesKept
<1>5. CASE TripStart
  <2>1. /\ s_trip_start_tick' = up /\ up' = up /\ now' = now /\ clock' = clock
        /\ s_trip_carry' = [NoCarry EXCEPT !.start_unix = IF Valid THEN Time ELSE 0]
        /\ nvs_trip' = s_trip_carry'
    BY <1>5 DEF TripStart, ram, clocks
  <2>2. /\ truth'.began = now /\ truth'.ran = 0 /\ truth'.dated = (clock = Right)
        /\ truth'.misled = Wrong(clock)
    BY <1>5 DEF TripStart, NoHistory
  <2>3. s_trip_carry'.run_s = 0
        /\ s_trip_carry'.start_unix = IF Valid THEN Time ELSE 0
    BY <2>1 DEF NoCarry
  <2>4. RunTotal' = 0  BY <1>0, <2>1, <2>3 DEF RunTotal
  <2>5. ~truth'.misled => clock \in {Unset, Right}  BY <2>2, Zenon DEF Wrong
  <2>6. clock = Right => Valid /\ Time = Dawn + now
    BY <1>0, TripData DEF Right, Unset, Valid, Time
  <2>7. CASE clock = Right
    <3>1. truth'.dated  BY <2>2, <2>7, Zenon
    <3> QED BY <1>0, <2>1, <2>2, <2>3, <2>4, <2>6, <2>7, <3>1, TripData DEF DatesInv, Dates
  <2>8. CASE clock = Unset
    <3>1. ~truth'.dated  BY <2>2, <2>8, Zenon DEF Right, Unset
    <3>2. s_trip_carry'.start_unix = 0  BY <2>3, <2>8 DEF Valid
    <3> QED BY <1>0, <2>1, <2>2, <2>4, <2>8, <3>1, <3>2 DEF DatesInv, Dates
  <2>9. CASE truth'.misled
    BY <1>0, <2>1, <2>2, <2>9 DEF DatesInv
  <2> QED BY <2>5, <2>7, <2>8, <2>9
<1>6. CASE TripEnd
  <2>1. nvs_trip' = NoTrip  BY <1>6 DEF TripEnd
  <2> QED BY <2>1 DEF DatesInv
<1>7. CASE SavePass
  <2>1. UNCHANGED <<up, s_trip_start_tick, s_trip_active, now, truth, clock>>
    BY <1>7 DEF SavePass, clocks
  <2>2. CASE s_trip_active /\ last_trip >= SaveInterval
    <3>1. /\ nvs_trip' = TripRecord
          /\ s_trip_carry' = [s_trip_carry EXCEPT !.start_unix = StartKnown]
      BY <1>7, <2>2 DEF SavePass
    <3>2. nvs_trip # NoTrip  BY <1>7, <2>2 DEF SavePass, FiguresInv, Where
    <3>3. StartKnown \in Nat /\ RunTotal \in Nat
          /\ s_trip_carry \in Record
      BY <2>2, TotalsType DEF FiguresInv, TripParts, Records
    <3>4. /\ nvs_trip'.start_unix = StartKnown /\ nvs_trip'.run_s = RunTotal
          /\ s_trip_carry'.start_unix = StartKnown
          /\ s_trip_carry'.run_s = s_trip_carry.run_s
      BY <3>1, <3>3 DEF TripRecord, Record
    <3>5. RunTotal' = RunTotal  BY <2>1, <3>4 DEF RunTotal
    <3>6. ~truth.misled => Dates(StartKnown, RunTotal)
      <4>1. CASE s_trip_carry.start_unix = 0 /\ Valid /\ ~truth.misled
        <5>1. clock = Right  BY <2>2, <3>2, <4>1 DEF DatesInv, Valid
        <5>2. StartKnown = Dawn + now - RunTotal
          <6>1. Time = Dawn + now  BY <1>0, <5>1, TripData DEF Time, Right
          <6>2. StartKnown = Time - RunTotal  BY <4>1 DEF StartKnown
          <6>3. Dawn \in Nat /\ RunTotal \in Nat  BY <3>3, TripData
          <6> QED BY <1>0, <6>1, <6>2, <6>3
        <5>3. RunTotal <= truth.ran /\ truth.began + truth.ran <= now
              /\ truth.ran \in Nat /\ truth.began \in Nat
          BY <2>2, <3>2, DateNumbers DEF FiguresInv, Running, DatesInv
        <5>4. ~truth.dated
          BY <2>2, <3>2, <4>1, DateNumbers, TripData DEF DatesInv, Dates
        <5> QED BY <1>0, <3>3, <5>2, <5>3, <5>4, TripData DEF Dates
      <4>2. CASE ~(s_trip_carry.start_unix = 0 /\ Valid) /\ ~truth.misled
        <5>1. StartKnown = s_trip_carry.start_unix  BY <4>2 DEF StartKnown
        <5> QED BY <2>2, <3>2, <4>2, <5>1 DEF DatesInv
      <4> QED BY <4>1, <4>2
    <3> QED BY <2>1, <2>2, <3>2, <3>4, <3>5, <3>6 DEF DatesInv, Dates
  <2>3. CASE ~(s_trip_active /\ last_trip >= SaveInterval)
    <3>1. UNCHANGED <<nvs_trip, s_trip_carry>>  BY <1>7, <2>3 DEF SavePass
    <3> QED BY <2>1, <3>1 DEF DatesInv, Dates, RunTotal
  <2> QED BY <2>2, <2>3
<1>8. CASE Snapshot
  <2>1. UNCHANGED <<nvs_trip, s_trip_active, s_trip_carry, up, s_trip_start_tick, now, clock>>
    BY <1>8 DEF Snapshot, ram, clocks
  <2>2. UNCHANGED <<truth.began, truth.ran, truth.dated, truth.misled>>
    BY <1>0, <1>8 DEF Snapshot, Histories
  <2> QED BY <2>1, <2>2 DEF DatesInv, Dates, RunTotal
<1> QED BY <1>1, <1>2, <1>3, <1>4, <1>5, <1>6, <1>7, <1>8 DEF TripNext

\* The duration of a trip is no negative number, and lies between its running time and
\* the time since TRIP_START unless a wrong clock went into it: SummaryConsistent, for
\* all constants.
THEOREM SummaryConsistentAlways == TripSpec => []SummaryConsistent
<1>1. TripInit => DatesInv
  BY DEF TripInit, DatesInv
<1>2. FiguresInv /\ FiguresInv' /\ DatesInv /\ [TripNext]_tripVars => DatesInv'
  <2>1. ASSUME DatesInv, UNCHANGED tripVars PROVE DatesInv'
    BY <2>1 DEF DatesInv, Dates, RunTotal, tripVars, ram, clocks, trip
  <2> QED BY <2>1, DatesStep
<1>3. FiguresInv /\ DatesInv => SummaryConsistent
  <2> SUFFICES ASSUME FiguresInv, DatesInv, s_trip_active PROVE SummaryConsistent
    BY DEF SummaryConsistent
  <2> DEFINE start == s_trip_carry.start_unix
             wall == Valid /\ start # 0 /\ start <= Time
  <2>1. nvs_trip # NoTrip  BY DEF FiguresInv, Where
  <2>2. start \in Nat /\ RunTotal \in Nat /\ RunTotal <= truth.ran
        /\ truth.began + truth.ran <= now /\ truth.ran \in Nat /\ truth.began \in Nat
        /\ now \in Nat
    BY <2>1, TotalsType, DateNumbers DEF FiguresInv, Running, DatesInv
  <2>3. Valid => Time \in Nat
    BY TimeType DEF FiguresInv, TripParts, Counters, ClocksRead
  <2>4. /\ wall => Summary.duration_s = Time - start /\ Summary.start_unix = start
        /\ ~wall => /\ Summary.duration_s = RunTotal
                    /\ Valid => Summary.start_unix = Time - RunTotal
    BY DEF Summary, Row
  <2>5. Summary.duration_s >= 0  BY <2>2, <2>3, <2>4
  <2>6. ASSUME ~truth.misled
        PROVE  /\ RunTotal <= Summary.duration_s /\ Summary.duration_s <= now - truth.began
               /\ Valid => Summary.start_unix + Summary.duration_s = Time
               /\ truth.dated /\ Valid => Summary.duration_s = now - truth.began
    <3>1. clock \in {Unset, Right} /\ Dates(start, RunTotal)  BY <2>1, <2>6 DEF DatesInv
    <3>2. Valid => Time = Dawn + now
      BY <2>2, <3>1, TripData DEF Valid, Time, Right
    <3>3. CASE wall
      BY <2>2, <2>4, <3>1, <3>2, <3>3, TripData DEF Dates
    <3>4. CASE ~wall
      <4>1. truth.dated => ~Valid
        BY <2>2, <3>1, <3>2, <3>4, TripData DEF Dates
      <4> QED BY <2>2, <2>3, <2>4, <3>4, <4>1
    <3> QED BY <3>3, <3>4
  <2> QED BY <2>5, <2>6 DEF SummaryConsistent
<1> QED BY <1>1, <1>2, <1>3, FiguresInductive, PTL DEF TripSpec

-----------------------------------------------------------------------------
(* MCParts.                                                                *)

\* A component is alone when the others stay as they start; the clock of TripFigures
\* then starts unset.
NodeAlone == /\ part = "node" /\ TripInit /\ rtc = Unset /\ StateInit /\ ShimInit /\ NumbersInit
             /\ [][FALSE]_<<part, tripVars, stateVars, shimVars, input>>
TripAlone == /\ part = "trip" /\ Init /\ StateInit /\ ShimInit /\ NumbersInit
             /\ [][FALSE]_<<part, vars, stateVars, shimVars, input>>
StateAlone == /\ part = "state" /\ Init /\ TripInit /\ rtc = Unset /\ ShimInit /\ NumbersInit
              /\ [][FALSE]_<<part, vars, tripVars, shimVars, input>>
ShimAlone == /\ part = "shim" /\ Init /\ TripInit /\ rtc = Unset /\ StateInit /\ NumbersInit
             /\ [][FALSE]_<<part, vars, tripVars, stateVars, input>>
NumbersAlone == /\ part = "numbers" /\ Init /\ TripInit /\ rtc = Unset /\ StateInit /\ ShimInit
                /\ [][FALSE]_<<part, vars, tripVars, stateVars, shimVars>>

\* Every behaviour of a component, with the others at rest, is one of the parts side by
\* side, so that what TLC checks of MCParts it checks of all behaviours of the component:
\* none is lost in the composition.
THEOREM ComponentsAreParts ==
  /\ Spec /\ NodeAlone => PartsSafe
  /\ TripSpec /\ TripAlone => PartsSafe
  /\ StateSpec /\ StateAlone => PartsSafe
  /\ ShimSpec /\ ShimAlone => PartsSafe
  /\ NumbersSpec /\ NumbersAlone => PartsSafe
<1>1. Spec /\ NodeAlone => PartsSafe
  <2> DEFINE others == <<part, tripVars, stateVars, shimVars, input>>
  <2>1. /\ Init /\ part = "node" /\ TripInit /\ rtc = Unset /\ StateInit /\ ShimInit
        /\ NumbersInit
        => PartsInit
    BY DEF PartsInit
  <2>2. part = "node" /\ [FALSE]_others => (part = "node")'
    OBVIOUS
  <2>3. part = "node" /\ [Next]_vars /\ [FALSE]_others => [PartsNext]_partsVars
    BY DEF PartsNext, partsVars, Node
  <2> QED BY <2>1, <2>2, <2>3, PTL DEF Spec, NodeAlone, PartsSafe
<1>2. TripSpec /\ TripAlone => PartsSafe
  <2> DEFINE others == <<part, vars, stateVars, shimVars, input>>
  <2>1. TripInit /\ part = "trip" /\ Init /\ StateInit /\ ShimInit /\ NumbersInit => PartsInit
    BY DEF PartsInit
  <2>2. part = "trip" /\ [FALSE]_others => (part = "trip")'
    OBVIOUS
  <2>3. part = "trip" /\ [TripNext]_tripVars /\ [FALSE]_others => [PartsNext]_partsVars
    BY DEF PartsNext, partsVars, Trip
  <2> QED BY <2>1, <2>2, <2>3, PTL DEF TripSpec, TripAlone, PartsSafe
<1>3. StateSpec /\ StateAlone => PartsSafe
  <2> DEFINE others == <<part, vars, tripVars, shimVars, input>>
  <2>1. /\ StateInit /\ part = "state" /\ Init /\ TripInit /\ rtc = Unset /\ ShimInit
        /\ NumbersInit
        => PartsInit
    BY DEF PartsInit
  <2>2. part = "state" /\ [FALSE]_others => (part = "state")'
    OBVIOUS
  <2>3. part = "state" /\ [StateNext]_stateVars /\ [FALSE]_others => [PartsNext]_partsVars
    BY DEF PartsNext, partsVars, State
  <2> QED BY <2>1, <2>2, <2>3, PTL DEF StateSpec, StateAlone, PartsSafe
<1>4. ShimSpec /\ ShimAlone => PartsSafe
  <2> DEFINE others == <<part, vars, tripVars, stateVars, input>>
  <2>1. /\ ShimInit /\ part = "shim" /\ Init /\ TripInit /\ rtc = Unset /\ StateInit
        /\ NumbersInit
        => PartsInit
    BY DEF PartsInit
  <2>2. part = "shim" /\ [FALSE]_others => (part = "shim")'
    OBVIOUS
  <2>3. part = "shim" /\ [ShimNext]_shimVars /\ [FALSE]_others => [PartsNext]_partsVars
    BY DEF PartsNext, partsVars, Shim
  <2> QED BY <2>1, <2>2, <2>3, PTL DEF ShimSpec, ShimAlone, PartsSafe
<1>5. NumbersSpec /\ NumbersAlone => PartsSafe
  <2> DEFINE others == <<part, vars, tripVars, stateVars, shimVars>>
  <2>1. /\ NumbersInit /\ part = "numbers" /\ Init /\ TripInit /\ rtc = Unset /\ StateInit
        /\ ShimInit
        => PartsInit
    BY DEF PartsInit
  <2>2. part = "numbers" /\ [FALSE]_others => (part = "numbers")'
    OBVIOUS
  <2>3. part = "numbers" /\ [NumbersNext]_input /\ [FALSE]_others => [PartsNext]_partsVars
    BY DEF PartsNext, partsVars, Algorithms
  <2> QED BY <2>1, <2>2, <2>3, PTL DEF NumbersSpec, NumbersAlone, PartsSafe
<1> QED BY <1>1, <1>2, <1>3, <1>4, <1>5

\* A behaviour of the parts side by side is one of every part.
LEMMA PartsAreComponents ==
  PartsSpec => Spec /\ TripSpec /\ StateSpec /\ ShimSpec /\ NumbersSpec
<1>1. PartsInit => Init /\ TripInit /\ StateInit /\ ShimInit /\ NumbersInit
  BY DEF PartsInit
<1>2. [PartsNext]_partsVars => /\ [Next]_vars /\ [TripNext]_tripVars /\ [StateNext]_stateVars
                              /\ [ShimNext]_shimVars /\ [NumbersNext]_input
  BY DEF PartsNext, partsVars, Node, Trip, State, Shim, Algorithms
<1> QED
  BY <1>1, <1>2, PTL DEF PartsSpec, PartsSafe, Spec, TripSpec, StateSpec, ShimSpec, NumbersSpec

\* The variables of every part have their types in it.
THEOREM PartsTyping == PartsSpec => []PartsTypeOK
<1>1. TypeOK /\ TripTypeOK /\ StateTypeOK /\ ShimTypeOK => PartsTypeOK
  BY DEF PartsTypeOK
<1> QED
  BY <1>1, PartsAreComponents, NodeTyping, TripTyping, VehicleTyping, ShimTyping, PTL

=============================================================================
