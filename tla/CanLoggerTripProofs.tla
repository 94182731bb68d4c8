------------------------- MODULE CanLoggerTripProofs -------------------------
(***************************************************************************)
(* Trips survive: with an NVS that works, what the phone was told agrees   *)
(* with what a power cut would leave, and CanLogger implements TripService *)
(* for every number of cuts, pulled cards, I/O errors and markers.         *)
(* And the files show them: whatever fails, NVS included, every file has   *)
(* its trip rows in the order the phone expects.                           *)
(***************************************************************************)
EXTENDS CanLoggerProofs, SequenceTheorems

NvsFaults == {"nvsOpen", "nvsWrite", "nvsReset"}
NvsReliable == \A b \in Budgets, f \in NvsFaults : b[f] = 0

\* What is stored follows what runs, except between the two steps of a marker
\* that changes both; and while a marker is handled the phone knows nothing.
TripInv ==
  /\ \A f \in NvsFaults : left[f] = 0
  /\ s_trip_active \in BOOLEAN /\ nvsTrip \in BOOLEAN
  /\ pc = "off" => ~s_trip_active
  /\ pc \notin {"off", "tripSave", "tripForget"} => (s_trip_active <=> nvsTrip)
  /\ pc = "tripSave" => s_trip_active
  /\ pc \in {"tripBegin", "tripSave"} => caller = "tripStart"
  /\ pc \in {"tripForget", "endSnap", "endRaw"} => caller = "tripEnd"
  /\ pc = "loop" => caller = "none"
  /\ caller \in {"tripStart", "tripEnd"} /\ pc # "tripSave" => ~s_trip_active
  /\ caller \in {"tripStart", "tripEnd"} => promised = "unknown"
  /\ promised = "running" => nvsTrip
  /\ promised = "idle" => ~nvsTrip

LEMMA InitTrip == NvsReliable /\ Init => TripInv
BY DEF NvsReliable, Init, TripInv

\* Spending another fault leaves NVS reliable.
LEMMA NvsStaysReliable ==
  ASSUME Inv, TripInv, NEW f \in FaultKinds, Spend(f)
  PROVE  f \notin NvsFaults /\ \A g \in NvsFaults : left'[g] = 0
BY DEF Inv, TypeOK, TripInv, Spend, NvsFaults, FaultKinds

LEMMA IoKeepsNvs ==
  ASSUME Inv, TripInv, NEW s, NEW K, NEW ok,
         IoWorks \/ IoFails \/ Commit(s, ok) \/ Close(s, K)
  PROVE  \A g \in NvsFaults : left'[g] = 0
<1>1. left' = left \/ Spend("io")
  BY DEF IoWorks, IoFails, Commit, Close, FailingStreams
<1> QED
  BY <1>1, NvsStaysReliable DEF TripInv, FaultKinds

\* Calls into NVS do not fail.
LEMMA NvsWorks ==
  ASSUME Inv, TripInv, NEW f \in NvsFaults
  PROVE  ~Spend(f)
BY DEF TripInv, Spend

-----------------------------------------------------------------------------
(* One lemma per handler: what it does to the trip. *)

\* Steps within a handler, and periodic passes, that neither start nor end a trip.
LEMMA TripQuiet ==
  ASSUME Inv, TripInv, UNCHANGED <<nvsTrip, s_trip_active, promised>>,
         \A g \in NvsFaults : left'[g] = 0,
         \/ pc' = pc /\ caller' = caller
         \/ /\ pc \notin {"off", "loop", "tripSave", "tripForget"}
            /\ pc' \notin {"off", "loop", "tripSave", "tripForget", "tripBegin", "endSnap", "endRaw"}
            /\ caller' = caller
         \/ /\ pc \notin {"off", "tripSave", "tripForget"}
            /\ pc' \notin {"off", "tripSave", "tripForget", "tripBegin", "endSnap", "endRaw", "loop"}
            /\ caller' \notin {"tripStart", "tripEnd"}
         \/ /\ pc \notin {"off", "tripSave", "tripForget"}
            /\ pc' = "loop" /\ caller' = "none"
  PROVE  TripInv'
BY DEF TripInv

LEMMA BootTrip == Inv /\ TripInv /\ (PowerOn \/ MountCard) => TripInv'
<1> SUFFICES ASSUME Inv, TripInv, PowerOn \/ MountCard PROVE TripInv'
  OBVIOUS
<1>1. CASE PowerOn
  <2>1. /\ pc = "off" /\ pc' = "mount" /\ caller' = "boot"
        /\ s_trip_active' = nvsTrip /\ UNCHANGED <<left, nvsTrip, promised>>
    BY <1>1, NvsWorks DEF PowerOn, Goto, nvs, NvsFaults
  <2> QED
    BY <2>1 DEF TripInv
<1>2. CASE MountCard
  BY <1>2 DEF MountCard, Goto, nvs, trip, TripInv
<1> QED
  BY <1>1, <1>2

LEMMA ClaimTrip == Inv /\ TripInv /\ (ClaimLogId \/ ReopenLog) => TripInv'
<1> SUFFICES ASSUME Inv, TripInv, ClaimLogId \/ ReopenLog PROVE TripInv'
  OBVIOUS
<1>1. CASE ClaimLogId
  <2>1. \A g \in NvsFaults : left'[g] = 0
    BY <1>1, NvsWorks DEF ClaimLogId, NvsFaults, TripInv
  <2> QED
    BY <1>1, <2>1, TripQuiet DEF ClaimLogId, trip
<1>2. CASE ReopenLog
  BY <1>2, IoKeepsNvs, TripQuiet DEF ReopenLog, Goto, nvs, trip
<1> QED
  BY <1>1, <1>2

LEMMA ReclaimTrip ==
  Inv /\ TripInv /\ (ReclaimUnlink \/ ReclaimUnlinkSnap \/ ReclaimDone \/ SpaceCheck \/ StatusPass)
    => TripInv'
<1> SUFFICES ASSUME Inv, TripInv,
                    ReclaimUnlink \/ ReclaimUnlinkSnap \/ ReclaimDone \/ SpaceCheck \/ StatusPass
             PROVE  TripInv'
  OBVIOUS
<1>1. CASE ReclaimUnlink \/ ReclaimUnlinkSnap
  BY <1>1, IoKeepsNvs, TripQuiet DEF ReclaimUnlink, ReclaimUnlinkSnap, nvs, trip
<1>2. CASE ReclaimDone
  BY <1>2, TripQuiet DEF ReclaimDone, Goto, nvs, trip, TripInv
<1>3. CASE SpaceCheck \/ StatusPass
  BY <1>3, TripQuiet DEF SpaceCheck, StatusPass, Goto, nvs, trip, TripInv
<1> QED
  BY <1>1, <1>2, <1>3

\* An open that fails ends a marker with no trip; other callers go on.
LEMMA GiveUpTrip ==
  ASSUME Inv, TripInv, GiveUp, pc \in {"open", "header"},
         UNCHANGED <<nvsTrip, s_trip_active>>, \A g \in NvsFaults : left'[g] = 0
  PROVE  TripInv'
<1>1. CASE caller \in {"tripStart", "tripEnd"}
  BY <1>1 DEF GiveUp, Goto, TripInv
<1>2. CASE caller \notin {"tripStart", "tripEnd"}
  BY <1>2 DEF GiveUp, RetryOrLoop, Goto, TripInv
<1> QED
  BY <1>1, <1>2

LEMMA OpenTrip ==
  Inv /\ TripInv /\ (OpenLog \/ OpenLogFails \/ CommitHeader \/ OpenSnap) => TripInv'
<1> SUFFICES ASSUME Inv, TripInv, OpenLog \/ OpenLogFails \/ CommitHeader \/ OpenSnap
             PROVE  TripInv'
  OBVIOUS
<1>1. CASE OpenLog
  BY <1>1, IoKeepsNvs, TripQuiet DEF OpenLog, nvs, trip
<1>2. CASE OpenLogFails
  BY <1>2, IoKeepsNvs, GiveUpTrip DEF OpenLogFails, nvs
<1>3. CASE CommitHeader
  <2>1. \A g \in NvsFaults : left'[g] = 0
    BY <1>3, IoKeepsNvs DEF CommitHeader
  <2>2. CASE GiveUp
    BY <1>3, <2>1, <2>2, GiveUpTrip DEF CommitHeader, nvs
  <2>3. CASE Goto("openSnap", caller) /\ UNCHANGED promised
    BY <1>3, <2>1, <2>3, TripQuiet DEF CommitHeader, Goto, nvs
  <2> QED
    BY <1>3, <2>2, <2>3 DEF CommitHeader
<1>4. CASE OpenSnap
  <2>1. \A g \in NvsFaults : left'[g] = 0
    BY <1>4, IoKeepsNvs DEF OpenSnap
  <2>2. pc = "openSnap" /\ UNCHANGED <<nvsTrip, s_trip_active>> /\ AfterOpen
        /\ promised' = IF caller = "tripEnd" THEN "idle" ELSE promised
    BY <1>4 DEF OpenSnap, nvs
  <2> QED
    BY <2>1, <2>2 DEF AfterOpen, Goto, TripInv
<1> QED
  BY <1>1, <1>2, <1>3, <1>4

LEMMA RowsTrip ==
  Inv /\ TripInv /\ (WriteTripStartRows \/ RemountCard \/ (\E busy \in BOOLEAN : FlushPass(busy)))
    => TripInv'
<1> SUFFICES ASSUME Inv, TripInv,
                    WriteTripStartRows \/ RemountCard \/ (\E busy \in BOOLEAN : FlushPass(busy))
             PROVE  TripInv'
  OBVIOUS
<1>1. CASE WriteTripStartRows
  BY <1>1, IoKeepsNvs, TripQuiet DEF WriteTripStartRows, Goto, nvs, trip
<1>2. CASE RemountCard
  <2>1. \A g \in NvsFaults : left'[g] = 0
    BY <1>2, NvsStaysReliable DEF RemountCard, TripInv, FaultKinds
  <2>2. /\ pc = "remount" /\ UNCHANGED <<nvsTrip, s_trip_active, promised>>
        /\ \/ pc' = "open" /\ caller' = "boot"
           \/ pc' = "loop" /\ caller' = "none"
    BY <1>2 DEF RemountCard, RetryOrLoop, Goto, nvs, trip
  <2> QED
    BY <2>1, <2>2, TripQuiet
<1>3. ASSUME NEW busy \in BOOLEAN, FlushPass(busy) PROVE TripInv'
  <2>1. \A g \in NvsFaults : left'[g] = 0
    BY <1>3, IoKeepsNvs DEF FlushPass
  <2>2. /\ pc = "loop" /\ UNCHANGED <<nvsTrip, s_trip_active, promised>>
        /\ \/ pc' = "loop" /\ caller' = "none"
           \/ pc' = "reopen" /\ caller' = "abandon"
    BY <1>3 DEF FlushPass, Goto, nvs, trip
  <2> QED
    BY <2>1, <2>2, TripQuiet
<1> QED
  BY <1>1, <1>2, <1>3

LEMMA StartTrip ==
  Inv /\ TripInv /\ (HandleTripStart \/ TripBegin \/ TripSave \/ SaveTripPeriodically)
    => TripInv'
<1> SUFFICES ASSUME Inv, TripInv,
                    HandleTripStart \/ TripBegin \/ TripSave \/ SaveTripPeriodically
             PROVE  TripInv'
  OBVIOUS
<1>1. CASE HandleTripStart
  <2>1. \A g \in NvsFaults : left'[g] = 0
    BY <1>1, NvsStaysReliable DEF HandleTripStart, FaultKinds
  <2>2. pc = "loop" /\ UNCHANGED <<nvsTrip, s_trip_active>>
    BY <1>1 DEF HandleTripStart, nvs
  <2>3. CASE s_trip_active
    BY <1>1, <2>1, <2>2, <2>3 DEF HandleTripStart, Goto, TripInv
  <2>4. CASE ~s_trip_active
    <3>1. /\ promised' = "unknown" /\ caller' = "tripStart"
          /\ pc' \in {"open", "openSnap", "tripBegin"}
      BY <1>1, <2>4 DEF HandleTripStart, Goto
    <3> QED
      BY <2>1, <2>2, <2>4, <3>1 DEF TripInv
  <2> QED
    BY <2>3, <2>4
<1>2. CASE TripBegin
  <2>1. \A g \in NvsFaults : left'[g] = 0
    BY <1>2, IoKeepsNvs DEF TripBegin
  <2>2. /\ pc = "tripBegin" /\ pc' = "tripSave" /\ caller' = "tripStart"
        /\ s_trip_active' = TRUE /\ UNCHANGED <<nvsTrip, promised>>
    BY <1>2 DEF TripBegin, Goto, nvs
  <2> QED
    BY <2>1, <2>2 DEF TripInv
<1>3. CASE TripSave
  <2>1. /\ pc = "tripSave" /\ pc' = "loop" /\ caller' = "none" /\ promised' = "running"
        /\ nvsTrip' = TRUE /\ UNCHANGED <<left, s_trip_active>>
    BY <1>3, NvsWorks DEF TripSave, Goto, NvsFaults
  <2> QED
    BY <2>1 DEF TripInv
<1>4. CASE SaveTripPeriodically
  <2>1. /\ pc = "loop" /\ s_trip_active /\ nvsTrip' = TRUE
        /\ UNCHANGED <<pc, caller, left, s_trip_active, promised>>
    BY <1>4 DEF SaveTripPeriodically, control, trip
  <2> QED
    BY <2>1 DEF TripInv
<1> QED
  BY <1>1, <1>2, <1>3, <1>4

LEMMA EndTrip ==
  Inv /\ TripInv /\ (HandleTripEnd \/ TripForget \/ EndSnap \/ EndRaw) => TripInv'
<1> SUFFICES ASSUME Inv, TripInv, HandleTripEnd \/ TripForget \/ EndSnap \/ EndRaw
             PROVE  TripInv'
  OBVIOUS
<1>1. CASE HandleTripEnd
  <2>1. \A g \in NvsFaults : left'[g] = 0
    BY <1>1, NvsStaysReliable DEF HandleTripEnd, FaultKinds
  <2>2. pc = "loop" /\ s_trip_active' = FALSE /\ UNCHANGED nvsTrip
    BY <1>1 DEF HandleTripEnd, nvs
  <2>3. \/ s_trip_active /\ pc' = "tripForget" /\ caller' = "tripEnd" /\ promised' = "unknown"
        \/ ~s_trip_active /\ pc' = "loop" /\ caller' = "none" /\ promised' = "idle"
    BY <1>1 DEF HandleTripEnd, Goto
  <2> QED
    BY <2>1, <2>2, <2>3 DEF TripInv
<1>2. CASE TripForget
  <2>1. /\ pc = "tripForget" /\ pc' = "endSnap" /\ caller' = "tripEnd"
        /\ nvsTrip' = FALSE /\ UNCHANGED <<left, s_trip_active, promised>>
    BY <1>2, NvsWorks DEF TripForget, Goto, NvsFaults, trip
  <2> QED
    BY <2>1 DEF TripInv
<1>3. CASE EndSnap
  <2>1. \A g \in NvsFaults : left'[g] = 0
    BY <1>3, IoKeepsNvs DEF EndSnap
  <2>2. /\ pc = "endSnap" /\ pc' = "endRaw" /\ caller' = "tripEnd"
        /\ UNCHANGED <<nvsTrip, s_trip_active, promised>>
    BY <1>3 DEF EndSnap, Goto, nvs, trip
  <2> QED
    BY <2>1, <2>2 DEF TripInv
<1>4. CASE EndRaw
  <2>1. \A g \in NvsFaults : left'[g] = 0
    BY <1>4, IoKeepsNvs DEF EndRaw
  <2>2. /\ pc = "endRaw" /\ UNCHANGED <<nvsTrip, s_trip_active>>
        /\ \/ pc' = "claim" /\ caller' = "tripEnd" /\ promised' = promised
           \/ pc' = "loop" /\ caller' = "none" /\ promised' = "idle"
    BY <1>4 DEF EndRaw, Goto, nvs
  <2> QED
    BY <2>1, <2>2 DEF TripInv
<1> QED
  BY <1>1, <1>2, <1>3, <1>4

LEMMA OutsideTrip ==
  Inv /\ TripInv /\ (PowerCut \/ PullCard \/ InsertCard \/ SwapCardOff \/ ResetNvs
                       \/ UNCHANGED vars) => TripInv'
<1> SUFFICES ASSUME Inv, TripInv,
                    PowerCut \/ PullCard \/ InsertCard \/ SwapCardOff \/ ResetNvs
                      \/ UNCHANGED vars
             PROVE  TripInv'
  OBVIOUS
<1>1. ~ResetNvs
  BY NvsWorks DEF ResetNvs, NvsFaults
<1>2. \A g \in NvsFaults : left'[g] = 0
  BY <1>1, NvsStaysReliable
  DEF PowerCut, PullCard, InsertCard, SwapCardOff, vars, TripInv, FaultKinds
<1>3. CASE PowerCut
  <2>1. /\ pc' = "off" /\ caller' = "none" /\ s_trip_active' = FALSE
        /\ UNCHANGED <<nvsTrip, promised>>
    BY <1>3 DEF PowerCut, Goto, nvs
  <2> QED
    BY <1>2, <2>1 DEF TripInv
<1>4. CASE PullCard \/ InsertCard \/ SwapCardOff \/ UNCHANGED vars
  BY <1>2, <1>4, TripQuiet
  DEF PullCard, InsertCard, SwapCardOff, vars, nvs, control, trip
<1> QED
  BY <1>1, <1>3, <1>4

LEMMA StepTrip == Inv /\ TripInv /\ [Next]_vars => TripInv'
BY BootTrip, ClaimTrip, ReclaimTrip, OpenTrip, RowsTrip, StartTrip, EndTrip, OutsideTrip
DEF Next, Handler, Loop, Surroundings

-----------------------------------------------------------------------------

\* While NVS works, what the phone was last told of the trip agrees with what a
\* power cut now would leave.
THEOREM TripAgreementAlways ==
  ASSUME NvsReliable
  PROVE  Spec => []TripAgreement
<1>1. TripInv => TripAgreement
  BY DEF TripInv, TripAgreement
<1>2. Init => TripInv
  BY InitTrip
<1> QED
  BY InitInv, StepInv, StepTrip, <1>1, <1>2, PTL DEF Spec

\* A step that leaves the record alone asks, answers, or is not seen.
LEMMA SameRecord ==
  ASSUME TripInv', TypeOK', UNCHANGED nvsTrip
  PROVE  [Service!Next]_<<nvsTrip, promised>>
BY DEF TripInv, TypeOK, Service!Next, Service!Ask, Service!Answer

LEMMA StepService ==
  Inv /\ TripInv /\ Inv' /\ TripInv' /\ [Next]_vars => [Service!Next]_<<nvsTrip, promised>>
<1> SUFFICES ASSUME Inv, TripInv, Inv', TripInv', [Next]_vars
             PROVE  [Service!Next]_<<nvsTrip, promised>>
  OBVIOUS
<1>0. TypeOK'
  BY DEF Inv
<1>1. CASE TripSave
  <2>1. /\ promised = "unknown" /\ promised' = "running" /\ nvsTrip' = TRUE
    BY <1>1, NvsWorks DEF TripSave, TripInv, NvsFaults
  <2> QED
    BY <2>1 DEF Service!Next, Service!Start
<1>2. CASE TripForget
  <2>1. /\ promised = "unknown" /\ promised' = promised /\ nvsTrip' = FALSE
    BY <1>2, NvsWorks DEF TripForget, TripInv, NvsFaults, trip
  <2> QED
    BY <2>1 DEF Service!Next, Service!End
<1>3. CASE SaveTripPeriodically
  <2>1. UNCHANGED nvsTrip
    BY <1>3 DEF SaveTripPeriodically, TripInv
  <2> QED
    BY <1>0, <2>1, SameRecord
<1>4. CASE ~TripSave /\ ~TripForget /\ ~SaveTripPeriodically
  <2>1. ~ResetNvs
    BY NvsWorks DEF ResetNvs, NvsFaults
  <2>2. UNCHANGED nvsTrip
    <3>1. CASE Handler
      BY <1>4, <3>1
      DEF Handler, MountCard, ClaimLogId, ReclaimUnlink, ReclaimUnlinkSnap, ReclaimDone,
          OpenLog, OpenLogFails, CommitHeader, OpenSnap, WriteTripStartRows, RemountCard,
          TripBegin, EndSnap, EndRaw, ReopenLog, nvs
    <3>2. CASE Loop
      BY <1>4, <3>2
      DEF Loop, HandleTripStart, HandleTripEnd, FlushPass, SpaceCheck, StatusPass, nvs
    <3>3. CASE Surroundings
      BY <2>1, <3>3
      DEF Surroundings, PowerOn, PowerCut, PullCard, InsertCard, SwapCardOff, nvs
    <3>4. CASE UNCHANGED vars
      BY <3>4 DEF vars, nvs
    <3> QED
      BY <3>1, <3>2, <3>3, <3>4 DEF Next
  <2> QED
    BY <1>0, <2>2, SameRecord
<1> QED
  BY <1>1, <1>2, <1>3, <1>4

\* While NVS works, CanLogger implements TripService: no cut, remount, abandoned
\* file or boot starts, ends or loses a trip.
THEOREM ImplementsTripService ==
  ASSUME NvsReliable
  PROVE  Spec => TripServiceSpec
<1>1. Init => Service!Init
  BY DEF Init, Service!Init
<1>2. Init => TripInv
  BY InitTrip
<1> QED
  BY InitInv, StepInv, StepTrip, StepService, <1>1, <1>2, PTL
  DEF Spec, TripServiceSpec, Service!Spec

-----------------------------------------------------------------------------
(* The rows of a trip in the files that are being written.                   *)

Header == <<"header">>
Started == <<"header", "TRIP_START">>
Ended == <<"header", "TRIP_START", "TRIP_END">>

\* The rows, committed or not, that a session has been given at each control
\* point.
Expected ==
  IF pc = "header" THEN <<>>
  ELSE IF pc \in {"openSnap", "rows", "tripBegin"} THEN Header
  ELSE IF pc \in {"tripSave", "tripForget", "endSnap", "endRaw"} THEN Started
  ELSE IF s_trip_active THEN Started ELSE Header

\* The rows of k in its file and on their way there are w[k], or its stream has
\* failed and holds nothing.
Written(s, k) == file[k][mcard][s[k].id] \o s[k].buf
Lined(s, w) ==
  \A k \in Kinds : IsOpen(s, k) => IF s[k].err THEN s[k].buf = <<>> ELSE Written(s, k) = w[k]

Same(rows) == [k \in Kinds |-> rows]

RowsInv ==
  /\ TripRowsWellFormed
  /\ Lined(stream, Same(Expected))
  /\ pc \in {"rows", "tripSave"} => s_trip_active
  /\ pc \in {"tripForget", "endSnap", "endRaw"} => ~s_trip_active
  /\ caller = "tripEnd" => ~s_trip_active

\* Rows, one after the other.
LEMMA RowTuples ==
  ASSUME NEW a \in Row, NEW b \in Row, NEW c \in Row
  PROVE  /\ <<a>> \in Seq(Row) /\ <<a, b>> \in Seq(Row) /\ <<a, b, c>> \in Seq(Row)
         /\ <<>> \o <<a>> = <<a>>
         /\ <<a>> \o <<b>> = <<a, b>>
         /\ <<a, b>> \o <<c>> = <<a, b, c>>
<1>1. <<>> \in Seq(Row) /\ <<a>> \in Seq(Row) /\ <<a, b>> \in Seq(Row) /\ <<a, b, c>> \in Seq(Row)
  OBVIOUS
<1>2. /\ <<a>> \o <<b>> = Append(<<a>>, b)
      /\ <<a, b>> \o <<c>> = Append(<<a, b>>, c)
      /\ <<>> \o <<a>> = <<a>>
  BY <1>1, AppendIsConcat, ConcatEmptySeq
<1>3. Append(<<a>>, b) = <<a, b>> /\ Append(<<a, b>>, c) = <<a, b, c>>
  <2> DEFINE s == Append(<<a>>, b)
             t == Append(<<a, b>>, c)
  <2>1. /\ s \in Seq(Row) /\ Len(s) = 2 /\ s[1] = a /\ s[2] = b
        /\ t \in Seq(Row) /\ Len(t) = 3 /\ t[1] = a /\ t[2] = b /\ t[3] = c
    BY <1>1
  <2>2. /\ Len(<<a, b>>) = 2 /\ <<a, b>>[1] = a /\ <<a, b>>[2] = b
        /\ Len(<<a, b, c>>) = 3 /\ <<a, b, c>>[1] = a /\ <<a, b, c>>[2] = b
        /\ <<a, b, c>>[3] = c
    OBVIOUS
  <2>3. \A i \in Nat : (i \in 1..2 => i = 1 \/ i = 2) /\ (i \in 1..3 => i = 1 \/ i = 2 \/ i = 3)
    OBVIOUS
  <2> HIDE DEF s, t
  <2>4. s = <<a, b>>
    BY <1>1, <2>1, <2>2, <2>3, SeqEqual
  <2>5. t = <<a, b, c>>
    BY <1>1, <2>1, <2>2, <2>3, SeqEqual
  <2> QED
    BY <2>4, <2>5 DEF s, t
<1> QED
  BY <1>1, <1>2, <1>3

\* The contents that make sense are sequences of rows, one row longer each.
LEMMA RowLists ==
  /\ TripRows \subseteq Seq(Row)
  /\ Header \in TripRows /\ Started \in TripRows /\ Ended \in TripRows /\ <<>> \in TripRows
  /\ <<>> \o Header = Header
  /\ Header \o <<"TRIP_START">> = Started
  /\ Started \o <<"TRIP_END">> = Ended
  /\ \A rows \in Seq(Row) : rows \o <<>> = rows /\ <<>> \o rows = rows
<1>0. "header" \in Row /\ "TRIP_START" \in Row /\ "TRIP_END" \in Row
  BY DEF Row
<1>1. TripRows \subseteq Seq(Row)
  BY <1>0, RowTuples DEF TripRows
<1>2. /\ <<>> \o Header = Header
      /\ Header \o <<"TRIP_START">> = Started
      /\ Started \o <<"TRIP_END">> = Ended
  BY <1>0, RowTuples DEF Header, Started, Ended
<1>3. \A rows \in Seq(Row) : rows \o <<>> = rows /\ <<>> \o rows = rows
  BY ConcatEmptySeq
<1> QED
  BY <1>1, <1>2, <1>3 DEF TripRows, Header, Started, Ended

\* What an open stream has to write to is a sequence of rows, and so is its buffer.
LEMMA OpenContent ==
  ASSUME file \in Disk, NEW s \in [Kinds -> Stream], Backed(s), NEW k \in Kinds, IsOpen(s, k)
  PROVE  /\ s[k].id \in Ids /\ mcard \in Cards
         /\ file[k][mcard][s[k].id] \in Seq(Row) /\ s[k].buf \in Seq(Row)
<1>1. s[k].id \in Ids /\ s[k].buf \in Seq(Row)
  BY Limits DEF IsOpen, Stream, Ids
<1>2. mcard \in Cards /\ file[k][mcard][s[k].id] # Absent
  BY DEF Backed
<1> QED
  BY <1>1, <1>2 DEF Disk, Content

\* What the printed rows add to the lines.
Added(K, rows) == [k \in Kinds |-> IF k \in K THEN Expected \o rows ELSE Expected]

LEMMA PrintRows ==
  ASSUME Inv, RowsInv, NEW K, NEW rows \in Seq(Row)
  PROVE  Lined(Printed(stream, K, rows), Added(K, rows))
<1> DEFINE s == Printed(stream, K, rows)
<1> SUFFICES ASSUME NEW k \in Kinds, IsOpen(s, k)
             PROVE  IF s[k].err THEN s[k].buf = <<>> ELSE Written(s, k) = Added(K, rows)[k]
  BY DEF Lined
<1>1. stream \in [Kinds -> Stream] /\ Backed(stream) /\ file \in Disk
  BY DEF Inv, TypeOK, OpenFilesExist, Backed
<1>2. IsOpen(stream, k)
  BY <1>1, PrintType DEF IsOpen
<1>3. file[k][mcard][stream[k].id] \in Seq(Row) /\ stream[k].buf \in Seq(Row)
  BY <1>1, <1>2, OpenContent
<1>4. IF stream[k].err THEN stream[k].buf = <<>> ELSE Written(stream, k) = Expected
  BY <1>2 DEF RowsInv, Lined, Same
<1>5. CASE k \in K /\ ~stream[k].err
  <2>1. s[k] = [stream[k] EXCEPT !.buf = @ \o rows, !.dirty = TRUE]
    BY <1>2, <1>5 DEF Printed
  <2>2. s[k].buf = stream[k].buf \o rows /\ s[k].id = stream[k].id /\ s[k].err = stream[k].err
    BY <1>1, <2>1 DEF Stream
  <2>3. Written(s, k) = Written(stream, k) \o rows
    <3> HIDE DEF s
    <3>1. \A f, b \in Seq(Row) : (f \o b) \o rows = f \o (b \o rows)
      BY ConcatAssociative
    <3> QED
      BY <1>3, <2>2, <3>1 DEF Written
  <2> QED
    BY <1>4, <1>5, <2>2, <2>3 DEF Added
<1>6. CASE ~(k \in K /\ ~stream[k].err)
  <2>1. s[k] = stream[k]
    BY <1>6 DEF Printed
  <2> QED
    BY <1>4, <1>6, <2>1 DEF Added, Written
<1> QED
  BY <1>5, <1>6

\* Writing out lines that make sense leaves files that make sense, and the rows of
\* a stream that is written out in its file.
LEMMA LandRows ==
  ASSUME file \in Disk, NEW s \in [Kinds -> Stream], Backed(s), NEW w, Lined(s, w),
         \A k \in Kinds : IsOpen(s, k) => w[k] \in TripRows,
         TripRowsWellFormed, NEW K
  PROVE  /\ \A k \in Kinds, c \in Cards, i \in Ids :
              Landed(s, K)[k][c][i] \in TripRows \cup {Absent}
         /\ \A k \in Kinds : IsOpen(s, k) =>
              Landed(s, K)[k][mcard][s[k].id]
                = IF k \in K THEN Written(s, k) ELSE file[k][mcard][s[k].id]
<1>1. ASSUME NEW k \in Kinds, IsOpen(s, k)
      PROVE  Written(s, k) \in TripRows
  <2>1. /\ s[k].id \in Ids /\ mcard \in Cards
        /\ file[k][mcard][s[k].id] \in Seq(Row) /\ s[k].buf \in Seq(Row)
    BY <1>1, OpenContent
  <2>2. CASE s[k].err
    <3>1. Written(s, k) = file[k][mcard][s[k].id]
      BY <1>1, <2>1, <2>2, RowLists DEF Lined, Written
    <3> QED
      BY <2>1, <3>1, ModelValues DEF TripRowsWellFormed
  <2>3. CASE ~s[k].err
    BY <1>1, <2>3 DEF Lined
  <2> QED
    BY <2>2, <2>3
<1>2. ASSUME NEW k \in Kinds, NEW c \in Cards, NEW i \in Ids
      PROVE  Landed(s, K)[k][c][i] \in TripRows \cup {Absent}
  <2>1. Landed(s, K)[k][c][i] = IF k \in K /\ c = mcard /\ i = s[k].id
                                THEN file[k][c][i] \o s[k].buf ELSE file[k][c][i]
    BY DEF Landed
  <2>2. i = s[k].id => IsOpen(s, k)
    BY Limits DEF IsOpen, Ids
  <2>3. CASE k \in K /\ c = mcard /\ i = s[k].id
    BY <1>1, <2>1, <2>2, <2>3 DEF Written
  <2>4. CASE ~(k \in K /\ c = mcard /\ i = s[k].id)
    BY <2>1, <2>4 DEF TripRowsWellFormed
  <2> QED
    BY <2>3, <2>4
<1>3. ASSUME NEW k \in Kinds, IsOpen(s, k)
      PROVE  Landed(s, K)[k][mcard][s[k].id]
                = IF k \in K THEN Written(s, k) ELSE file[k][mcard][s[k].id]
  BY <1>3, OpenContent DEF Landed, Written
<1> QED
  BY <1>2, <1>3

\* The lines after a step.
LinedNext(w) ==
  \A k \in Kinds : IsOpen(stream', k) =>
    IF stream'[k].err THEN stream'[k].buf = <<>>
    ELSE file'[k][mcard'][stream'[k].id] \o stream'[k].buf = w[k]

\* What is printed can be written out.
LEMMA PrintedLines ==
  ASSUME Inv, RowsInv, NEW K, NEW rows \in Seq(Row),
         \A k \in Kinds : IsOpen(stream, k) => Added(K, rows)[k] \in TripRows
  PROVE  LET s == Printed(stream, K, rows)
         IN  /\ file \in Disk /\ s \in [Kinds -> Stream] /\ Backed(s)
             /\ Lined(s, Added(K, rows)) /\ TripRowsWellFormed
             /\ \A k \in Kinds : IsOpen(s, k) =>
                  s[k].buf \in Seq(Row) /\ Added(K, rows)[k] \in TripRows
<1>1. stream \in [Kinds -> Stream] /\ Backed(stream) /\ file \in Disk
  BY DEF Inv, TypeOK, OpenFilesExist, Backed
<1>2. Lined(Printed(stream, K, rows), Added(K, rows)) /\ TripRowsWellFormed
  BY PrintRows DEF RowsInv
<1> QED
  BY <1>1, <1>2, PrintType DEF IsOpen, Stream

\* commit() of lines that make sense: what did not reach the file is still in the
\* buffer, or the stream has failed.
LEMMA CommitRows ==
  ASSUME Inv, RowsInv, NEW K, NEW rows \in Seq(Row), NEW ok,
         Commit(Printed(stream, K, rows), ok), mcard' = mcard,
         \A k \in Kinds : IsOpen(stream, k) => Added(K, rows)[k] \in TripRows
  PROVE  TripRowsWellFormed' /\ LinedNext(Added(K, rows))
<1> DEFINE s == Printed(stream, K, rows)
           w == Added(K, rows)
<1>1. PICK bad \in SUBSET Kinds, latch \in SUBSET Kinds :
        /\ file' = Landed(s, Kinds \ bad)
        /\ stream' = Synced(s, bad, latch)
        /\ latch \subseteq bad
  BY DEF Commit
<1>2. /\ file \in Disk /\ s \in [Kinds -> Stream] /\ Backed(s)
      /\ Lined(s, w) /\ TripRowsWellFormed
      /\ \A k \in Kinds : IsOpen(s, k) => s[k].buf \in Seq(Row) /\ w[k] \in TripRows
  BY PrintedLines
<1> HIDE DEF s, w
<1>3. /\ \A k \in Kinds, c \in Cards, i \in Ids : file'[k][c][i] \in TripRows \cup {Absent}
      /\ \A k \in Kinds : IsOpen(s, k) =>
           file'[k][mcard][s[k].id] = IF k \in Kinds \ bad THEN Written(s, k)
                                      ELSE file[k][mcard][s[k].id]
  BY <1>1, <1>2, LandRows
<1>4. ASSUME NEW k \in Kinds, IsOpen(stream', k)
      PROVE  IF stream'[k].err THEN stream'[k].buf = <<>>
             ELSE file'[k][mcard'][stream'[k].id] \o stream'[k].buf = w[k]
  <2>1. s[k] \in Stream
    BY <1>2
  <2>2. \/ stream'[k] = s[k] /\ (IsOpen(s, k) => k \in bad)
        \/ stream'[k] = [s[k] EXCEPT !.buf = <<>>, !.dirty = FALSE, !.err = @ \/ k \in latch]
    BY <1>1 DEF Synced
  <2>3. stream'[k].id = s[k].id /\ IsOpen(s, k)
    BY <1>4, <2>1, <2>2 DEF Stream, IsOpen
  <2>4. CASE stream'[k] = s[k] /\ k \in bad
    BY <1>2, <1>3, <2>3, <2>4 DEF Lined, Written
  <2>5. CASE stream'[k] = [s[k] EXCEPT !.buf = <<>>, !.dirty = FALSE, !.err = @ \/ k \in latch]
    <3>1. stream'[k].buf = <<>> /\ (stream'[k].err <=> s[k].err \/ k \in latch)
      BY <2>1, <2>5 DEF Stream
    <3>2. CASE ~s[k].err /\ k \notin latch /\ k \in Kinds \ bad
      <4>1. file'[k][mcard][s[k].id] = w[k] /\ w[k] \in Seq(Row)
        BY <1>2, <1>3, <2>3, <3>2, RowLists DEF Lined
      <4> QED
        BY <3>1, <2>3, <4>1, RowLists
    <3>3. CASE s[k].err \/ k \in latch
      BY <3>1, <3>3
    <3>4. CASE ~s[k].err /\ k \notin latch /\ k \in bad
      <4>1. stream'[k] = s[k]
        BY <1>1, <3>4 DEF Synced
      <4> QED
        BY <1>2, <1>3, <2>3, <3>4, <4>1 DEF Lined, Written
    <3> QED
      BY <3>2, <3>3, <3>4
  <2> QED
    BY <2>2, <2>3, <2>4, <2>5
<1> QED
  BY <1>3, <1>4 DEF TripRowsWellFormed, LinedNext, w

\* fclose of lines that make sense.
LEMMA CloseRows ==
  ASSUME Inv, RowsInv, NEW K, NEW L, NEW rows \in Seq(Row),
         Close(Printed(stream, K, rows), L), mcard' = mcard,
         \A k \in Kinds : IsOpen(stream, k) => Added(K, rows)[k] \in TripRows
  PROVE  TripRowsWellFormed' /\ LinedNext(Added(K, rows))
<1> DEFINE s == Printed(stream, K, rows)
           w == Added(K, rows)
<1>1. PICK bad \in SUBSET Kinds :
        /\ file' = Landed(s, L \ bad)
        /\ stream' = [k \in Kinds |-> IF k \in L THEN Closed ELSE s[k]]
  BY DEF Close
<1>2. /\ file \in Disk /\ s \in [Kinds -> Stream] /\ Backed(s)
      /\ Lined(s, w) /\ TripRowsWellFormed
      /\ \A k \in Kinds : IsOpen(s, k) => s[k].buf \in Seq(Row) /\ w[k] \in TripRows
  BY PrintedLines
<1> HIDE DEF s, w
<1>3. /\ \A k \in Kinds, c \in Cards, i \in Ids : file'[k][c][i] \in TripRows \cup {Absent}
      /\ \A k \in Kinds : IsOpen(s, k) =>
           file'[k][mcard][s[k].id] = IF k \in L \ bad THEN Written(s, k)
                                      ELSE file[k][mcard][s[k].id]
  BY <1>1, <1>2, LandRows
<1>4. ASSUME NEW k \in Kinds, IsOpen(stream', k)
      PROVE  IF stream'[k].err THEN stream'[k].buf = <<>>
             ELSE file'[k][mcard'][stream'[k].id] \o stream'[k].buf = w[k]
  <2>1. k \notin L /\ stream'[k] = s[k]
    BY <1>1, <1>4, ClosedType DEF IsOpen
  <2> QED
    BY <1>2, <1>3, <1>4, <2>1 DEF IsOpen, Lined, Written
<1> QED
  BY <1>3, <1>4 DEF TripRowsWellFormed, LinedNext, w

-----------------------------------------------------------------------------
(* What each action does to the rows. *)

\* Which sessions run a trip, after a step.
FlagsNext ==
  /\ pc' \in {"rows", "tripSave"} => s_trip_active'
  /\ pc' \in {"tripForget", "endSnap", "endRaw"} => ~s_trip_active'
  /\ caller' = "tripEnd" => ~s_trip_active'

\* The invariant after a step, from the lines it leaves.
LEMMA RowsNext ==
  ASSUME TripRowsWellFormed', FlagsNext, NEW w, LinedNext(w),
         \A k \in Kinds : IsOpen(stream', k) => w[k] = Expected'
  PROVE  RowsInv'
BY DEF RowsInv, FlagsNext, LinedNext, Lined, Written, Same, IsOpen

\* A step that leaves the files and streams alone.
LEMMA RowsQuiet ==
  ASSUME RowsInv, FlagsNext, UNCHANGED <<file, stream, mcard>>,
         \A k \in Kinds : IsOpen(stream, k) => Expected' = Expected
  PROVE  RowsInv'
BY DEF RowsInv, FlagsNext, Lined, Written, Same, IsOpen, TripRowsWellFormed

\* A step after which nothing is open, and which writes nothing.
LEMMA RowsClosed ==
  ASSUME RowsInv, FlagsNext, UNCHANGED file, \A k \in Kinds : ~IsOpen(stream', k)
  PROVE  RowsInv'
BY DEF RowsInv, FlagsNext, Lined, IsOpen, TripRowsWellFormed

\* Without a raw log there is no snapshot file.
LEMMA NothingOpen ==
  ASSUME Inv, s_file = 0
  PROVE  \A k \in Kinds : ~IsOpen(stream, k)
BY DEF Inv, SessionPair, s_file, s_snap, IsOpen, Kinds

LEMMA BootRows ==
  Inv /\ RowsInv /\ (PowerOn \/ MountCard \/ ClaimLogId \/ OpenLogFails) => RowsInv'
<1> SUFFICES ASSUME Inv, RowsInv, PowerOn \/ MountCard \/ ClaimLogId \/ OpenLogFails
             PROVE  RowsInv'
  OBVIOUS
<1>1. s_file = 0
  BY DEF Inv, ControlInv, PowerOn, MountCard, ClaimLogId, OpenLogFails
<1>2. UNCHANGED <<file, stream>>
  BY DEF PowerOn, MountCard, ClaimLogId, OpenLogFails, session
<1>3. FlagsNext
  <2>1. CASE PowerOn
    BY <2>1 DEF PowerOn, Goto, FlagsNext
  <2>2. CASE MountCard
    BY <2>2 DEF MountCard, Goto, FlagsNext
  <2>3. CASE ClaimLogId
    BY <2>3 DEF ClaimLogId, FlagsNext, trip, RowsInv
  <2>4. CASE OpenLogFails
    BY <2>4 DEF OpenLogFails, GiveUp, RetryOrLoop, Goto, FlagsNext
  <2> QED
    BY <2>1, <2>2, <2>3, <2>4
<1> QED
  BY <1>1, <1>2, <1>3, NothingOpen, RowsClosed DEF IsOpen

\* Retention deletes files, none of them open.
LEMMA ReclaimRows ==
  Inv /\ RowsInv /\ (ReclaimUnlink \/ ReclaimUnlinkSnap) => RowsInv'
<1> SUFFICES ASSUME Inv, RowsInv, ReclaimUnlink \/ ReclaimUnlinkSnap PROVE RowsInv'
  OBVIOUS
<1>1. /\ pc \in {"reclaim", "reclaimSnap"} /\ pc' \in {"reclaim", "reclaimSnap"}
      /\ UNCHANGED <<stream, mcard, caller, s_trip_active>>
  BY DEF ReclaimUnlink, ReclaimUnlinkSnap, slot, session, trip
<1>2. FlagsNext /\ Expected' = Expected
  BY <1>1 DEF FlagsNext, Expected, RowsInv
<1>3. PICK v \in Ids \ {s_log_id} :
        \A k \in Kinds, c \in Cards, i \in Ids :
          \/ file'[k][c][i] = file[k][c][i]
          \/ i = v /\ file'[k][c][i] = Absent
  <2>1. file \in Disk
    BY DEF Inv, TypeOK
  <2>2. CASE ReclaimUnlink
    <3>1. victim' \in Ids \ {s_log_id} /\ mcard \in Cards
      BY <2>2, IoType DEF ReclaimUnlink, Candidates, Inv
    <3> QED
      BY <2>1, <2>2, <3>1 DEF ReclaimUnlink, Disk, Kinds
  <2>3. CASE ReclaimUnlinkSnap
    <3>1. victim \in Ids \ {s_log_id}
      BY <2>3 DEF ReclaimUnlinkSnap, Inv, ControlInv
    <3>2. CASE IoWorks /\ file' = [file EXCEPT !["snap"][mcard][victim] = Absent]
      <4>1. mcard \in Cards
        BY <3>2, IoType DEF Inv
      <4> QED
        BY <2>1, <3>1, <3>2, <4>1 DEF Disk, Kinds
    <3>3. CASE file' = file
      BY <3>1, <3>3
    <3> QED
      BY <2>3, <3>2, <3>3 DEF ReclaimUnlinkSnap
  <2> QED
    BY <2>2, <2>3
<1>4. TripRowsWellFormed'
  BY <1>3 DEF RowsInv, TripRowsWellFormed
<1>5. \A k \in Kinds : IsOpen(stream, k) => stream[k].id = s_log_id
  BY DEF Inv, SessionPair, s_file, s_snap, IsOpen, Kinds
<1>6. LinedNext(Same(Expected))
  <2> SUFFICES ASSUME NEW k \in Kinds, IsOpen(stream, k)
               PROVE  file'[k][mcard][stream[k].id] = file[k][mcard][stream[k].id]
    BY <1>1 DEF LinedNext, RowsInv, Lined, Written, IsOpen
  <2>1. stream[k].id = s_log_id /\ s_log_id \in Ids /\ mcard \in Cards
    BY <1>5, OpenContent DEF Inv, TypeOK, OpenFilesExist, Backed
  <2> QED
    BY <1>3, <2>1
<1> QED
  BY <1>2, <1>4, <1>6, RowsNext DEF Same

\* The raw log is opened empty.
LEMMA OpenLogRows == Inv /\ RowsInv /\ OpenLog => RowsInv'
<1> SUFFICES ASSUME Inv, RowsInv, OpenLog PROVE RowsInv'
  OBVIOUS
<1>1. mcard \in Cards /\ s_log_id \in Ids /\ s_file = 0
  BY IoType DEF OpenLog, Inv, ControlInv
<1>2. /\ file' = [file EXCEPT !["raw"][mcard][s_log_id] = <<>>]
      /\ stream' = [stream EXCEPT !["raw"] = [Closed EXCEPT !.id = s_log_id]]
      /\ pc' = "header" /\ UNCHANGED <<mcard, caller, s_trip_active>>
  BY DEF OpenLog, slot, trip
<1>3. file \in Disk /\ stream \in [Kinds -> Stream]
  BY DEF Inv, TypeOK
<1>4. TripRowsWellFormed'
  <2> SUFFICES ASSUME NEW k \in Kinds, NEW c \in Cards, NEW i \in Ids
               PROVE  file'[k][c][i] \in TripRows \cup {Absent}
    BY DEF TripRowsWellFormed
  <2>1. file'[k][c][i] \in {<<>>, file[k][c][i]}
    BY <1>1, <1>2, <1>3 DEF Disk, Kinds
  <2> QED
    BY <2>1, RowLists DEF RowsInv, TripRowsWellFormed
<1>5. LinedNext(Same(<<>>))
  <2>1. /\ stream'["raw"].id = s_log_id /\ stream'["raw"].buf = <<>>
        /\ stream'["snap"] = stream["snap"]
    BY <1>2, <1>3 DEF Closed, Kinds
  <2>2. ~IsOpen(stream', "snap")
    BY <1>1, <2>1, NothingOpen DEF IsOpen, Kinds
  <2>3. file'["raw"][mcard][s_log_id] = <<>>
    BY <1>1, <1>2, <1>3 DEF Disk, Kinds
  <2>4. <<>> \o <<>> = <<>>
    BY RowLists, EmptyContent
  <2> QED
    BY <1>2, <2>1, <2>2, <2>3, <2>4 DEF LinedNext, Same, Kinds
<1>6. FlagsNext /\ Expected' = <<>>
  BY <1>2 DEF FlagsNext, Expected, RowsInv
<1> QED
  BY <1>4, <1>5, <1>6, RowsNext DEF Same

\* Committed or closed, and with a session that made sense before.
LEMMA HeaderRows == Inv /\ RowsInv /\ CommitHeader => RowsInv'
<1> SUFFICES ASSUME Inv, RowsInv, CommitHeader PROVE RowsInv'
  OBVIOUS
<1>1. /\ pc = "header" /\ Expected = <<>> /\ ~IsOpen(stream, "snap")
      /\ UNCHANGED <<mcard, s_trip_active>>
  BY DEF CommitHeader, Expected, Inv, ControlInv, s_snap, IsOpen, slot
<1>2. CASE Commit(Printed(stream, {"raw"}, <<"header">>), TRUE) /\ Goto("openSnap", caller)
  <2>1. Header \in Seq(Row) /\ Header \in TripRows /\ <<>> \o Header = Header
    BY RowLists
  <2>2. \A k \in Kinds : IsOpen(stream, k) => Added({"raw"}, Header)[k] = Header
    BY <1>1, <2>1 DEF Added, Kinds
  <2>3. TripRowsWellFormed' /\ LinedNext(Added({"raw"}, Header))
    BY <1>1, <1>2, <2>1, <2>2, CommitRows DEF Header
  <2>4. \A k \in Kinds : IsOpen(stream', k) => IsOpen(stream, k)
    BY <1>2, <2>1, PrintCommit DEF IsOpen, Header
  <2>5. FlagsNext /\ Expected' = Header
    BY <1>1, <1>2 DEF FlagsNext, Expected, Goto, RowsInv
  <2> QED
    BY <2>2, <2>3, <2>4, <2>5, RowsNext
<1>3. CASE stream' = [stream EXCEPT !["raw"] = Closed] /\ GiveUp /\ UNCHANGED file
  <2>1. \A k \in Kinds : ~IsOpen(stream', k)
    BY <1>1, <1>3, ClosedType DEF Inv, TypeOK, IsOpen, Kinds
  <2>2. FlagsNext
    BY <1>3 DEF GiveUp, RetryOrLoop, Goto, FlagsNext
  <2> QED
    BY <1>3, <2>1, <2>2, RowsClosed
<1> QED
  BY <1>2, <1>3 DEF CommitHeader

\* The snapshot file is opened with its header, or broken, or not at all.
LEMMA OpenSnapRows == Inv /\ RowsInv /\ OpenSnap => RowsInv'
<1> SUFFICES ASSUME Inv, RowsInv, OpenSnap PROVE RowsInv'
  OBVIOUS
<1>1. /\ pc = "openSnap" /\ ~IsOpen(stream, "snap") /\ s_log_id \in Ids /\ mcard \in Cards
      /\ UNCHANGED <<mcard, s_trip_active>> /\ AfterOpen /\ Expected = Header
  BY DEF OpenSnap, Inv, ControlInv, OpenFilesExist, s_file, s_snap, IsOpen, Kinds, slot, Expected
<1>2. file \in Disk /\ stream \in [Kinds -> Stream]
  BY DEF Inv, TypeOK
<1>3. FlagsNext /\ Expected' = Header
  BY <1>1 DEF AfterOpen, FlagsNext, Expected, Goto, RowsInv
<1>4. CASE UNCHANGED <<file, stream>>
  BY <1>1, <1>3, <1>4, RowsQuiet
<1>5. CASE /\ file' = [file EXCEPT !["snap"][mcard][s_log_id] = <<>>]
           /\ \/ stream' = Printed([stream EXCEPT !["snap"] = [Closed EXCEPT !.id = s_log_id]],
                                   {"snap"}, <<"header">>)
              \/ stream' = [stream EXCEPT !["snap"] = [Closed EXCEPT !.id = s_log_id,
                                                                    !.err = TRUE]]
  <2>1. /\ file'["snap"][mcard][s_log_id] = <<>>
        /\ \A c \in Cards, i \in Ids : /\ file'["raw"][c][i] = file["raw"][c][i]
                                       /\ file'["snap"][c][i] \in {<<>>, file["snap"][c][i]}
    BY <1>1, <1>2, <1>5 DEF Disk, Kinds
  <2>2. TripRowsWellFormed'
    <3> SUFFICES ASSUME NEW k \in Kinds, NEW c \in Cards, NEW i \in Ids
                 PROVE  file'[k][c][i] \in TripRows \cup {Absent}
      BY DEF TripRowsWellFormed
    <3>1. file'[k][c][i] \in {<<>>, file[k][c][i]}
      BY <2>1 DEF Kinds
    <3> QED
      BY <3>1, RowLists DEF RowsInv, TripRowsWellFormed
  <2>3. /\ stream'["raw"] = stream["raw"] /\ stream'["snap"].id = s_log_id
        /\ IF stream'["snap"].err THEN stream'["snap"].buf = <<>>
                                  ELSE stream'["snap"].buf = <<>> \o Header
    <3>1. CASE stream' = [stream EXCEPT !["snap"] = [Closed EXCEPT !.id = s_log_id,
                                                                  !.err = TRUE]]
      BY <1>2, <3>1 DEF Closed, Kinds
    <3>2. CASE stream' = Printed([stream EXCEPT !["snap"] = [Closed EXCEPT !.id = s_log_id]],
                                 {"snap"}, <<"header">>)
      <4> DEFINE o == [Closed EXCEPT !.id = s_log_id]
                 s == [stream EXCEPT !["snap"] = o]
      <4>1. o.id = s_log_id /\ o.buf = <<>> /\ o.err = FALSE /\ s_log_id # 0 /\ o \in Stream
        <5>1. s_log_id \in 0..MaxId /\ s_log_id # 0
          BY <1>1, Limits DEF Ids
        <5>2. o \in Stream /\ o.id = s_log_id
          BY <5>1, OpenedType
        <5>3. o.buf = <<>> /\ o.err = FALSE
          BY DEF Closed
        <5> QED
          BY <5>1, <5>2, <5>3
      <4>2. s["snap"] = o /\ s["raw"] = stream["raw"]
        BY <1>2 DEF Kinds
      <4> HIDE DEF o, s
      <4>3. stream' = Printed(s, {"snap"}, <<"header">>)
        BY <3>2 DEF o, s
      <4>4. stream'["raw"] = s["raw"]
        BY <4>3 DEF Printed, Kinds
      <4>5. stream'["snap"] = [o EXCEPT !.buf = @ \o Header, !.dirty = TRUE]
        BY <4>1, <4>2, <4>3 DEF Printed, IsOpen, Kinds, Header
      <4> QED
        BY <4>1, <4>2, <4>4, <4>5 DEF Stream
    <3> QED
      BY <1>5, <3>1, <3>2
  <2>4. LinedNext(Same(Header))
    <3> SUFFICES ASSUME NEW k \in Kinds, IsOpen(stream', k)
                 PROVE  IF stream'[k].err THEN stream'[k].buf = <<>>
                        ELSE file'[k][mcard'][stream'[k].id] \o stream'[k].buf = Header
      BY DEF LinedNext, Same
    <3>1. CASE k = "raw"
      <4>1. IsOpen(stream, "raw") /\ stream["raw"].id \in Ids
        BY <1>2, <2>3, <3>1, OpenContent DEF IsOpen, Inv, OpenFilesExist, Backed
      <4> QED
        BY <1>1, <2>1, <2>3, <3>1, <4>1 DEF RowsInv, Lined, Written, Same
    <3>2. CASE k = "snap"
      <4>1. <<>> \o Header = Header
        BY RowLists
      <4> QED
        BY <1>1, <2>1, <2>3, <3>2, <4>1
    <3> QED
      BY <3>1, <3>2 DEF Kinds
  <2> QED
    BY <1>3, <2>2, <2>4, RowsNext DEF Same
<1> QED
  BY <1>4, <1>5 DEF OpenSnap

\* TRIP_START is printed into both files of a session that has none yet.
LEMMA StartRows == Inv /\ RowsInv /\ (WriteTripStartRows \/ TripBegin) => RowsInv'
<1> SUFFICES ASSUME Inv, RowsInv, WriteTripStartRows \/ TripBegin PROVE RowsInv'
  OBVIOUS
<1>1. PICK ok \in BOOLEAN : Commit(Printed(stream, Kinds, <<"TRIP_START">>), ok)
  BY DEF WriteTripStartRows, TripBegin
<1>2. /\ UNCHANGED mcard /\ Expected = Header /\ Expected' = Started /\ FlagsNext
  BY DEF WriteTripStartRows, TripBegin, Goto, slot, trip, Expected, FlagsNext, RowsInv
<1>3. <<"TRIP_START">> \in Seq(Row) /\ Started \in TripRows
  BY RowSeqs, RowLists DEF Row
<1>4. \A k \in Kinds : Added(Kinds, <<"TRIP_START">>)[k] = Started
  BY <1>2, RowLists DEF Added
<1>5. TripRowsWellFormed' /\ LinedNext(Added(Kinds, <<"TRIP_START">>))
  BY <1>1, <1>2, <1>3, <1>4, CommitRows
<1> QED
  BY <1>2, <1>4, <1>5, RowsNext

\* The flush pass prints other rows only.
LEMMA FlushRows ==
  ASSUME Inv, RowsInv, NEW busy \in BOOLEAN, FlushPass(busy)
  PROVE  RowsInv'
<1> DEFINE K == IF busy THEN Kinds ELSE {"snap"}
<1>1. PICK ok \in BOOLEAN : Commit(Printed(stream, K, <<>>), ok)
  BY DEF FlushPass
<1> HIDE DEF K
<1>2. /\ pc = "loop" /\ pc' \in {"loop", "reopen"} /\ caller' \in {"none", "abandon"}
      /\ UNCHANGED <<mcard, s_trip_active>>
  BY DEF FlushPass, Goto, slot, trip
<1>3. /\ FlagsNext /\ Expected' = Expected /\ Expected \in TripRows /\ Expected \in Seq(Row)
  BY <1>2, RowLists DEF FlagsNext, Expected
<1>4. <<>> \in Seq(Row) /\ \A k \in Kinds : Added(K, <<>>)[k] = Expected
  BY <1>3, RowLists DEF Added
<1>5. TripRowsWellFormed' /\ LinedNext(Added(K, <<>>))
  BY <1>1, <1>2, <1>3, <1>4, CommitRows
<1> QED
  BY <1>3, <1>4, <1>5, RowsNext

\* TRIP_END is the last row of each file of a session with a trip, which is closed.
LEMMA EndRows == Inv /\ RowsInv /\ (EndSnap \/ EndRaw) => RowsInv'
<1> SUFFICES ASSUME Inv, RowsInv, EndSnap \/ EndRaw PROVE RowsInv'
  OBVIOUS
<1>1. /\ <<"TRIP_END">> \in Seq(Row) /\ Started \in TripRows /\ Ended \in TripRows
      /\ Started \o <<"TRIP_END">> = Ended
  BY RowSeqs, RowLists DEF Row
<1>2. /\ Expected = Started /\ UNCHANGED <<mcard, s_trip_active>> /\ FlagsNext
  BY DEF EndSnap, EndRaw, Expected, slot, trip, Goto, FlagsNext, RowsInv
<1>3. \A K : \A k \in Kinds :
        Added(K, <<"TRIP_END">>)[k] = IF k \in K THEN Ended ELSE Started
  BY <1>1, <1>2 DEF Added
<1>4. CASE EndSnap
  <2>1. TripRowsWellFormed' /\ LinedNext(Added({"snap"}, <<"TRIP_END">>))
    BY <1>1, <1>2, <1>3, <1>4, CloseRows DEF EndSnap
  <2>2. \A k \in Kinds : IsOpen(stream', k) => k = "raw"
    BY <1>1, <1>4, PrintClose DEF EndSnap, IsOpen, Kinds
  <2>3. Expected' = Started
    BY <1>4 DEF EndSnap, Goto, Expected
  <2> QED
    BY <1>2, <1>3, <2>1, <2>2, <2>3, RowsNext
<1>5. CASE EndRaw
  <2>1. TripRowsWellFormed' /\ LinedNext(Added({"raw"}, <<"TRIP_END">>))
    BY <1>1, <1>2, <1>3, <1>5, CloseRows DEF EndRaw
  <2>2. ~IsOpen(stream, "snap")
    BY <1>5 DEF EndRaw, Inv, ControlInv, s_snap, IsOpen
  <2>3. \A k \in Kinds : ~IsOpen(stream', k)
    BY <1>1, <1>5, <2>2, PrintClose DEF EndRaw, IsOpen, Kinds
  <2> QED
    BY <1>2, <2>1, <2>3, RowsNext
<1> QED
  BY <1>4, <1>5

\* The files of an abandoned session are closed as they are.
LEMMA ReopenRows == Inv /\ RowsInv /\ ReopenLog => RowsInv'
<1> SUFFICES ASSUME Inv, RowsInv, ReopenLog PROVE RowsInv'
  OBVIOUS
<1>1. stream \in [Kinds -> Stream] /\ Backed(stream) /\ file \in Disk /\ TypeOK
  BY DEF Inv, TypeOK, OpenFilesExist, Backed
<1>2. Expected \in TripRows /\ FlagsNext
  BY RowLists DEF Expected, ReopenLog, Goto, FlagsNext, trip, RowsInv
<1>3. PICK bad \in SUBSET Kinds : file' = Landed(stream, Kinds \ bad)
  BY DEF ReopenLog, Close
<1>4. Lined(stream, Same(Expected)) /\ TripRowsWellFormed
      /\ \A k \in Kinds : Same(Expected)[k] \in TripRows
  BY <1>2 DEF RowsInv, Same
<1>5. TripRowsWellFormed'
  BY <1>1, <1>3, <1>4, LandRows DEF TripRowsWellFormed
<1>6. \A k \in Kinds : ~IsOpen(stream', k)
  BY <1>1, CloseType DEF ReopenLog, IsOpen
<1> QED
  BY <1>2, <1>5, <1>6, RowsNext DEF LinedNext

\* The card is remounted, or the power goes: nothing stays open.
LEMMA LostRows == Inv /\ RowsInv /\ (RemountCard \/ PowerCut) => RowsInv'
<1> SUFFICES ASSUME Inv, RowsInv, RemountCard \/ PowerCut PROVE RowsInv'
  OBVIOUS
<1>1. UNCHANGED file /\ \A k \in Kinds : ~IsOpen(stream', k)
  BY ClosedType DEF RemountCard, PowerCut, IsOpen
<1>2. FlagsNext
  BY DEF RemountCard, RetryOrLoop, PowerCut, Goto, FlagsNext
<1> QED
  BY <1>1, <1>2, RowsClosed

\* The other steps touch neither files nor streams.
LEMMA OtherRows ==
  Inv /\ RowsInv /\ (ReclaimDone \/ TripSave \/ TripForget \/ HandleTripStart \/ HandleTripEnd
                       \/ SaveTripPeriodically \/ SpaceCheck \/ StatusPass \/ PullCard
                       \/ InsertCard \/ SwapCardOff \/ ResetNvs \/ UNCHANGED vars)
    => RowsInv'
<1> SUFFICES ASSUME Inv, RowsInv,
                    ReclaimDone \/ TripSave \/ TripForget \/ HandleTripStart \/ HandleTripEnd
                      \/ SaveTripPeriodically \/ SpaceCheck \/ StatusPass \/ PullCard
                      \/ InsertCard \/ SwapCardOff \/ ResetNvs \/ UNCHANGED vars
             PROVE  RowsInv'
  OBVIOUS
<1>1. UNCHANGED <<file, stream, mcard>>
  BY DEF ReclaimDone, TripSave, TripForget, HandleTripStart, HandleTripEnd,
         SaveTripPeriodically, SpaceCheck, StatusPass, PullCard, InsertCard, SwapCardOff,
         ResetNvs, vars, slot, session
<1>2. FlagsNext /\ ((s_file # 0) => Expected' = Expected)
  <2>1. CASE ReclaimDone
    BY <2>1 DEF ReclaimDone, Inv, ControlInv, Goto, FlagsNext, Expected, RowsInv, trip
  <2>2. CASE TripSave \/ TripForget
    BY <2>2 DEF TripSave, TripForget, Goto, FlagsNext, Expected, RowsInv, trip
  <2>3. CASE HandleTripStart
    BY <2>3 DEF HandleTripStart, Goto, FlagsNext, Expected, RowsInv
  <2>4. CASE HandleTripEnd
    BY <2>4 DEF HandleTripEnd, Goto, FlagsNext, Expected, RowsInv
  <2>5. CASE SpaceCheck \/ StatusPass
    BY <2>5 DEF SpaceCheck, StatusPass, Goto, FlagsNext, Expected, RowsInv, trip
  <2>6. CASE SaveTripPeriodically \/ PullCard \/ InsertCard \/ SwapCardOff \/ ResetNvs
               \/ UNCHANGED vars
    BY <2>6 DEF SaveTripPeriodically, PullCard, InsertCard, SwapCardOff, ResetNvs, vars,
                control, trip, FlagsNext, Expected, RowsInv
  <2> QED
    BY <2>1, <2>2, <2>3, <2>4, <2>5, <2>6
<1>3. \A k \in Kinds : IsOpen(stream, k) => s_file # 0
  BY NothingOpen
<1> QED
  BY <1>1, <1>2, <1>3, RowsQuiet

LEMMA StepRows == Inv /\ RowsInv /\ [Next]_vars => RowsInv'
BY BootRows, ReclaimRows, OpenLogRows, HeaderRows, OpenSnapRows, StartRows, FlushRows,
   EndRows, ReopenRows, LostRows, OtherRows
DEF Next, Handler, Loop, Surroundings

LEMMA InitRows == Init => RowsInv
<1> SUFFICES ASSUME Init PROVE RowsInv
  OBVIOUS
<1>1. TripRowsWellFormed
  BY DEF Init, TripRowsWellFormed, TripRows, OldContent
<1>2. Lined(stream, Same(Expected))
  BY ClosedType DEF Init, Lined, IsOpen
<1> QED
  BY <1>1, <1>2 DEF Init, RowsInv

\* The trip markers of every file make sense: TripRowsWellFormed, whatever fails.
THEOREM TripRowsWellFormedAlways == Spec => []TripRowsWellFormed
<1>1. RowsInv => TripRowsWellFormed
  BY DEF RowsInv
<1> QED
  BY InitInv, StepInv, InitRows, StepRows, <1>1, PTL DEF Spec

\* A trip that runs is marked in every file that is being written.
THEOREM RunningTripMarkedAlways == Spec => []RunningTripMarked
<1>1. RowsInv => RunningTripMarked
  BY DEF RowsInv, RunningTripMarked, Lined, Written, Same, Expected, Started
<1> QED
  BY InitInv, StepInv, InitRows, StepRows, <1>1, PTL DEF Spec

=============================================================================
