--------------------------- MODULE CanLoggerProofs ---------------------------
(***************************************************************************)
(* Proofs about CanLogger for every number of cards and log numbers, every *)
(* retry limit and every budget of faults.                                 *)
(***************************************************************************)
EXTENDS CanLogger, TLAPS

-----------------------------------------------------------------------------
(* Facts about the operators. *)

\* Nth stays within the log numbers.
LEMMA NthType ==
  ASSUME NEW id0 \in Ids, NEW k \in 0..(MaxId - 1)
  PROVE  Nth(id0, k) \in Ids
BY Limits DEF Nth, Ids

\* NextId stays within the log numbers.
LEMMA NextIdType ==
  ASSUME NEW i \in Ids
  PROVE  NextId(i) \in Ids
BY Limits DEF NextId, Ids

\* Spending a fault keeps the budgets natural numbers.
LEMMA SpendType ==
  ASSUME left \in [FaultKinds -> Nat], NEW f \in FaultKinds, Spend(f)
  PROVE  left' \in [FaultKinds -> Nat]
BY DEF Spend

\* The streams that may be open have a file to write to.
Backed(s) ==
  \A k \in Kinds : IsOpen(s, k) => mcard \in Cards /\ file[k][mcard][s[k].id] # Absent

\* Printing keeps the type of the streams and the file each belongs to.
LEMMA PrintType ==
  ASSUME NEW s \in [Kinds -> Stream], NEW K, NEW rows \in Seq(Row)
  PROVE  /\ Printed(s, K, rows) \in [Kinds -> Stream]
         /\ \A k \in Kinds : Printed(s, K, rows)[k].id = s[k].id
         /\ Backed(s) => Backed(Printed(s, K, rows))
<1>1. \A k \in Kinds : s[k].buf \o rows \in Seq(Row)
  BY DEF Stream
<1>2. Printed(s, K, rows) \in [Kinds -> Stream]
  BY <1>1 DEF Printed, Stream
<1>3. \A k \in Kinds : Printed(s, K, rows)[k].id = s[k].id
  BY DEF Printed, Stream
<1> QED
  BY <1>2, <1>3 DEF Backed, IsOpen

\* Writing out streams changes nothing but the files they are open on, and
\* neither creates nor removes one.
LEMMA LandedType ==
  ASSUME file \in Disk, NEW s \in [Kinds -> Stream], NEW K, Backed(s)
  PROVE  /\ Landed(s, K) \in Disk
         /\ \A k \in Kinds, c \in Cards, i \in Ids :
              /\ Landed(s, K)[k][c][i] = Absent <=> file[k][c][i] = Absent
              /\ i # s[k].id => Landed(s, K)[k][c][i] = file[k][c][i]
              /\ Landed(s, K)[k][c][i] = <<>> => ~Begun(file[k][c][i])
<1>1. ASSUME NEW k \in Kinds, NEW c \in Cards, NEW i \in Ids, c = mcard, i = s[k].id
      PROVE  file[k][c][i] \o s[k].buf \in Seq(Row) /\ file[k][c][i] \in Seq(Row)
  <2>1. IsOpen(s, k)
    BY <1>1, Limits DEF IsOpen, Ids
  <2>2. file[k][c][i] \in Seq(Row)
    BY <1>1, <2>1 DEF Backed, Disk, Content
  <2> QED
    BY <2>2 DEF Stream
<1>2. \A k \in Kinds, c \in Cards, i \in Ids : file[k][c][i] \in Content
  BY DEF Disk
<1>3. Landed(s, K) \in Disk
  BY <1>1, <1>2 DEF Landed, Disk, Content
<1>4. ASSUME NEW k \in Kinds, NEW c \in Cards, NEW i \in Ids
      PROVE  /\ Landed(s, K)[k][c][i] = Absent <=> file[k][c][i] = Absent
             /\ i # s[k].id => Landed(s, K)[k][c][i] = file[k][c][i]
             /\ Landed(s, K)[k][c][i] = <<>> => ~Begun(file[k][c][i])
  <2>1. Landed(s, K)[k][c][i] = IF k \in K /\ c = mcard /\ i = s[k].id
                                THEN file[k][c][i] \o s[k].buf ELSE file[k][c][i]
    BY DEF Landed
  <2>2. CASE k \in K /\ c = mcard /\ i = s[k].id
    <3>1. /\ file[k][c][i] \in Seq(Row) /\ s[k].buf \in Seq(Row)
          /\ file[k][c][i] \o s[k].buf \in Seq(Row)
      BY <1>1, <2>2 DEF Stream
    <3>2. file[k][c][i] \o s[k].buf = <<>> => file[k][c][i] = <<>>
      BY <3>1
    <3> QED
      BY <2>1, <2>2, <3>1, <3>2, ModelValues DEF Begun
  <2>3. CASE ~(k \in K /\ c = mcard /\ i = s[k].id)
    BY <2>1, <2>3 DEF Begun
  <2> QED
    BY <2>2, <2>3
<1> QED
  BY <1>3, <1>4

\* Files only grow, and only those the streams s are open on; none is created or
\* removed.
Grown(s) ==
  \A k \in Kinds, c \in Cards, i \in Ids :
    /\ file'[k][c][i] = Absent <=> file[k][c][i] = Absent
    /\ i # s[k].id => file'[k][c][i] = file[k][c][i]
    /\ file'[k][c][i] = <<>> => ~Begun(file[k][c][i])

\* commit() keeps types, the streams' numbers, and which files exist.
LEMMA CommitType ==
  ASSUME TypeOK, NEW s \in [Kinds -> Stream], NEW ok, Backed(s), Commit(s, ok)
  PROVE  /\ file' \in Disk /\ Grown(s)
         /\ stream' \in [Kinds -> Stream]
         /\ \A k \in Kinds : stream'[k].id = s[k].id
         /\ left' \in [FaultKinds -> Nat]
<1>1. PICK bad \in SUBSET Kinds, latch \in SUBSET Kinds :
        /\ FailingStreams(s, bad)
        /\ file' = Landed(s, Kinds \ bad)
        /\ stream' = Synced(s, bad, latch)
  BY DEF Commit
<1>2. file' \in Disk /\ Grown(s)
  BY <1>1, LandedType DEF TypeOK, Grown
<1>3. stream' \in [Kinds -> Stream] /\ \A k \in Kinds : stream'[k].id = s[k].id
  <2> SUFFICES ASSUME NEW k \in Kinds
               PROVE  Synced(s, bad, latch)[k] \in Stream
                      /\ Synced(s, bad, latch)[k].id = s[k].id
    BY <1>1 DEF Synced
  <2> DEFINE e == s[k].err \/ k \in latch
  <2>1. s[k] \in Stream /\ e \in BOOLEAN /\ FALSE \in BOOLEAN
    OBVIOUS
  <2>3. <<>> \in Seq(Row)
    OBVIOUS
  <2> HIDE DEF e
  <2>2. [s[k] EXCEPT !.buf = <<>>, !.dirty = FALSE, !.err = e] \in Stream
        /\ [s[k] EXCEPT !.buf = <<>>, !.dirty = FALSE, !.err = e].id = s[k].id
    BY <2>1, <2>3 DEF Stream
  <2> QED
    BY <2>1, <2>2 DEF Synced, e
<1>4. left' \in [FaultKinds -> Nat]
  BY <1>1, SpendType DEF FailingStreams, TypeOK, FaultKinds
<1> QED
  BY <1>2, <1>3, <1>4

\* fclose keeps types and which files exist.
LEMMA CloseType ==
  ASSUME TypeOK, NEW s \in [Kinds -> Stream], NEW K, Backed(s), Close(s, K)
  PROVE  /\ file' \in Disk /\ Grown(s)
         /\ stream' \in [Kinds -> Stream]
         /\ \A k \in Kinds : stream'[k].id = IF k \in K THEN 0 ELSE s[k].id
         /\ left' \in [FaultKinds -> Nat]
<1>1. PICK bad \in SUBSET Kinds :
        /\ FailingStreams(s, bad)
        /\ file' = Landed(s, K \ bad)
        /\ stream' = [k \in Kinds |-> IF k \in K THEN Closed ELSE s[k]]
  BY DEF Close
<1>2. file' \in Disk /\ Grown(s)
  BY <1>1, LandedType DEF TypeOK, Grown
<1>3. Closed \in Stream /\ Closed.id = 0
  BY Limits DEF Closed, Stream
<1>4. left' \in [FaultKinds -> Nat]
  BY <1>1, SpendType DEF FailingStreams, TypeOK, FaultKinds
<1> QED
  BY <1>1, <1>2, <1>3, <1>4

-----------------------------------------------------------------------------
(* The control invariant: what is open, and which number it has, at each     *)
(* control point of the task.                                                *)

ControlInv ==
  /\ pc \notin {"off", "mount", "claim"} => s_log_id \in Ids
  /\ pc \in {"off", "mount", "claim", "open", "remount"} => s_file = 0
  /\ pc \in {"reclaim", "reclaimSnap"} /\ caller # "space" => s_file = 0
  /\ pc \in {"claim", "reopen"} => caller # "space"
  /\ pc \in {"header", "openSnap"} => s_file # 0 /\ s_snap = 0
  /\ pc = "endRaw" => s_snap = 0
  /\ pc = "reclaimSnap" => victim # s_log_id /\ victim \in Ids

Inv == TypeOK /\ ControlInv /\ SessionPair /\ OpenFilesExist

\* An access to the card keeps the budgets natural numbers, and one that works
\* needs a mounted card.
LEMMA IoType ==
  ASSUME TypeOK, IoWorks \/ IoFails
  PROVE  left' \in [FaultKinds -> Nat] /\ (IoWorks => mcard \in Cards)
BY SpendType DEF TypeOK, IoWorks, IoFails, Writable, FaultKinds

LEMMA ClosedType == Closed \in Stream /\ Closed.id = 0 /\ ~Closed.err
<1>1. <<>> \in Seq(Row) /\ 0 \in 0..MaxId
  BY Limits
<1> QED
  BY <1>1 DEF Closed, Stream

\* The streams that open_log and open_snap make.
LEMMA OpenedType ==
  ASSUME NEW id \in 0..MaxId
  PROVE  /\ [Closed EXCEPT !.id = id] \in Stream
         /\ [Closed EXCEPT !.id = id].id = id
         /\ [Closed EXCEPT !.id = id, !.err = TRUE] \in Stream
         /\ [Closed EXCEPT !.id = id, !.err = TRUE].id = id
<1>1. <<>> \in Seq(Row) /\ TRUE \in BOOLEAN /\ FALSE \in BOOLEAN
  OBVIOUS
<1> QED
  BY <1>1 DEF Closed, Stream

\* The rows the task prints.
LEMMA RowSeqs ==
  \A row \in Row : <<row>> \in Seq(Row)
OBVIOUS

\* Printing and then committing keeps types, the streams' numbers, and which
\* files exist.
LEMMA PrintCommit ==
  ASSUME Inv, NEW K, NEW rows \in Seq(Row), NEW ok, Commit(Printed(stream, K, rows), ok)
  PROVE  /\ file' \in Disk /\ Grown(stream)
         /\ stream' \in [Kinds -> Stream]
         /\ \A k \in Kinds : stream'[k].id = stream[k].id
         /\ left' \in [FaultKinds -> Nat]
<1> DEFINE s == Printed(stream, K, rows)
<1>1. s \in [Kinds -> Stream] /\ Backed(s) /\ \A k \in Kinds : s[k].id = stream[k].id
  BY PrintType DEF Inv, TypeOK, OpenFilesExist, Backed
<1> HIDE DEF s
<1>2. TypeOK /\ Commit(s, ok)
  BY DEF s, Inv
<1> QED
  BY <1>1, <1>2, CommitType DEF Grown

\* The same of printing and then closing.
LEMMA PrintClose ==
  ASSUME Inv, NEW K, NEW L, NEW rows \in Seq(Row), Close(Printed(stream, K, rows), L)
  PROVE  /\ file' \in Disk /\ Grown(stream)
         /\ stream' \in [Kinds -> Stream]
         /\ \A k \in Kinds : stream'[k].id = IF k \in L THEN 0 ELSE stream[k].id
         /\ left' \in [FaultKinds -> Nat]
<1> DEFINE s == Printed(stream, K, rows)
<1>1. s \in [Kinds -> Stream] /\ Backed(s) /\ \A k \in Kinds : s[k].id = stream[k].id
  BY PrintType DEF Inv, TypeOK, OpenFilesExist, Backed
<1> HIDE DEF s
<1>2. TypeOK /\ Close(s, L)
  BY DEF s, Inv
<1> QED
  BY <1>1, <1>2, CloseType DEF Grown

\* An empty file is a file.
LEMMA EmptyContent == <<>> \in Content /\ <<>> # Absent
<1>1. <<>> \in Seq(Row)
  OBVIOUS
<1> QED
  BY <1>1, ModelValues DEF Content

LEMMA InitInv == Init => Inv
<1> SUFFICES ASSUME Init PROVE Inv
  OBVIOUS
<1>1. Closed \in Stream /\ Closed.id = 0
  BY ClosedType, Limits
<1>2. \A c \in Cards, i \in Ids : OldContent(c, i) \in Content
  BY DEF OldContent, Content, Row
<1>3. file \in Disk
  BY <1>2 DEF Init, Disk
<1>4. stream \in [Kinds -> Stream] /\ \A k \in Kinds : stream[k].id = 0
  BY <1>1 DEF Init
<1>5. TypeOK
  <2>1. nvsTrip \in BOOLEAN /\ mlive \in BOOLEAN /\ s_trip_active \in BOOLEAN /\ ~mlive
    BY DEF Init
  <2>2. left \in [FaultKinds -> Nat]
    BY Environment DEF Init
  <2> QED
    BY <1>3, <1>4, <2>1, <2>2, Limits DEF Init, TypeOK, ControlPoints, Callers
<1>6. ControlInv /\ SessionPair /\ OpenFilesExist
  BY <1>4 DEF Init, ControlInv, SessionPair, OpenFilesExist, IsOpen, s_file, s_snap, Kinds
<1> QED
  BY <1>5, <1>6 DEF Inv

LEMMA PowerOnInv == Inv /\ PowerOn => Inv'
<1> SUFFICES ASSUME Inv, PowerOn PROVE Inv'
  OBVIOUS
<1> USE DEF Inv, PowerOn
<1>1. TypeOK'
  BY SpendType, Limits DEF TypeOK, ControlPoints, Callers, FaultKinds, nvs, slot, control, session, trip, Goto
<1>2. ControlInv' /\ SessionPair' /\ OpenFilesExist'
  BY SpendType, Limits DEF ControlInv, SessionPair, OpenFilesExist, IsOpen, s_file, s_snap, nvs, slot, control, session, trip, Goto, Kinds
<1> QED
  BY <1>1, <1>2

LEMMA MountCardInv == Inv /\ MountCard => Inv'
<1> SUFFICES ASSUME Inv, MountCard PROVE Inv'
  OBVIOUS
<1> USE DEF Inv, MountCard
<1>1. TypeOK'
  BY SpendType, Limits DEF TypeOK, ControlPoints, Callers, FaultKinds, nvs, slot, control, session, trip, Goto
<1>2. ControlInv' /\ SessionPair' /\ OpenFilesExist'
  BY SpendType, Limits DEF ControlInv, SessionPair, OpenFilesExist, IsOpen, s_file, s_snap, nvs, slot, control, session, trip, Goto, Kinds
<1> QED
  BY <1>1, <1>2

LEMMA ReclaimDoneInv == Inv /\ ReclaimDone => Inv'
<1> SUFFICES ASSUME Inv, ReclaimDone PROVE Inv'
  OBVIOUS
<1> USE DEF Inv, ReclaimDone
<1>1. TypeOK'
  BY SpendType, Limits DEF TypeOK, ControlPoints, Callers, FaultKinds, nvs, slot, control, session, trip, Goto
<1>2. ControlInv' /\ SessionPair' /\ OpenFilesExist'
  BY SpendType, Limits DEF ControlInv, SessionPair, OpenFilesExist, IsOpen, s_file, s_snap, nvs, slot, control, session, trip, Goto, Kinds
<1> QED
  BY <1>1, <1>2

LEMMA OpenLogFailsInv == Inv /\ OpenLogFails => Inv'
<1> SUFFICES ASSUME Inv, OpenLogFails PROVE Inv'
  OBVIOUS
<1> USE DEF Inv, OpenLogFails
<1>1. TypeOK'
  BY IoType, Limits DEF TypeOK, ControlPoints, Callers, FaultKinds, nvs, slot, control, session, trip, Goto, GiveUp, RetryOrLoop
<1>2. ControlInv' /\ SessionPair' /\ OpenFilesExist'
  BY IoType, Limits DEF ControlInv, SessionPair, OpenFilesExist, IsOpen, s_file, s_snap, nvs, slot, control, session, trip, Goto, Kinds, GiveUp, RetryOrLoop
<1> QED
  BY <1>1, <1>2

LEMMA RemountCardInv == Inv /\ RemountCard => Inv'
<1> SUFFICES ASSUME Inv, RemountCard PROVE Inv'
  OBVIOUS
<1> USE DEF Inv, RemountCard
<1>3. left' \in [FaultKinds -> Nat]
  BY SpendType DEF TypeOK, FaultKinds
<1>5. stream' \in [Kinds -> Stream] /\ \A k \in Kinds : stream'[k].id = 0
  BY ClosedType
<1>6. mlive' \in BOOLEAN /\ (mlive' => mcard' \in Cards) /\ mcard' \in Cards \cup {NoCard}
  BY DEF TypeOK
<1>8. TypeOK'
  BY <1>3, <1>5, <1>6 DEF TypeOK, ControlPoints, Callers, nvs, slot, control, session, trip, Goto, RetryOrLoop
<1>9. ControlInv' /\ SessionPair' /\ OpenFilesExist'
  BY <1>3, <1>5, <1>6
  DEF ControlInv, SessionPair, OpenFilesExist, IsOpen, s_file, s_snap, nvs, slot,
     control, session, trip, Goto, Kinds, RetryOrLoop
<1> QED
  BY <1>8, <1>9

LEMMA HandleTripStartInv == Inv /\ HandleTripStart => Inv'
<1> SUFFICES ASSUME Inv, HandleTripStart PROVE Inv'
  OBVIOUS
<1> USE DEF Inv, HandleTripStart
<1>1. TypeOK'
  BY SpendType, Limits DEF TypeOK, ControlPoints, Callers, FaultKinds, nvs, slot, control, session, trip, Goto
<1>2. ControlInv' /\ SessionPair' /\ OpenFilesExist'
  BY SpendType, Limits DEF ControlInv, SessionPair, OpenFilesExist, IsOpen, s_file, s_snap, nvs, slot, control, session, trip, Goto, Kinds
<1> QED
  BY <1>1, <1>2

LEMMA TripSaveInv == Inv /\ TripSave => Inv'
<1> SUFFICES ASSUME Inv, TripSave PROVE Inv'
  OBVIOUS
<1> USE DEF Inv, TripSave
<1>1. TypeOK'
  BY SpendType, Limits DEF TypeOK, ControlPoints, Callers, FaultKinds, nvs, slot, control, session, trip, Goto
<1>2. ControlInv' /\ SessionPair' /\ OpenFilesExist'
  BY SpendType, Limits DEF ControlInv, SessionPair, OpenFilesExist, IsOpen, s_file, s_snap, nvs, slot, control, session, trip, Goto, Kinds
<1> QED
  BY <1>1, <1>2

LEMMA HandleTripEndInv == Inv /\ HandleTripEnd => Inv'
<1> SUFFICES ASSUME Inv, HandleTripEnd PROVE Inv'
  OBVIOUS
<1> USE DEF Inv, HandleTripEnd
<1>1. TypeOK'
  BY SpendType, Limits DEF TypeOK, ControlPoints, Callers, FaultKinds, nvs, slot, control, session, trip, Goto
<1>2. ControlInv' /\ SessionPair' /\ OpenFilesExist'
  BY SpendType, Limits DEF ControlInv, SessionPair, OpenFilesExist, IsOpen, s_file, s_snap, nvs, slot, control, session, trip, Goto, Kinds
<1> QED
  BY <1>1, <1>2

LEMMA TripForgetInv == Inv /\ TripForget => Inv'
<1> SUFFICES ASSUME Inv, TripForget PROVE Inv'
  OBVIOUS
<1> USE DEF Inv, TripForget
<1>1. TypeOK'
  BY SpendType, Limits DEF TypeOK, ControlPoints, Callers, FaultKinds, nvs, slot, control, session, trip, Goto
<1>2. ControlInv' /\ SessionPair' /\ OpenFilesExist'
  BY SpendType, Limits DEF ControlInv, SessionPair, OpenFilesExist, IsOpen, s_file, s_snap, nvs, slot, control, session, trip, Goto, Kinds
<1> QED
  BY <1>1, <1>2

LEMMA SaveTripPeriodicallyInv == Inv /\ SaveTripPeriodically => Inv'
<1> SUFFICES ASSUME Inv, SaveTripPeriodically PROVE Inv'
  OBVIOUS
<1> USE DEF Inv, SaveTripPeriodically
<1>1. TypeOK'
  BY SpendType, Limits DEF TypeOK, ControlPoints, Callers, FaultKinds, nvs, slot, control, session, trip, Goto
<1>2. ControlInv' /\ SessionPair' /\ OpenFilesExist'
  BY SpendType, Limits DEF ControlInv, SessionPair, OpenFilesExist, IsOpen, s_file, s_snap, nvs, slot, control, session, trip, Goto, Kinds
<1> QED
  BY <1>1, <1>2

LEMMA SpaceCheckInv == Inv /\ SpaceCheck => Inv'
<1> SUFFICES ASSUME Inv, SpaceCheck PROVE Inv'
  OBVIOUS
<1> USE DEF Inv, SpaceCheck
<1>1. TypeOK'
  BY SpendType, Limits DEF TypeOK, ControlPoints, Callers, FaultKinds, nvs, slot, control, session, trip, Goto
<1>2. ControlInv' /\ SessionPair' /\ OpenFilesExist'
  BY SpendType, Limits DEF ControlInv, SessionPair, OpenFilesExist, IsOpen, s_file, s_snap, nvs, slot, control, session, trip, Goto, Kinds
<1> QED
  BY <1>1, <1>2

LEMMA StatusPassInv == Inv /\ StatusPass => Inv'
<1> SUFFICES ASSUME Inv, StatusPass PROVE Inv'
  OBVIOUS
<1> USE DEF Inv, StatusPass
<1>1. TypeOK'
  BY SpendType, Limits DEF TypeOK, ControlPoints, Callers, FaultKinds, nvs, slot, control, session, trip, Goto
<1>2. ControlInv' /\ SessionPair' /\ OpenFilesExist'
  BY SpendType, Limits DEF ControlInv, SessionPair, OpenFilesExist, IsOpen, s_file, s_snap, nvs, slot, control, session, trip, Goto, Kinds
<1> QED
  BY <1>1, <1>2

LEMMA PowerCutInv == Inv /\ PowerCut => Inv'
<1> SUFFICES ASSUME Inv, PowerCut PROVE Inv'
  OBVIOUS
<1> USE DEF Inv, PowerCut
<1>3. left' \in [FaultKinds -> Nat]
  BY SpendType DEF TypeOK, FaultKinds
<1>4. mlive' = FALSE /\ mlive' \in BOOLEAN
  OBVIOUS
<1>5. stream' \in [Kinds -> Stream] /\ \A k \in Kinds : stream'[k].id = 0
  BY ClosedType, Limits
<1>6. s_trip_active' = FALSE /\ s_trip_active' \in BOOLEAN
  OBVIOUS
<1>8. TypeOK'
  BY <1>3, <1>4, <1>5, <1>6, Limits DEF TypeOK, ControlPoints, Callers, nvs, slot, control, session, trip, Goto
<1>9. ControlInv' /\ SessionPair' /\ OpenFilesExist'
  BY <1>3, <1>4, <1>5, <1>6, Limits
  DEF ControlInv, SessionPair, OpenFilesExist, IsOpen, s_file, s_snap, nvs, slot,
     control, session, trip, Goto, Kinds
<1> QED
  BY <1>8, <1>9

LEMMA PullCardInv == Inv /\ PullCard => Inv'
<1> SUFFICES ASSUME Inv, PullCard PROVE Inv'
  OBVIOUS
<1> USE DEF Inv, PullCard
<1>3. left' \in [FaultKinds -> Nat]
  BY SpendType DEF TypeOK, FaultKinds
<1>4. mlive' = FALSE /\ mlive' \in BOOLEAN
  OBVIOUS
<1>8. TypeOK'
  BY <1>3, <1>4 DEF TypeOK, ControlPoints, Callers, nvs, slot, control, session, trip, Goto
<1>9. ControlInv' /\ SessionPair' /\ OpenFilesExist'
  BY <1>3, <1>4
  DEF ControlInv, SessionPair, OpenFilesExist, IsOpen, s_file, s_snap, nvs, slot,
     control, session, trip, Goto, Kinds
<1> QED
  BY <1>8, <1>9

LEMMA InsertCardInv == Inv /\ InsertCard => Inv'
<1> SUFFICES ASSUME Inv, InsertCard PROVE Inv'
  OBVIOUS
<1> USE DEF Inv, InsertCard
<1>1. TypeOK'
  BY SpendType, Limits DEF TypeOK, ControlPoints, Callers, FaultKinds, nvs, slot, control, session, trip, Goto
<1>2. ControlInv' /\ SessionPair' /\ OpenFilesExist'
  BY SpendType, Limits DEF ControlInv, SessionPair, OpenFilesExist, IsOpen, s_file, s_snap, nvs, slot, control, session, trip, Goto, Kinds
<1> QED
  BY <1>1, <1>2

LEMMA SwapCardOffInv == Inv /\ SwapCardOff => Inv'
<1> SUFFICES ASSUME Inv, SwapCardOff PROVE Inv'
  OBVIOUS
<1> USE DEF Inv, SwapCardOff
<1>1. TypeOK'
  BY SpendType, Limits DEF TypeOK, ControlPoints, Callers, FaultKinds, nvs, slot, control, session, trip, Goto
<1>2. ControlInv' /\ SessionPair' /\ OpenFilesExist'
  BY SpendType, Limits DEF ControlInv, SessionPair, OpenFilesExist, IsOpen, s_file, s_snap, nvs, slot, control, session, trip, Goto, Kinds
<1> QED
  BY <1>1, <1>2

LEMMA ResetNvsInv == Inv /\ ResetNvs => Inv'
<1> SUFFICES ASSUME Inv, ResetNvs PROVE Inv'
  OBVIOUS
<1> USE DEF Inv, ResetNvs
<1>3. left' \in [FaultKinds -> Nat]
  BY SpendType DEF TypeOK, FaultKinds
<1>4. nvsTrip' = FALSE /\ nvsTrip' \in BOOLEAN
  OBVIOUS
<1>8. TypeOK'
  BY <1>3, <1>4, Limits DEF TypeOK, ControlPoints, Callers, nvs, slot, control, session, trip, Goto
<1>9. ControlInv' /\ SessionPair' /\ OpenFilesExist'
  BY <1>3, <1>4, Limits
  DEF ControlInv, SessionPair, OpenFilesExist, IsOpen, s_file, s_snap, nvs, slot,
     control, session, trip, Goto, Kinds
<1> QED
  BY <1>8, <1>9

LEMMA WriteTripStartRowsInv == Inv /\ WriteTripStartRows => Inv'
<1> SUFFICES ASSUME Inv, WriteTripStartRows PROVE Inv'
  OBVIOUS
<1> USE DEF Inv, WriteTripStartRows
<1>1. PICK ok \in BOOLEAN : Commit(Printed(stream, Kinds, <<"TRIP_START">>), ok)
  OBVIOUS
<1>2. <<"TRIP_START">> \in Seq(Row)
  BY RowSeqs DEF Row
<1>3. /\ file' \in Disk /\ Grown(stream)
      /\ stream' \in [Kinds -> Stream]
      /\ \A k \in Kinds : stream'[k].id = stream[k].id
      /\ left' \in [FaultKinds -> Nat]
  BY <1>1, <1>2, PrintCommit
<1>8. TypeOK'
  BY <1>3 DEF TypeOK, ControlPoints, Callers, nvs, slot, control, session, trip, Goto
<1>9. ControlInv' /\ SessionPair' /\ OpenFilesExist'
  BY <1>3
  DEF ControlInv, SessionPair, OpenFilesExist, IsOpen, s_file, s_snap, nvs, slot,
     control, session, trip, Goto, Kinds, Grown
<1> QED
  BY <1>8, <1>9

LEMMA TripBeginInv == Inv /\ TripBegin => Inv'
<1> SUFFICES ASSUME Inv, TripBegin PROVE Inv'
  OBVIOUS
<1> USE DEF Inv, TripBegin
<1>1. PICK ok \in BOOLEAN : Commit(Printed(stream, Kinds, <<"TRIP_START">>), ok)
  OBVIOUS
<1>2. <<"TRIP_START">> \in Seq(Row)
  BY RowSeqs DEF Row
<1>3. /\ file' \in Disk /\ Grown(stream)
      /\ stream' \in [Kinds -> Stream]
      /\ \A k \in Kinds : stream'[k].id = stream[k].id
      /\ left' \in [FaultKinds -> Nat]
  BY <1>1, <1>2, PrintCommit
<1>4. s_trip_active' = TRUE /\ s_trip_active' \in BOOLEAN
  OBVIOUS
<1>8. TypeOK'
  BY <1>3, <1>4 DEF TypeOK, ControlPoints, Callers, nvs, slot, control, session, trip, Goto
<1>9. ControlInv' /\ SessionPair' /\ OpenFilesExist'
  BY <1>3, <1>4
  DEF ControlInv, SessionPair, OpenFilesExist, IsOpen, s_file, s_snap, nvs, slot,
     control, session, trip, Goto, Kinds, Grown
<1> QED
  BY <1>8, <1>9

LEMMA EndSnapInv == Inv /\ EndSnap => Inv'
<1> SUFFICES ASSUME Inv, EndSnap PROVE Inv'
  OBVIOUS
<1> USE DEF Inv, EndSnap
<1>2. <<"TRIP_END">> \in Seq(Row)
  BY RowSeqs DEF Row
<1>3. /\ file' \in Disk /\ Grown(stream)
      /\ stream' \in [Kinds -> Stream]
      /\ \A k \in Kinds : stream'[k].id = IF k = "snap" THEN 0 ELSE stream[k].id
      /\ left' \in [FaultKinds -> Nat]
  BY <1>2, PrintClose
<1>8. TypeOK'
  BY <1>3 DEF TypeOK, ControlPoints, Callers, nvs, slot, control, session, trip, Goto
<1>9. ControlInv' /\ SessionPair' /\ OpenFilesExist'
  BY <1>3
  DEF ControlInv, SessionPair, OpenFilesExist, IsOpen, s_file, s_snap, nvs, slot,
     control, session, trip, Goto, Kinds, Grown
<1> QED
  BY <1>8, <1>9

LEMMA EndRawInv == Inv /\ EndRaw => Inv'
<1> SUFFICES ASSUME Inv, EndRaw PROVE Inv'
  OBVIOUS
<1> USE DEF Inv, EndRaw
<1>2. <<"TRIP_END">> \in Seq(Row)
  BY RowSeqs DEF Row
<1>3. /\ file' \in Disk /\ Grown(stream)
      /\ stream' \in [Kinds -> Stream]
      /\ \A k \in Kinds : stream'[k].id = IF k = "raw" THEN 0 ELSE stream[k].id
      /\ left' \in [FaultKinds -> Nat]
  BY <1>2, PrintClose
<1>8. TypeOK'
  BY <1>3 DEF TypeOK, ControlPoints, Callers, nvs, slot, control, session, trip, Goto
<1>9. ControlInv' /\ SessionPair' /\ OpenFilesExist'
  BY <1>3
  DEF ControlInv, SessionPair, OpenFilesExist, IsOpen, s_file, s_snap, nvs, slot,
     control, session, trip, Goto, Kinds, Grown
<1> QED
  BY <1>8, <1>9

LEMMA ReopenLogInv == Inv /\ ReopenLog => Inv'
<1> SUFFICES ASSUME Inv, ReopenLog PROVE Inv'
  OBVIOUS
<1> USE DEF Inv, ReopenLog
<1>3. /\ file' \in Disk /\ Grown(stream)
      /\ stream' \in [Kinds -> Stream]
      /\ \A k \in Kinds : stream'[k].id = 0
      /\ left' \in [FaultKinds -> Nat]
  BY CloseType DEF Backed, OpenFilesExist, TypeOK
<1>8. TypeOK'
  BY <1>3 DEF TypeOK, ControlPoints, Callers, nvs, slot, control, session, trip, Goto
<1>9. ControlInv' /\ SessionPair' /\ OpenFilesExist'
  BY <1>3
  DEF ControlInv, SessionPair, OpenFilesExist, IsOpen, s_file, s_snap, nvs, slot,
     control, session, trip, Goto, Kinds, Grown
<1> QED
  BY <1>8, <1>9

LEMMA ReclaimUnlinkInv == Inv /\ ReclaimUnlink => Inv'
<1> SUFFICES ASSUME Inv, ReclaimUnlink PROVE Inv'
  OBVIOUS
<1> USE DEF Inv, ReclaimUnlink
<1>3. left' \in [FaultKinds -> Nat] /\ mcard \in Cards
  BY IoType
<1>4. /\ victim' \in Ids \ {s_log_id}
      /\ file["raw"][mcard][victim'] # Absent
  BY DEF Candidates
<1>5. /\ file' \in Disk
      /\ \A k \in Kinds, c \in Cards, i \in Ids :
           i # victim' => file'[k][c][i] = file[k][c][i]
  BY <1>3, <1>4 DEF TypeOK, Disk, Kinds, Content
<1>8. TypeOK'
  BY <1>3, <1>4, <1>5 DEF TypeOK, ControlPoints, Callers, nvs, slot, control, session, trip, Goto, Ids
<1>9. ControlInv' /\ SessionPair' /\ OpenFilesExist'
  BY <1>3, <1>4, <1>5
  DEF ControlInv, SessionPair, OpenFilesExist, IsOpen, s_file, s_snap, nvs, slot,
     control, session, trip, Goto, Kinds, Ids
<1> QED
  BY <1>8, <1>9

LEMMA ReclaimUnlinkSnapInv == Inv /\ ReclaimUnlinkSnap => Inv'
<1> SUFFICES ASSUME Inv, ReclaimUnlinkSnap PROVE Inv'
  OBVIOUS
<1> USE DEF Inv, ReclaimUnlinkSnap
<1>3. left' \in [FaultKinds -> Nat]
  BY IoType
<1>4. victim \in Ids \ {s_log_id}
  BY DEF ControlInv
<1>5. /\ file' \in Disk
      /\ \A k \in Kinds, c \in Cards, i \in Ids :
           i # victim => file'[k][c][i] = file[k][c][i]
  <2>1. CASE IoWorks /\ file' = [file EXCEPT !["snap"][mcard][victim] = Absent]
    BY <2>1, <1>4, IoType DEF TypeOK, Disk, Kinds, Content
  <2>2. CASE file' = file
    BY <2>2 DEF TypeOK
  <2> QED
    BY <2>1, <2>2
<1>8. TypeOK'
  BY <1>3, <1>4, <1>5, Limits DEF TypeOK, ControlPoints, Callers, nvs, slot, control, session, trip, Goto, Ids
<1>9. ControlInv' /\ SessionPair' /\ OpenFilesExist'
  BY <1>3, <1>4, <1>5, Limits
  DEF ControlInv, SessionPair, OpenFilesExist, IsOpen, s_file, s_snap, nvs, slot,
     control, session, trip, Goto, Kinds, Ids
<1> QED
  BY <1>8, <1>9

LEMMA OpenLogInv == Inv /\ OpenLog => Inv'
<1> SUFFICES ASSUME Inv, OpenLog PROVE Inv'
  OBVIOUS
<1> USE DEF Inv, OpenLog
<1>3. left' \in [FaultKinds -> Nat] /\ mcard \in Cards
  BY IoType
<1>4. s_log_id \in Ids
  BY DEF ControlInv
<1>5. /\ file' \in Disk
      /\ file'["raw"][mcard][s_log_id] = <<>>
      /\ \A k \in Kinds, c \in Cards, i \in Ids :
           file[k][c][i] # Absent => file'[k][c][i] # Absent
  BY <1>3, <1>4, EmptyContent DEF TypeOK, Disk, Kinds
<1>6. /\ stream' \in [Kinds -> Stream]
      /\ stream'["raw"].id = s_log_id /\ stream'["snap"] = stream["snap"]
  BY <1>4, OpenedType DEF TypeOK, Kinds, Ids
<1>7. <<>> # Absent
  BY EmptyContent
<1>8. TypeOK'
  BY <1>3, <1>4, <1>5, <1>6, <1>7 DEF TypeOK, ControlPoints, Callers, nvs, slot, control, session, trip, Goto, Ids
<1>9. ControlInv' /\ SessionPair' /\ OpenFilesExist'
  BY <1>3, <1>4, <1>5, <1>6, <1>7
  DEF ControlInv, SessionPair, OpenFilesExist, IsOpen, s_file, s_snap, nvs, slot,
     control, session, trip, Goto, Kinds, Ids
<1> QED
  BY <1>8, <1>9

LEMMA ClaimLogIdInv == Inv /\ ClaimLogId => Inv'
<1> SUFFICES ASSUME Inv, ClaimLogId PROVE Inv'
  OBVIOUS
<1> USE DEF Inv, ClaimLogId
<1>1. s_log_id' \in Ids /\ nvsId' \in 0..MaxId /\ checkedOn' \in Cards \cup {NoCard}
  <2> DEFINE id0 == IF nvsId = 0 THEN 1 ELSE nvsId
  <2>1. id0 \in Ids /\ 1 \in Ids
    BY Limits DEF TypeOK, Ids
  <2>2. CASE s_log_id' = 1 /\ checkedOn' = NoCard /\ nvsId' = nvsId
    BY <2>1, <2>2 DEF TypeOK
  <2>3. ASSUME NEW k \in 0..(MaxId - 1),
               s_log_id' = Nth(id0, k),
               checkedOn' \in {mcard, NoCard},
               nvsId' \in {nvsId, NextId(Nth(id0, k))}
        PROVE  s_log_id' \in Ids /\ nvsId' \in 0..MaxId /\ checkedOn' \in Cards \cup {NoCard}
    <3> HIDE DEF id0
    <3>1. Nth(id0, k) \in Ids /\ NextId(Nth(id0, k)) \in Ids
      BY <2>1, NthType, NextIdType
    <3> QED
      BY <2>3, <3>1 DEF TypeOK, Ids
  <2> HIDE DEF id0
  <2>4. \/ s_log_id' = 1 /\ checkedOn' = NoCard /\ nvsId' = nvsId
        \/ \E k \in 0..(MaxId - 1) : /\ s_log_id' = Nth(id0, k)
                                    /\ checkedOn' \in {mcard, NoCard}
                                    /\ nvsId' \in {nvsId, NextId(Nth(id0, k))}
    BY DEF id0
  <2> QED
    BY <2>2, <2>3, <2>4
<1>3. left' \in [FaultKinds -> Nat]
  BY SpendType DEF TypeOK, FaultKinds
<1>8. TypeOK'
  BY <1>1, <1>3, Limits DEF TypeOK, ControlPoints, Callers, nvs, slot, control, session, trip, Goto, Ids
<1>9. ControlInv' /\ SessionPair' /\ OpenFilesExist'
  BY <1>1, <1>3, Limits
  DEF ControlInv, SessionPair, OpenFilesExist, IsOpen, s_file, s_snap, nvs, slot,
     control, session, trip, Goto, Kinds, Ids
<1> QED
  BY <1>8, <1>9

LEMMA CommitHeaderInv == Inv /\ CommitHeader => Inv'
<1> SUFFICES ASSUME Inv, CommitHeader PROVE Inv'
  OBVIOUS
<1> USE DEF Inv, CommitHeader
<1>1. CASE Commit(Printed(stream, {"raw"}, <<"header">>), TRUE)
           /\ s_commit_fails' = 0 /\ Goto("openSnap", caller)
           /\ UNCHANGED <<attempt, promised>>
  <2>1. <<"header">> \in Seq(Row)
    BY RowSeqs DEF Row
  <2>2. /\ file' \in Disk /\ Grown(stream)
        /\ stream' \in [Kinds -> Stream]
        /\ \A k \in Kinds : stream'[k].id = stream[k].id
        /\ left' \in [FaultKinds -> Nat]
    BY <1>1, <2>1, PrintCommit
  <2>3. TypeOK'
    BY <1>1, <2>2 DEF TypeOK, ControlPoints, Callers, nvs, slot, control, session, trip, Goto
  <2>4. ControlInv' /\ SessionPair' /\ OpenFilesExist'
    BY <1>1, <2>2
    DEF ControlInv, SessionPair, OpenFilesExist, IsOpen, s_file, s_snap, nvs, slot,
     control, session, trip, Goto, Kinds, Grown
  <2> QED
    BY <2>3, <2>4
<1>2. CASE IoFails /\ stream' = [stream EXCEPT !["raw"] = Closed] /\ GiveUp
           /\ UNCHANGED <<file, s_commit_fails>>
  <2>1. left' \in [FaultKinds -> Nat]
    BY <1>2, IoType
  <2>2. /\ stream' \in [Kinds -> Stream]
        /\ stream'["raw"].id = 0 /\ stream'["snap"] = stream["snap"]
    BY <1>2, ClosedType DEF TypeOK, Kinds
  <2>3. TypeOK'
    BY <1>2, <2>1, <2>2, Limits DEF GiveUp, RetryOrLoop, TypeOK, ControlPoints, Callers, nvs, slot, control, session, trip, Goto
  <2>4. ControlInv' /\ SessionPair' /\ OpenFilesExist'
    BY <1>2, <2>2
    DEF GiveUp, RetryOrLoop, ControlInv, SessionPair, OpenFilesExist, IsOpen, s_file, s_snap, nvs, slot,
     control, session, trip, Goto, Kinds
  <2> QED
    BY <2>3, <2>4
<1> QED
  BY <1>1, <1>2

LEMMA OpenSnapInv == Inv /\ OpenSnap => Inv'
<1> SUFFICES ASSUME Inv, OpenSnap PROVE Inv'
  OBVIOUS
<1> USE DEF Inv, OpenSnap
<1>1. s_log_id \in Ids /\ s_file = s_log_id /\ mcard \in Cards
  BY DEF ControlInv, SessionPair, OpenFilesExist, IsOpen, s_file, Kinds
<1>2. /\ file' \in Disk
      /\ file' # file => file'["snap"][mcard][s_log_id] # Absent
      /\ \A k \in Kinds, c \in Cards, i \in Ids :
           file[k][c][i] # Absent => file'[k][c][i] # Absent
  <2>1. CASE file' = [file EXCEPT !["snap"][mcard][s_log_id] = <<>>]
    BY <2>1, <1>1, EmptyContent DEF TypeOK, Disk, Kinds
  <2>2. CASE file' = file
    BY <2>2 DEF TypeOK
  <2> QED
    BY <2>1, <2>2
<1>3. left' \in [FaultKinds -> Nat]
  BY IoType
<1>4. /\ stream' \in [Kinds -> Stream]
      /\ stream'["raw"].id = stream["raw"].id
      /\ \/ stream'["snap"].id = stream["snap"].id
         \/ /\ stream'["snap"].id = s_log_id
            /\ file'["snap"][mcard][s_log_id] # Absent
  <2> DEFINE opened == [stream EXCEPT !["snap"] = [Closed EXCEPT !.id = s_log_id]]
             broken == [stream EXCEPT !["snap"] = [Closed EXCEPT !.id = s_log_id, !.err = TRUE]]
  <2>1. opened \in [Kinds -> Stream] /\ broken \in [Kinds -> Stream]
        /\ opened["snap"].id = s_log_id /\ broken["snap"].id = s_log_id
        /\ opened["raw"] = stream["raw"] /\ broken["raw"] = stream["raw"]
    BY <1>1, OpenedType DEF TypeOK, Kinds, Ids
  <2>2. <<"header">> \in Seq(Row)
    BY RowSeqs DEF Row
  <2> stream \in [Kinds -> Stream]
    BY DEF TypeOK
  <2> HIDE DEF Inv, OpenSnap
  <2>3. CASE stream' = stream
    BY <2>3
  <2>4. CASE /\ file' = [file EXCEPT !["snap"][mcard][s_log_id] = <<>>]
             /\ stream' = Printed(opened, {"snap"}, <<"header">>) \/ stream' = broken
    <3>1. file'["snap"][mcard][s_log_id] # Absent
      BY <2>4, <1>1, EmptyContent DEF Inv, TypeOK, Disk, Kinds
    <3> HIDE DEF opened, broken
    <3>2. stream' \in [Kinds -> Stream] /\ stream'["snap"].id = s_log_id
          /\ stream'["raw"].id = stream["raw"].id
      <4>1. CASE stream' = Printed(opened, {"snap"}, <<"header">>)
        <5>1. /\ Printed(opened, {"snap"}, <<"header">>) \in [Kinds -> Stream]
              /\ \A k \in Kinds : Printed(opened, {"snap"}, <<"header">>)[k].id = opened[k].id
          BY <2>1, <2>2, PrintType
        <5>2. "snap" \in Kinds /\ "raw" \in Kinds
          BY DEF Kinds
        <5> QED
          BY <4>1, <5>1, <5>2, <2>1
      <4>2. CASE stream' = broken
        BY <4>2, <2>1 DEF Kinds
      <4> QED
        BY <4>1, <4>2, <2>4
    <3> QED
      BY <3>1, <3>2
  <2> QED
    BY <2>3, <2>4 DEF OpenSnap
<1>8. TypeOK'
  BY <1>1, <1>2, <1>3, <1>4 DEF TypeOK, ControlPoints, Callers, nvs, slot, control, session, trip, Goto, AfterOpen
<1>9. ControlInv' /\ SessionPair' /\ OpenFilesExist'
  BY <1>1, <1>2, <1>3, <1>4
  DEF ControlInv, SessionPair, OpenFilesExist, IsOpen, s_file, s_snap, nvs, slot,
     control, session, trip, Goto, Kinds, AfterOpen
<1> QED
  BY <1>8, <1>9

LEMMA FlushPassInv ==
  ASSUME Inv, NEW busy \in BOOLEAN, FlushPass(busy)
  PROVE  Inv'
<1> DEFINE K == IF busy THEN Kinds ELSE {"snap"}
<1>1. PICK ok \in BOOLEAN : Commit(Printed(stream, K, <<>>), ok)
  BY DEF FlushPass
<1>2. <<>> \in Seq(Row)
  OBVIOUS
<1> HIDE DEF K
<1>3. /\ file' \in Disk /\ Grown(stream)
      /\ stream' \in [Kinds -> Stream]
      /\ \A k \in Kinds : stream'[k].id = stream[k].id
      /\ left' \in [FaultKinds -> Nat]
  BY <1>1, <1>2, PrintCommit
<1>4. /\ pc = "loop" /\ pc' \in {"loop", "reopen"} /\ caller' \in {"none", "abandon"}
      /\ s_commit_fails' \in Nat
      /\ UNCHANGED <<nvs, slot, attempt, victim, s_log_id, checkedOn, trip>>
  <2>1. s_commit_fails \in Nat /\ s_commit_fails + 1 \in Nat /\ 0 \in Nat
    BY DEF Inv, TypeOK
  <2>2. \/ s_commit_fails' = 0 /\ Goto("loop", "none")
        \/ s_commit_fails' = 0 /\ Goto("reopen", "abandon")
        \/ s_commit_fails' = s_commit_fails + 1 /\ Goto("loop", "none")
    BY DEF FlushPass
  <2>3. pc = "loop" /\ UNCHANGED <<nvs, slot, attempt, victim, s_log_id, checkedOn, trip>>
    BY DEF FlushPass
  <2> QED
    BY <2>1, <2>2, <2>3 DEF Goto
<1>8. TypeOK'
  BY <1>3, <1>4 DEF Inv, TypeOK, ControlPoints, Callers, nvs, slot, trip
<1>9. ControlInv' /\ SessionPair' /\ OpenFilesExist'
  BY <1>3, <1>4
  DEF Inv, ControlInv, SessionPair, OpenFilesExist, IsOpen, s_file, s_snap, nvs, slot,
      trip, Kinds, Grown
<1> QED
  BY <1>8, <1>9 DEF Inv

-----------------------------------------------------------------------------

\* The control invariant is inductive.
LEMMA StepInv == Inv /\ [Next]_vars => Inv'
<1> SUFFICES ASSUME Inv, [Next]_vars PROVE Inv'
  OBVIOUS
<1>1. CASE Handler
  BY <1>1, MountCardInv, ClaimLogIdInv, ReclaimUnlinkInv, ReclaimUnlinkSnapInv,
     ReclaimDoneInv, OpenLogInv, OpenLogFailsInv, CommitHeaderInv, OpenSnapInv,
     WriteTripStartRowsInv, RemountCardInv, TripBeginInv, TripSaveInv, TripForgetInv,
     EndSnapInv, EndRawInv, ReopenLogInv
  DEF Handler
<1>2. CASE Loop
  BY <1>2, HandleTripStartInv, HandleTripEndInv, SaveTripPeriodicallyInv, FlushPassInv,
     SpaceCheckInv, StatusPassInv
  DEF Loop
<1>3. CASE Surroundings
  BY <1>3, PowerOnInv, PowerCutInv, PullCardInv, InsertCardInv, SwapCardOffInv, ResetNvsInv
  DEF Surroundings
<1>4. CASE UNCHANGED vars
  BY <1>4 DEF Inv, TypeOK, ControlInv, SessionPair, OpenFilesExist, IsOpen, s_file, s_snap,
              vars, nvs, slot, control, session, trip
<1> QED
  BY <1>1, <1>2, <1>3, <1>4 DEF Next

\* The state has its types, whatever fails and in whatever order.
THEOREM Typing == Spec => []TypeOK
<1>1. Inv => TypeOK
  BY DEF Inv
<1> QED
  BY InitInv, StepInv, <1>1, PTL DEF Spec

\* The snapshot file is open only next to the raw log of the same, current session.
THEOREM SessionPairAlways == Spec => []SessionPair
<1>1. Inv => SessionPair
  BY DEF Inv
<1> QED
  BY InitInv, StepInv, <1>1, PTL DEF Spec

\* The retention pass never deletes a file that is being written.
THEOREM OpenFilesExistAlways == Spec => []OpenFilesExist
<1>1. Inv => OpenFilesExist
  BY DEF Inv
<1> QED
  BY InitInv, StepInv, <1>1, PTL DEF Spec

-----------------------------------------------------------------------------
(* The number of the current session is free on the card it was checked on   *)
(* until its files are opened there.                                         *)

Fresh ==
  /\ pc \in {"off", "mount"} => checkedOn = NoCard
  /\ checkedOn # NoCard /\ pc # "claim" =>
       /\ s_file = 0 \/ pc = "header" => ~Begun(file["raw"][checkedOn][s_log_id])
       /\ s_snap = 0 /\ (pc = "endRaw" => s_file = 0)
            => ~Begun(file["snap"][checkedOn][s_log_id])

\* Where the task has a checked number, it is a number of a card.
LEMMA CheckedType ==
  ASSUME Inv, Fresh, checkedOn # NoCard, pc # "claim"
  PROVE  checkedOn \in Cards /\ s_log_id \in Ids
BY DEF Inv, TypeOK, ControlInv, Fresh

\* Steps that touch neither the files nor the session.
LEMMA FreshQuiet ==
  ASSUME Fresh, UNCHANGED <<file, stream, s_log_id, checkedOn>>,
         \/ pc' = pc
         \/ pc \notin {"claim", "header", "endRaw"}
              /\ pc' \notin {"header", "endRaw", "off", "mount"}
  PROVE  Fresh'
BY DEF Fresh, s_file, s_snap

\* Steps that commit to the open streams.
LEMMA FreshCommit ==
  ASSUME Inv, Fresh, Grown(stream), stream' \in [Kinds -> Stream],
         \A k \in Kinds : stream'[k].id = stream[k].id,
         UNCHANGED <<s_log_id, checkedOn>>,
         pc \notin {"claim", "endRaw", "off", "mount"},
         pc' \notin {"header", "endRaw", "off", "mount"},
         pc = "header" => s_file # 0
  PROVE  Fresh'
<1> SUFFICES ASSUME checkedOn # NoCard
             PROVE  /\ s_file' = 0 => ~Begun(file'["raw"][checkedOn][s_log_id])
                    /\ s_snap' = 0 => ~Begun(file'["snap"][checkedOn][s_log_id])
  BY DEF Fresh
<1>1. checkedOn \in Cards /\ s_log_id \in Ids /\ s_log_id # 0
  BY CheckedType, Limits DEF Ids
<1>2. s_file' = s_file /\ s_snap' = s_snap
  BY DEF s_file, s_snap, Kinds
<1>3. CASE s_file = 0
  <2>1. file'["raw"][checkedOn][s_log_id] = file["raw"][checkedOn][s_log_id]
    BY <1>1, <1>3 DEF Grown, Kinds, s_file
  <2>2. s_snap = 0
    BY <1>3 DEF Inv, SessionPair
  <2>3. file'["snap"][checkedOn][s_log_id] = file["snap"][checkedOn][s_log_id]
    BY <1>1, <2>2 DEF Grown, Kinds, s_snap
  <2> QED
    BY <1>3, <2>1, <2>2, <2>3 DEF Fresh
<1>4. CASE s_file # 0 /\ s_snap = 0
  <2>1. file'["snap"][checkedOn][s_log_id] = file["snap"][checkedOn][s_log_id]
    BY <1>1, <1>4 DEF Grown, Kinds, s_snap
  <2> QED
    BY <1>2, <1>4, <2>1 DEF Fresh
<1> QED
  BY <1>2, <1>3, <1>4

\* A claimed number is checked against the card that is mounted.
LEMMA FreshClaim == Inv /\ Fresh /\ ClaimLogId => Fresh'
<1> SUFFICES ASSUME Inv, Fresh, ClaimLogId, checkedOn' # NoCard
             PROVE  /\ ~Begun(file["raw"][checkedOn'][s_log_id'])
                    /\ ~Begun(file["snap"][checkedOn'][s_log_id'])
  BY DEF Fresh, ClaimLogId
<1>1. mlive /\ checkedOn' = mcard /\ s_log_id' \notin SeenUsed
  BY DEF ClaimLogId
<1>2. s_log_id' \in Ids
  BY ClaimLogIdInv DEF Inv, ControlInv, ClaimLogId
<1>3. s_log_id' \notin Used(mcard)
  BY <1>1 DEF SeenUsed
<1> QED
  BY <1>1, <1>2, <1>3 DEF Used, Begun

\* Deleting files, or truncating that of the current session, leaves its number
\* free.
LEMMA FreshReclaim ==
  Inv /\ Fresh /\ (ReclaimUnlink \/ ReclaimUnlinkSnap) => Fresh'
<1> SUFFICES ASSUME Inv, Fresh, ReclaimUnlink \/ ReclaimUnlinkSnap
             PROVE  Fresh'
  OBVIOUS
<1>1. \A k \in Kinds, c \in Cards, i \in Ids :
        file'[k][c][i] \in {file[k][c][i], Absent}
  <2>1. file \in Disk
    BY DEF Inv, TypeOK
  <2>2. \/ \E v \in Ids : file' = [file EXCEPT !["raw"][mcard][v] = Absent]
        \/ file' = [file EXCEPT !["snap"][mcard][victim] = Absent]
        \/ file' = file
    BY DEF ReclaimUnlink, ReclaimUnlinkSnap, Candidates
  <2>3. CASE \E v \in Ids : file' = [file EXCEPT !["raw"][mcard][v] = Absent]
    BY <2>1, <2>3 DEF Disk, Kinds
  <2>4. CASE file' = [file EXCEPT !["snap"][mcard][victim] = Absent]
    BY <2>1, <2>4 DEF Disk, Kinds
  <2> QED
    BY <2>2, <2>3, <2>4
<1>2. /\ UNCHANGED <<stream, s_log_id, checkedOn>>
      /\ pc \in {"reclaim", "reclaimSnap"} /\ pc' \in {"reclaim", "reclaimSnap"}
  BY DEF ReclaimUnlink, ReclaimUnlinkSnap, session
<1>3. checkedOn # NoCard => checkedOn \in Cards /\ s_log_id \in Ids
  BY <1>2, CheckedType
<1> QED
  BY <1>1, <1>2, <1>3 DEF Fresh, Begun, Kinds, s_file, s_snap

LEMMA FreshOpenLog == Inv /\ Fresh /\ OpenLog => Fresh'
<1> SUFFICES ASSUME Inv, Fresh, OpenLog PROVE Fresh'
  OBVIOUS
<1>1. /\ pc = "open" /\ pc' = "header" /\ s_file = 0 /\ s_snap = 0
      /\ UNCHANGED <<s_log_id, checkedOn>> /\ stream'["snap"] = stream["snap"]
  BY DEF OpenLog, Inv, ControlInv, SessionPair, TypeOK, Kinds
<1>2. \A c \in Cards, i \in Ids :
        /\ file'["raw"][c][i] \in {file["raw"][c][i], <<>>}
        /\ file'["snap"][c][i] = file["snap"][c][i]
  BY DEF OpenLog, Inv, TypeOK, Disk, Kinds
<1>3. checkedOn # NoCard => checkedOn \in Cards /\ s_log_id \in Ids
  BY <1>1, CheckedType
<1> QED
  BY <1>1, <1>2, <1>3 DEF Fresh, Begun, s_file, s_snap

LEMMA FreshOpenSnap == Inv /\ Fresh /\ OpenSnap => Fresh'
<1> SUFFICES ASSUME Inv, Fresh, OpenSnap PROVE Fresh'
  OBVIOUS
<1>1. /\ pc = "openSnap" /\ pc' \in {"rows", "loop", "tripBegin"}
      /\ s_file # 0 /\ s_snap = 0 /\ UNCHANGED <<s_log_id, checkedOn>>
  BY DEF OpenSnap, AfterOpen, Goto, Inv, ControlInv
<1>2. s_file' = s_file
  BY <1>1, OpenSnapInv DEF Inv, SessionPair, OpenSnap, Printed, s_file, TypeOK, Kinds
<1>3. \A c \in Cards, i \in Ids : file'["snap"][c][i] \in {file["snap"][c][i], <<>>}
  <2>1. file \in Disk
    BY DEF Inv, TypeOK
  <2>2. file' = [file EXCEPT !["snap"][mcard][s_log_id] = <<>>] \/ file' = file
    BY DEF OpenSnap
  <2>3. CASE file' = [file EXCEPT !["snap"][mcard][s_log_id] = <<>>]
    <3>1. SUFFICES ASSUME NEW c \in Cards, NEW i \in Ids
                   PROVE  file'["snap"][c][i] \in {file["snap"][c][i], <<>>}
      OBVIOUS
    <3>2. file'["snap"] = [file["snap"] EXCEPT ![mcard][s_log_id] = <<>>]
      BY <2>1, <2>3 DEF Disk, Kinds
    <3> QED
      BY <2>1, <3>1, <3>2 DEF Disk, Kinds
  <2>4. CASE file' = file
    BY <2>4
  <2> QED
    BY <2>2, <2>3, <2>4
<1>4. checkedOn # NoCard => checkedOn \in Cards /\ s_log_id \in Ids
  BY <1>1, CheckedType
<1> QED
  BY <1>1, <1>2, <1>3, <1>4 DEF Fresh, Begun

\* Closing the files of a session comes just before its number is given up.
LEMMA FreshClose ==
  Inv /\ Fresh /\ (EndSnap \/ EndRaw \/ ReopenLog) => Fresh'
<1> SUFFICES ASSUME Inv, Fresh, EndSnap \/ EndRaw \/ ReopenLog
             PROVE  Fresh'
  OBVIOUS
<1>1. CASE ReopenLog
  BY <1>1 DEF ReopenLog, Goto, Fresh
<1>2. <<"TRIP_END">> \in Seq(Row)
  BY RowSeqs DEF Row
<1>3. CASE EndSnap
  <2>1. /\ Grown(stream)
        /\ \A k \in Kinds : stream'[k].id = IF k \in {"snap"} THEN 0 ELSE stream[k].id
    BY <1>2, <1>3, PrintClose DEF EndSnap
  <2>2. /\ pc = "endSnap" /\ pc' = "endRaw" /\ UNCHANGED <<s_log_id, checkedOn>>
        /\ s_file' = s_file
    BY <1>3, <2>1 DEF EndSnap, Goto, s_file, Kinds
  <2>3. ASSUME checkedOn # NoCard, s_file = 0
        PROVE  /\ ~Begun(file'["raw"][checkedOn][s_log_id])
               /\ ~Begun(file'["snap"][checkedOn][s_log_id])
    <3>1. checkedOn \in Cards /\ s_log_id \in Ids /\ s_log_id # 0
      BY <2>2, <2>3, CheckedType, Limits DEF Ids
    <3>2. s_snap = 0
      BY <2>3 DEF Inv, SessionPair
    <3>3. \A k \in Kinds :
            file'[k][checkedOn][s_log_id] = file[k][checkedOn][s_log_id]
      BY <2>1, <2>3, <3>1, <3>2 DEF Grown, s_file, s_snap, Kinds
    <3> QED
      BY <2>2, <2>3, <3>2, <3>3 DEF Fresh, Kinds
  <2> QED
    BY <2>2, <2>3 DEF Fresh
<1>4. CASE EndRaw
  <2>1. /\ Grown(stream)
        /\ \A k \in Kinds : stream'[k].id = IF k \in {"raw"} THEN 0 ELSE stream[k].id
    BY <1>2, <1>4, PrintClose DEF EndRaw
  <2>2. /\ pc = "endRaw" /\ s_snap = 0 /\ UNCHANGED <<s_log_id, checkedOn>>
        /\ pc' = IF s_file # 0 THEN "claim" ELSE "loop"
    BY <1>4 DEF EndRaw, Goto, Inv, ControlInv
  <2>3. ASSUME checkedOn # NoCard, s_file = 0
        PROVE  /\ ~Begun(file'["raw"][checkedOn][s_log_id])
               /\ ~Begun(file'["snap"][checkedOn][s_log_id])
    <3>1. checkedOn \in Cards /\ s_log_id \in Ids /\ s_log_id # 0
      BY <2>2, <2>3, CheckedType, Limits DEF Ids
    <3>2. \A k \in Kinds :
            file'[k][checkedOn][s_log_id] = file[k][checkedOn][s_log_id]
      BY <2>1, <2>2, <2>3, <3>1 DEF Grown, s_file, s_snap, Kinds
    <3> QED
      BY <2>2, <2>3, <3>2 DEF Fresh, Kinds
  <2> QED
    BY <2>2, <2>3 DEF Fresh
<1> QED
  BY <1>1, <1>3, <1>4

LEMMA FreshCommitHeader == Inv /\ Fresh /\ CommitHeader => Fresh'
<1> SUFFICES ASSUME Inv, Fresh, CommitHeader PROVE Fresh'
  OBVIOUS
<1>0. pc = "header" /\ s_file # 0 /\ s_snap = 0 /\ UNCHANGED <<s_log_id, checkedOn>>
  BY DEF CommitHeader, Inv, ControlInv
<1>1. CASE Commit(Printed(stream, {"raw"}, <<"header">>), TRUE) /\ Goto("openSnap", caller)
  <2>1. <<"header">> \in Seq(Row)
    BY RowSeqs DEF Row
  <2>2. /\ Grown(stream) /\ stream' \in [Kinds -> Stream]
        /\ \A k \in Kinds : stream'[k].id = stream[k].id
    BY <1>1, <2>1, PrintCommit
  <2>3. pc' = "openSnap"
    BY <1>1 DEF Goto
  <2> QED
    BY <1>0, <2>2, <2>3, FreshCommit
<1>2. CASE stream' = [stream EXCEPT !["raw"] = Closed] /\ GiveUp /\ UNCHANGED file
  <2>1. pc' \in {"loop", "open", "remount"}
    BY <1>2 DEF GiveUp, RetryOrLoop, Goto
  <2> QED
    BY <1>0, <1>2, <2>1 DEF Fresh
<1> QED
  BY <1>1, <1>2 DEF CommitHeader

\* Commits of rows that are printed to an open session.
LEMMA FreshRows ==
  Inv /\ Fresh /\ (WriteTripStartRows \/ TripBegin) => Fresh'
<1> SUFFICES ASSUME Inv, Fresh, WriteTripStartRows \/ TripBegin PROVE Fresh'
  OBVIOUS
<1>1. PICK ok \in BOOLEAN : Commit(Printed(stream, Kinds, <<"TRIP_START">>), ok)
  BY DEF WriteTripStartRows, TripBegin
<1>2. <<"TRIP_START">> \in Seq(Row)
  BY RowSeqs DEF Row
<1>3. /\ Grown(stream) /\ stream' \in [Kinds -> Stream]
      /\ \A k \in Kinds : stream'[k].id = stream[k].id
  BY <1>1, <1>2, PrintCommit
<1>4. /\ pc \in {"rows", "tripBegin"} /\ pc' \in {"loop", "tripSave"}
      /\ UNCHANGED <<s_log_id, checkedOn>>
  BY DEF WriteTripStartRows, TripBegin, Goto
<1> QED
  BY <1>3, <1>4, FreshCommit

LEMMA FreshFlushPass ==
  ASSUME Inv, Fresh, NEW busy \in BOOLEAN, FlushPass(busy)
  PROVE  Fresh'
<1> DEFINE K == IF busy THEN Kinds ELSE {"snap"}
<1>1. PICK ok \in BOOLEAN : Commit(Printed(stream, K, <<>>), ok)
  BY DEF FlushPass
<1>2. <<>> \in Seq(Row)
  OBVIOUS
<1> HIDE DEF K
<1>3. /\ Grown(stream) /\ stream' \in [Kinds -> Stream]
      /\ \A k \in Kinds : stream'[k].id = stream[k].id
  BY <1>1, <1>2, PrintCommit
<1>4. /\ pc = "loop" /\ pc' \in {"loop", "reopen"}
      /\ UNCHANGED <<s_log_id, checkedOn>>
  BY DEF FlushPass, Goto
<1> QED
  BY <1>3, <1>4, FreshCommit

LEMMA FreshRemount == Inv /\ Fresh /\ RemountCard => Fresh'
<1> SUFFICES ASSUME Inv, Fresh, RemountCard PROVE Fresh'
  OBVIOUS
<1>1. /\ pc = "remount" /\ pc' \in {"open", "loop"} /\ s_file = 0 /\ s_snap = 0
      /\ UNCHANGED <<file, s_log_id, checkedOn>>
  BY DEF RemountCard, RetryOrLoop, Goto, Inv, ControlInv, SessionPair
<1> QED
  BY <1>1 DEF Fresh

\* Every other step leaves files and session alone, or switches the board off.
LEMMA FreshOthers ==
  ASSUME Inv, Fresh,
         \/ MountCard \/ ReclaimDone \/ OpenLogFails \/ TripSave \/ TripForget
         \/ HandleTripStart \/ HandleTripEnd \/ SaveTripPeriodically \/ SpaceCheck
         \/ StatusPass \/ Surroundings \/ UNCHANGED vars
  PROVE  Fresh'
<1>1. CASE MountCard \/ PowerOn
  BY <1>1 DEF MountCard, PowerOn, Goto, Fresh, session, s_file, s_snap
<1>2. CASE PowerCut
  BY <1>2 DEF PowerCut, Fresh
<1>3. CASE ReclaimDone
  BY <1>3, FreshQuiet DEF ReclaimDone, Goto, session
<1>4. CASE OpenLogFails
  BY <1>4, FreshQuiet DEF OpenLogFails, GiveUp, RetryOrLoop, Goto, session
<1>5. CASE TripSave \/ TripForget \/ SpaceCheck \/ StatusPass
  BY <1>5, FreshQuiet DEF TripSave, TripForget, SpaceCheck, StatusPass, Goto, session
<1>6. CASE HandleTripStart \/ HandleTripEnd
  BY <1>6, FreshQuiet DEF HandleTripStart, HandleTripEnd, Goto, session
<1>7. CASE SaveTripPeriodically \/ PullCard \/ InsertCard \/ SwapCardOff \/ ResetNvs
           \/ UNCHANGED vars
  BY <1>7, FreshQuiet
  DEF SaveTripPeriodically, PullCard, InsertCard, SwapCardOff, ResetNvs, vars, control, session
<1> QED
  BY <1>1, <1>2, <1>3, <1>4, <1>5, <1>6, <1>7 DEF Surroundings

LEMMA StepFresh == Inv /\ Fresh /\ [Next]_vars => Fresh'
BY FreshClaim, FreshReclaim, FreshOpenLog, FreshOpenSnap, FreshClose, FreshCommitHeader,
   FreshRows, FreshFlushPass, FreshRemount, FreshOthers
DEF Next, Handler, Loop

LEMMA InitFresh == Init => Fresh
BY DEF Init, Fresh

KeepsChecked ==
  \A k \in Kinds, c \in Cards, i \in Ids : Truncates(k, c, i) => checkedOn # c

\* Opening the raw log is the only step that truncates one, and opening the
\* snapshot file the only one that truncates that.
LEMMA StepKeepsChecked == Inv /\ Fresh /\ [Next]_vars => KeepsChecked
<1> SUFFICES ASSUME Inv, Fresh, [Next]_vars,
                    NEW k \in Kinds, NEW c \in Cards, NEW i \in Ids,
                    Truncates(k, c, i), checkedOn = c
             PROVE  FALSE
  BY DEF KeepsChecked
<1>0. /\ Begun(file[k][c][i]) /\ file'[k][c][i] = <<>>
      /\ file'[k][c][i] # file[k][c][i] /\ file'[k][c][i] # Absent
      /\ file \in Disk /\ checkedOn # NoCard
  BY EmptyContent, ModelValues DEF Truncates, Begun, Inv, TypeOK
<1>1. CASE UNCHANGED file
  BY <1>0, <1>1
<1>2. CASE ReclaimUnlink \/ ReclaimUnlinkSnap
  <2>1. \/ \E v \in Ids : file' = [file EXCEPT !["raw"][mcard][v] = Absent]
        \/ file' = [file EXCEPT !["snap"][mcard][victim] = Absent]
        \/ file' = file
    BY <1>2 DEF ReclaimUnlink, ReclaimUnlinkSnap, Candidates
  <2>2. file'[k][c][i] \in {file[k][c][i], Absent}
    <3>1. CASE \E v \in Ids : file' = [file EXCEPT !["raw"][mcard][v] = Absent]
      BY <1>0, <3>1 DEF Disk, Kinds
    <3>2. CASE file' = [file EXCEPT !["snap"][mcard][victim] = Absent]
      BY <1>0, <3>2 DEF Disk, Kinds
    <3> QED
      BY <2>1, <3>1, <3>2
  <2> QED
    BY <1>0, <2>2
<1>3. CASE OpenLog
  <2>1. k = "raw" /\ c = mcard /\ i = s_log_id
    BY <1>0, <1>3 DEF OpenLog, Disk, Kinds
  <2>2. pc = "open" /\ s_file = 0
    BY <1>3 DEF OpenLog, Inv, ControlInv
  <2> QED
    BY <1>0, <2>1, <2>2 DEF Fresh
<1>4. CASE OpenSnap
  <2>1. k = "snap" /\ c = mcard /\ i = s_log_id
    BY <1>0, <1>4 DEF OpenSnap, Disk, Kinds
  <2>2. pc = "openSnap" /\ s_snap = 0
    BY <1>4 DEF OpenSnap, Inv, ControlInv
  <2> QED
    BY <1>0, <2>1, <2>2 DEF Fresh
<1>5. CASE \E s \in [Kinds -> Stream] : Grown(s)
  BY <1>0, <1>5 DEF Grown
<1>6. CASE \/ CommitHeader \/ WriteTripStartRows \/ TripBegin \/ EndSnap \/ EndRaw
           \/ ReopenLog \/ \E busy \in BOOLEAN : FlushPass(busy)
  <2>1. /\ <<"header">> \in Seq(Row) /\ <<"TRIP_START">> \in Seq(Row)
        /\ <<"TRIP_END">> \in Seq(Row) /\ <<>> \in Seq(Row)
    BY RowSeqs DEF Row
  <2>2. stream \in [Kinds -> Stream]
    BY DEF Inv, TypeOK
  <2>3. CASE CommitHeader
    <3>1. Commit(Printed(stream, {"raw"}, <<"header">>), TRUE) \/ UNCHANGED file
      BY <2>3 DEF CommitHeader
    <3> QED
      BY <1>1, <1>5, <2>1, <2>2, <3>1, PrintCommit
  <2>4. CASE WriteTripStartRows \/ TripBegin
    <3>1. \E ok \in BOOLEAN : Commit(Printed(stream, Kinds, <<"TRIP_START">>), ok)
      BY <2>4 DEF WriteTripStartRows, TripBegin
    <3> QED
      BY <1>5, <2>1, <2>2, <3>1, PrintCommit
  <2>5. CASE EndSnap \/ EndRaw
    BY <1>5, <2>1, <2>2, <2>5, PrintClose DEF EndSnap, EndRaw
  <2>6. CASE ReopenLog
    BY <1>5, <2>2, <2>6, CloseType DEF ReopenLog, Backed, OpenFilesExist, Inv, TypeOK
  <2>7. CASE \E busy \in BOOLEAN : FlushPass(busy)
    <3>1. \E K \in SUBSET Kinds, ok \in BOOLEAN : Commit(Printed(stream, K, <<>>), ok)
      BY <2>7 DEF FlushPass, Kinds
    <3> QED
      BY <1>5, <2>1, <2>2, <3>1, PrintCommit
  <2> QED
    BY <1>6, <2>3, <2>4, <2>5, <2>6, <2>7
<1>7. CASE \/ MountCard \/ ClaimLogId \/ ReclaimDone \/ OpenLogFails \/ RemountCard
           \/ TripSave \/ TripForget \/ HandleTripStart \/ HandleTripEnd
           \/ SaveTripPeriodically \/ SpaceCheck \/ StatusPass \/ Surroundings
           \/ UNCHANGED vars
  BY <1>1, <1>7
  DEF MountCard, ClaimLogId, ReclaimDone, OpenLogFails, RemountCard, TripSave, TripForget,
      HandleTripStart, HandleTripEnd, SaveTripPeriodically, SpaceCheck, StatusPass,
      Surroundings, PowerOn, PowerCut, PullCard, InsertCard, SwapCardOff, ResetNvs, vars
<1> QED
  BY <1>2, <1>3, <1>4, <1>6, <1>7 DEF Next, Handler, Loop

\* open_log and open_snap never truncate a session on the card on which
\* claim_log_id found the number unused: for any faults, in any order.
THEOREM NoOverwriteAlways == Spec => NoOverwrite
<1>1. Inv /\ Fresh /\ [Next]_vars => [KeepsChecked]_vars
  BY StepKeepsChecked
<1> QED
  BY InitInv, InitFresh, StepInv, StepFresh, <1>1, PTL DEF Spec, NoOverwrite, KeepsChecked

=============================================================================
