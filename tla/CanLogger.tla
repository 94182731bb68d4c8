------------------------------ MODULE CanLogger ------------------------------
(***************************************************************************)
(* The session lifecycle of the CAN logger task (src/main/can_logger.c)    *)
(* with the retention pass of src/main/sd_store.c: log numbers claimed     *)
(* from NVS, the canlog/snap file pair of a session, trips that survive a  *)
(* power cut, abandoned files, remounted cards.                            *)
(*                                                                         *)
(* One task owns the card, so the logger is a sequential program: `pc` is  *)
(* its control point and `caller` says which handler entered the shared    *)
(* claim / reclaim / open sequence.  Around it the environment cuts the    *)
(* power, pulls and exchanges cards and makes calls fail; each fault kind  *)
(* has a budget.  A stream keeps what was printed and not yet committed:   *)
(* a power cut loses it.                                                   *)
(*                                                                         *)
(* Rows other than the header and the trip markers are abstracted away.    *)
(* The content <<>> is a file that exists but whose header never           *)
(* committed, so that its session never began.                             *)
(***************************************************************************)
EXTENDS Integers, Sequences

CONSTANTS
  Cards,            \* the SD cards that may be in the slot
  NoCard,           \* no card in the slot, or nothing mounted
  Absent,           \* content of a file that does not exist
  MaxId,            \* the last log number before the wrap (9999 in the code)
  OpenRetryLimit,   \* OPEN_RETRY_LIMIT (12)
  CommitFailLimit,  \* COMMIT_FAIL_LIMIT (3)
  PreUsed,          \* per card, numbers of sessions that another board wrote
  ReadOnly,         \* cards that refuse every write
  Budgets           \* how often each kind of fault, or a marker, may happen

Kinds == {"raw", "snap"}
Ids == 1..MaxId
Row == {"header", "TRIP_START", "TRIP_END"}
Content == Seq(Row) \cup {Absent}
FaultKinds == {"cut", "pull", "swap", "io", "nvsOpen", "nvsWrite", "nvsReset", "marker"}

ASSUME ModelValues == NoCard \notin Cards /\ Absent \notin Seq(Row)
ASSUME Limits == /\ MaxId \in Nat /\ MaxId >= 2
                 /\ OpenRetryLimit \in Nat \ {0}
                 /\ CommitFailLimit \in Nat \ {0}
ASSUME Environment == /\ PreUsed \in [Cards -> SUBSET Ids]
                      /\ ReadOnly \subseteq Cards
                      /\ Budgets \subseteq [FaultKinds -> Nat]

VARIABLES
  nvsId,           \* NVS: session_id, 0 when the key is absent
  nvsTrip,         \* NVS: a trip record is stored
  file,            \* the files of each card
  inserted,        \* the card in the slot
  mcard,           \* the card that is mounted
  mlive,           \* the mounted card has stayed in the slot since
  pc, caller,      \* the logger task's control point
  s_log_id,        \* number of the current session, 0 before the first claim
  stream,          \* s_file ("raw") and s_snap ("snap"); id 0 is NULL
  s_trip_active,
  s_commit_fails,
  attempt,         \* the open attempt of the boot loop
  victim,          \* the session a retention pass is deleting
  checkedOn,       \* history: the card on which s_log_id was found unused
  promised,        \* what the last marker reply told the phone
  left             \* faults that may still happen

nvs == <<nvsId, nvsTrip>>
slot == <<inserted, mcard, mlive>>
control == <<pc, caller, attempt, victim>>
session == <<s_log_id, stream, s_commit_fails, checkedOn>>
trip == <<s_trip_active, promised>>
vars == <<nvs, file, slot, control, session, trip, left>>

-----------------------------------------------------------------------------
(* Faults and outcomes of calls. *)

Spend(f) == left[f] > 0 /\ left' = [left EXCEPT ![f] = @ - 1]

Writable == mlive /\ mcard \notin ReadOnly

\* An access to the card works, or fails: always on a card that is gone or
\* write protected, otherwise by an I/O error.
IoWorks == Writable /\ UNCHANGED left
IoFails == IF Writable THEN Spend("io") ELSE UNCHANGED left

\* The streams that fail in one pass over both: on a card that takes no writes
\* at least those with something to write.
FailingStreams(s, bad) ==
  IF Writable THEN \/ bad = {} /\ UNCHANGED left
                   \/ bad # {} /\ Spend("io")
              ELSE {k \in Kinds : s[k].dirty} \subseteq bad /\ UNCHANGED left

-----------------------------------------------------------------------------
(* The stdio streams: buf holds the rows, and dirty says whether anything at *)
(* all, was printed and not yet synced.                                      *)

Closed == [id |-> 0, buf |-> <<>>, dirty |-> FALSE, err |-> FALSE]
IsOpen(s, k) == s[k].id # 0
s_file == stream["raw"].id
s_snap == stream["snap"].id

\* Once the error flag is set every later write is discarded.
Printed(s, K, rows) ==
  [k \in Kinds |-> IF k \in K /\ IsOpen(s, k) /\ ~s[k].err
                   THEN [s[k] EXCEPT !.buf = @ \o rows, !.dirty = TRUE]
                   ELSE s[k]]

\* What the streams in K hold reaches their files on the mounted card.
Landed(s, K) ==
  [k \in Kinds |-> [c \in Cards |-> [i \in Ids |->
     IF k \in K /\ c = mcard /\ i = s[k].id
     THEN file[k][c][i] \o s[k].buf ELSE file[k][c][i]]]]

\* fflush and fsync of both streams: a failed fflush sets the error flag and
\* loses the buffer, a failed fsync alone leaves it pending.
Synced(s, bad, latch) ==
  [k \in Kinds |-> IF ~IsOpen(s, k) \/ k \in bad \ latch THEN s[k]
                   ELSE [s[k] EXCEPT !.buf = <<>>, !.dirty = FALSE,
                                     !.err = @ \/ k \in latch]]

\* commit() with s_file open, given what was just printed.  The result follows
\* the raw log only.
Commit(s, ok) ==
  \E bad \in SUBSET Kinds : \E latch \in SUBSET bad :
    /\ FailingStreams(s, bad)
    /\ file' = Landed(s, Kinds \ bad)
    /\ stream' = Synced(s, bad, latch)
    /\ ok = (~s["raw"].err /\ "raw" \notin bad)

\* fclose of the streams in K, after what was just printed.
Close(s, K) ==
  \E bad \in SUBSET Kinds :
    /\ FailingStreams(s, bad)
    /\ file' = Landed(s, K \ bad)
    /\ stream' = [k \in Kinds |-> IF k \in K THEN Closed ELSE s[k]]

-----------------------------------------------------------------------------
(* Log numbers. *)

\* Mutant of NextId: the number leaves the four digits.
NextIdUnwrapped(i) == i + 1

NextId(i) == IF i >= MaxId THEN 1 ELSE i + 1

\* session_files_exist() for every number: a card that is gone shows nothing.
Used(c) == {i \in Ids : file["raw"][c][i] # Absent \/ file["snap"][c][i] # Absent}
SeenUsed == IF mlive THEN Used(mcard) ELSE {}

\* The k-th number after id0, wrapping at MaxId.
Nth(id0, k) == IF id0 + k <= MaxId THEN id0 + k ELSE id0 + k - MaxId

\* The probing loop of claim_log_id ends at the k-th number: those before are in
\* use, and it is not, unless the bound stops the loop.
ProbeStops(id0, used, k) ==
  /\ \A j \in 0..(k - 1) : Nth(id0, j) \in used
  /\ Nth(id0, k) \notin used \/ k = MaxId - 1

-----------------------------------------------------------------------------
(* Initial state: the board is off, with a card of another board in the slot *)
(* or none, and NVS empty.                                                   *)

OldContent(c, i) == IF i \in PreUsed[c] THEN <<"header">> ELSE Absent

Init ==
  /\ nvsId = 0 /\ nvsTrip = FALSE
  /\ file = [k \in Kinds |-> [c \in Cards |-> [i \in Ids |-> OldContent(c, i)]]]
  /\ inserted \in Cards \cup {NoCard} /\ mcard = NoCard /\ mlive = FALSE
  /\ pc = "off" /\ caller = "none" /\ attempt = 0 /\ victim = 0
  /\ s_log_id = 0 /\ stream = [k \in Kinds |-> Closed]
  /\ s_commit_fails = 0 /\ checkedOn = NoCard
  /\ s_trip_active = FALSE /\ promised = "idle"
  /\ left \in Budgets

Goto(p, c) == pc' = p /\ caller' = c

-----------------------------------------------------------------------------
(* Boot: the head of can_logger_task. *)

\* trip_resume(): the trip record is read before the card is touched.  When NVS
\* cannot be opened the trip is not resumed.
PowerOn ==
  /\ pc = "off"
  /\ Goto("mount", "boot")
  /\ \/ s_trip_active' = nvsTrip /\ UNCHANGED left
     \/ nvsTrip /\ s_trip_active' = FALSE /\ Spend("nvsOpen")
  /\ UNCHANGED <<nvs, file, slot, attempt, victim, session, promised>>

\* sd_store_mount(): works on any card in the slot, unless an access fails.
MountCard ==
  /\ pc = "mount" /\ inserted # NoCard
  /\ mcard' = inserted /\ mlive' = TRUE
  /\ Goto("claim", "boot")
  /\ UNCHANGED <<nvs, file, inserted, attempt, victim, session, trip, left>>

\* claim_log_id(): without NVS the number is 1, whatever is on the card.
ClaimLogId ==
  /\ pc = "claim" /\ pc' = "reclaim"
  /\ \/ \E k \in 0..(MaxId - 1) :
          LET id0 == IF nvsId = 0 THEN 1 ELSE nvsId
              id  == Nth(id0, k)
          IN  /\ ProbeStops(id0, SeenUsed, k)
              /\ s_log_id' = id
              /\ checkedOn' = IF mlive /\ id \notin SeenUsed THEN mcard ELSE NoCard
              /\ \/ nvsId' = NextId(id) /\ UNCHANGED left
                 \/ nvsId' = nvsId /\ Spend("nvsWrite")
     \/ /\ s_log_id' = 1 /\ checkedOn' = NoCard
        /\ nvsId' = nvsId /\ Spend("nvsOpen")
  /\ UNCHANGED <<nvsTrip, file, slot, caller, attempt, victim, stream,
                 s_commit_fails, trip>>

-----------------------------------------------------------------------------
(* Retention: sd_store_reclaim(), entered before every open and from the     *)
(* space check.  How much room the card has is not modelled: it may be short *)
(* before each deletion.                                                     *)

\* Mutant of Candidates: the session being written is not spared.
CandidatesWithCurrent(keep) == {i \in Ids : file["raw"][mcard][i] # Absent}

Candidates(keep) == {i \in Ids \ {keep} : file["raw"][mcard][i] # Absent}

\* unlink of the raw log of the lowest number other than the current session's.
ReclaimUnlink ==
  /\ pc = "reclaim" /\ IoWorks
  /\ victim' \in Candidates(s_log_id)
  /\ \A i \in Candidates(s_log_id) : victim' <= i
  /\ file' = [file EXCEPT !["raw"][mcard][victim'] = Absent]
  /\ pc' = "reclaimSnap"
  /\ UNCHANGED <<nvs, slot, caller, attempt, session, trip>>

\* unlink of its snapshot: a failure is ignored.
ReclaimUnlinkSnap ==
  /\ pc = "reclaimSnap" /\ pc' = "reclaim" /\ victim' = 0
  /\ \/ IoWorks /\ file' = [file EXCEPT !["snap"][mcard][victim] = Absent]
     \/ IoFails /\ file' = file
  /\ UNCHANGED <<nvs, slot, caller, attempt, session, trip>>

\* Enough room, no candidate left, or a deletion failed.
ReclaimDone ==
  /\ pc = "reclaim"
  /\ IF caller = "space" THEN Goto("loop", "none") ELSE Goto("open", caller)
  /\ UNCHANGED <<nvs, file, slot, attempt, victim, session, trip, left>>

-----------------------------------------------------------------------------
(* Opening a session. *)

\* fopen(.., "w") of the raw log: truncates whatever has that number.
OpenLog ==
  /\ pc = "open" /\ pc' = "header" /\ IoWorks
  /\ file' = [file EXCEPT !["raw"][mcard][s_log_id] = <<>>]
  /\ stream' = [stream EXCEPT !["raw"] = [Closed EXCEPT !.id = s_log_id]]
  /\ UNCHANGED <<nvs, slot, caller, attempt, victim, s_log_id, s_commit_fails,
                 checkedOn, trip>>

RetryOrLoop(n) == IF n < OpenRetryLimit THEN Goto("open", "boot") ELSE Goto("loop", "none")

\* Mutant of GiveUp: a failed reopen is not followed by a remount.
GiveUpWithoutRemount ==
  /\ attempt' = IF caller = "boot" THEN attempt + 1 ELSE attempt
  /\ promised' = IF caller \in {"tripStart", "tripEnd"} THEN "idle" ELSE promised
  /\ IF caller = "boot" THEN RetryOrLoop(attempt + 1) ELSE Goto("loop", "none")

\* Mutant of GiveUp: the boot loop is not bounded.
GiveUpUncounted ==
  /\ attempt' = attempt
  /\ promised' = IF caller \in {"tripStart", "tripEnd"} THEN "idle" ELSE promised
  /\ \/ caller = "boot" /\ Goto("open", "boot")
     \/ caller \in {"abandon", "status"} /\ Goto("remount", caller)
     \/ caller \in {"tripStart", "tripEnd"} /\ Goto("loop", "none")

\* What each caller of open_log() does when it returns false: the boot loop
\* counts and remounts once, the reopen of the flush and status passes falls
\* back to a remount, the marker handlers answer.
GiveUp ==
  /\ attempt' = IF caller = "boot" THEN attempt + 1 ELSE attempt
  /\ promised' = IF caller \in {"tripStart", "tripEnd"} THEN "idle" ELSE promised
  /\ \/ caller = "boot" /\ attempt = OpenRetryLimit \div 2 /\ Goto("remount", "boot")
     \/ caller = "boot" /\ attempt # OpenRetryLimit \div 2 /\ RetryOrLoop(attempt + 1)
     \/ caller \in {"abandon", "status"} /\ Goto("remount", caller)
     \/ caller \in {"tripStart", "tripEnd"} /\ Goto("loop", "none")

OpenLogFails ==
  /\ pc = "open" /\ IoFails
  /\ GiveUp
  /\ UNCHANGED <<nvs, file, slot, victim, session, s_trip_active>>

\* The header is committed at once.  If that fails the stream is closed and the
\* open has failed; the file stays behind without a session in it.
CommitHeader ==
  /\ pc = "header"
  /\ \/ /\ Commit(Printed(stream, {"raw"}, <<"header">>), TRUE)
        /\ s_commit_fails' = 0
        /\ Goto("openSnap", caller)
        /\ UNCHANGED <<attempt, promised>>
     \/ /\ IoFails
        /\ stream' = [stream EXCEPT !["raw"] = Closed]
        /\ GiveUp
        /\ UNCHANGED <<file, s_commit_fails>>
  /\ UNCHANGED <<nvs, slot, victim, s_log_id, checkedOn, s_trip_active>>

\* Mutant of AfterOpen: a running trip is not marked in the new files.
AfterOpenUnmarked ==
  \/ caller = "tripStart" /\ Goto("tripBegin", caller)
  \/ caller # "tripStart" /\ Goto("loop", "none")

\* Where the callers of open_log() go on once the pair is open.
AfterOpen ==
  \/ caller \in {"boot", "abandon", "status"} /\ s_trip_active /\ Goto("rows", caller)
  \/ caller \in {"boot", "abandon", "status"} /\ ~s_trip_active /\ Goto("loop", "none")
  \/ caller = "tripStart" /\ Goto("tripBegin", caller)
  \/ caller = "tripEnd" /\ Goto("loop", "none")

\* open_snap(): a missing snapshot file is not fatal, and the flush of its
\* header is not checked.
OpenSnap ==
  /\ pc = "openSnap" /\ AfterOpen
  /\ promised' = IF caller = "tripEnd" THEN "idle" ELSE promised
  /\ \/ /\ IoWorks
        /\ file' = [file EXCEPT !["snap"][mcard][s_log_id] = <<>>]
        /\ stream' = Printed([stream EXCEPT !["snap"] = [Closed EXCEPT !.id = s_log_id]],
                           {"snap"}, <<"header">>)
     \/ /\ IoFails
        /\ UNCHANGED <<file, stream>>
     \/ /\ Writable /\ IoFails
        /\ file' = [file EXCEPT !["snap"][mcard][s_log_id] = <<>>]
        /\ stream' = [stream EXCEPT !["snap"] = [Closed EXCEPT !.id = s_log_id,
                                                              !.err = TRUE]]
  /\ UNCHANGED <<nvs, slot, attempt, victim, s_log_id, s_commit_fails, checkedOn,
                 s_trip_active>>

\* write_trip_start_rows() of a trip that goes on in a new session.  The result
\* of its commit is ignored.
WriteTripStartRows ==
  /\ pc = "rows" /\ Goto("loop", "none")
  /\ \E ok \in BOOLEAN : Commit(Printed(stream, Kinds, <<"TRIP_START">>), ok)
  /\ UNCHANGED <<nvs, slot, attempt, victim, s_log_id, s_commit_fails, checkedOn, trip>>

\* remount_card(): closes what is open, unmounts, and mounts what is in the slot.
RemountCard ==
  /\ pc = "remount"
  /\ IF caller = "boot" THEN RetryOrLoop(attempt) ELSE Goto("loop", "none")
  /\ stream' = [k \in Kinds |-> Closed]
  /\ \/ /\ inserted # NoCard /\ mcard' = inserted /\ mlive' = TRUE /\ UNCHANGED left
     \/ /\ mcard' = NoCard /\ mlive' = FALSE
        /\ IF inserted = NoCard THEN UNCHANGED left ELSE Spend("io")
  /\ UNCHANGED <<nvs, file, inserted, attempt, victim, s_log_id, s_commit_fails,
                 checkedOn, trip>>

-----------------------------------------------------------------------------
(* Trip markers.  The phone waits for the reply: until then what it believes *)
(* is unknown.                                                               *)

\* Mutant of HandleTripStart: a running trip is started again.
RestartRunningTrip ==
  /\ pc = "loop" /\ Spend("marker") /\ promised' = "unknown"
  /\ \/ s_file = 0 /\ Goto("open", "tripStart")
     \/ s_file # 0 /\ s_snap = 0 /\ Goto("openSnap", "tripStart")
     \/ s_file # 0 /\ s_snap # 0 /\ Goto("tripBegin", "tripStart")
  /\ UNCHANGED <<nvs, file, slot, attempt, victim, session, s_trip_active>>

\* handle_trip_start(): a running trip is kept; otherwise the pair is opened,
\* under the number last claimed, if it is not open.
HandleTripStart ==
  /\ pc = "loop" /\ Spend("marker")
  /\ IF s_trip_active
     THEN Goto("loop", "none") /\ promised' = "running"
     ELSE /\ promised' = "unknown"
          /\ \/ s_file = 0 /\ Goto("open", "tripStart")
             \/ s_file # 0 /\ s_snap = 0 /\ Goto("openSnap", "tripStart")
             \/ s_file # 0 /\ s_snap # 0 /\ Goto("tripBegin", "tripStart")
  /\ UNCHANGED <<nvs, file, slot, attempt, victim, session, s_trip_active>>

\* Mutant of TripBegin: the phone is told before the trip is saved.
TripBeginAnswersEarly ==
  /\ pc = "tripBegin" /\ Goto("tripSave", "tripStart")
  /\ s_trip_active' = TRUE /\ promised' = "running"
  /\ \E ok \in BOOLEAN : Commit(Printed(stream, Kinds, <<"TRIP_START">>), ok)
  /\ UNCHANGED <<nvs, slot, attempt, victim, s_log_id, s_commit_fails, checkedOn>>

\* The trip begins; its rows are committed, and the result ignored.
TripBegin ==
  /\ pc = "tripBegin" /\ Goto("tripSave", "tripStart")
  /\ s_trip_active' = TRUE
  /\ \E ok \in BOOLEAN : Commit(Printed(stream, Kinds, <<"TRIP_START">>), ok)
  /\ UNCHANGED <<nvs, slot, attempt, victim, s_log_id, s_commit_fails, checkedOn,
                 promised>>

\* trip_save() of handle_trip_start(), then marker_done(true) whatever it did.
TripSave ==
  /\ pc = "tripSave" /\ Goto("loop", "none")
  /\ \/ nvsTrip' = TRUE /\ UNCHANGED left
     \/ nvsTrip' = nvsTrip /\ Spend("nvsWrite")
  /\ promised' = "running"
  /\ UNCHANGED <<nvsId, file, slot, attempt, victim, session, s_trip_active>>

\* handle_trip_end(): nothing to end is not an error.
HandleTripEnd ==
  /\ pc = "loop" /\ Spend("marker")
  /\ s_trip_active' = FALSE
  /\ IF s_trip_active
     THEN Goto("tripForget", "tripEnd") /\ promised' = "unknown"
     ELSE Goto("loop", "none") /\ promised' = "idle"
  /\ UNCHANGED <<nvs, file, slot, attempt, victim, session>>

\* trip_forget(): forgotten before the summary is written.
TripForget ==
  /\ pc = "tripForget" /\ Goto("endSnap", "tripEnd")
  /\ \/ nvsTrip' = FALSE /\ UNCHANGED left
     \/ nvsTrip' = nvsTrip /\ Spend("nvsOpen")
  /\ UNCHANGED <<nvsId, file, slot, attempt, victim, session, trip>>

\* The summary row of the snapshot file, which is then closed.
EndSnap ==
  /\ pc = "endSnap" /\ Goto("endRaw", "tripEnd")
  /\ Close(Printed(stream, {"snap"}, <<"TRIP_END">>), {"snap"})
  /\ UNCHANGED <<nvs, slot, attempt, victim, s_log_id, s_commit_fails, checkedOn, trip>>

\* Mutant of EndRaw: without a file the marker is never answered.
EndRawSilent ==
  /\ pc = "endRaw"
  /\ Close(Printed(stream, {"raw"}, <<"TRIP_END">>), {"raw"})
  /\ IF s_file # 0 THEN Goto("claim", "tripEnd") ELSE Goto("loop", "none")
  /\ UNCHANGED <<nvs, slot, attempt, victim, s_log_id, s_commit_fails, checkedOn, trip>>

\* The same of the raw log; then the next session is opened before the reply,
\* but only if there was a file.
EndRaw ==
  /\ pc = "endRaw"
  /\ Close(Printed(stream, {"raw"}, <<"TRIP_END">>), {"raw"})
  /\ IF s_file # 0
     THEN Goto("claim", "tripEnd") /\ promised' = promised
     ELSE Goto("loop", "none") /\ promised' = "idle"
  /\ UNCHANGED <<nvs, slot, attempt, victim, s_log_id, s_commit_fails, checkedOn,
                 s_trip_active>>

-----------------------------------------------------------------------------
(* The periodic passes of the main loop. *)

\* Mutant of SaveTripPeriodically: saved whether or not a trip runs.
SaveWithoutTrip ==
  /\ pc = "loop" /\ nvsTrip' = TRUE
  /\ UNCHANGED <<nvsId, file, slot, control, session, trip, left>>

\* Every TRIP_SAVE_INTERVAL_MS while a trip runs.
SaveTripPeriodically ==
  /\ pc = "loop" /\ s_trip_active
  /\ nvsTrip' = TRUE
  /\ UNCHANGED <<nvsId, file, slot, control, session, trip, left>>

\* Every FLUSH_INTERVAL_MS, with or without frames (busy) since the last one.
\* The snapshot row is always there.  The counter is reset once the abandoned
\* file has been replaced, or not; nothing reads it before.
FlushPass(busy) ==
  /\ pc = "loop" /\ s_file # 0
  /\ \/ /\ Commit(Printed(stream, IF busy THEN Kinds ELSE {"snap"}, <<>>), TRUE)
        /\ s_commit_fails' = 0
        /\ Goto("loop", "none")
     \/ /\ Commit(Printed(stream, IF busy THEN Kinds ELSE {"snap"}, <<>>), FALSE)
        /\ IF s_commit_fails + 1 >= CommitFailLimit
           THEN s_commit_fails' = 0 /\ Goto("reopen", "abandon")
           ELSE s_commit_fails' = s_commit_fails + 1 /\ Goto("loop", "none")
  /\ UNCHANGED <<nvs, slot, attempt, victim, s_log_id, checkedOn, trip>>

\* Every SPACE_CHECK_INTERVAL_MS.
SpaceCheck ==
  /\ pc = "loop" /\ Goto("reclaim", "space")
  /\ UNCHANGED <<nvs, file, slot, attempt, victim, session, trip, left>>

\* Every STATUS_INTERVAL_MS: without a file, try a new session.
StatusPass ==
  /\ pc = "loop" /\ s_file = 0
  /\ Goto("reopen", "status")
  /\ UNCHANGED <<nvs, file, slot, attempt, victim, session, trip, left>>

\* Mutant of ReopenLog: the snapshot file stays open.
ReopenKeepsSnap ==
  /\ pc = "reopen" /\ Goto("claim", caller)
  /\ Close(stream, {"raw"})
  /\ UNCHANGED <<nvs, slot, attempt, victim, s_log_id, s_commit_fails, checkedOn, trip>>

\* Mutant of ReopenLog: the number of the abandoned session is used again.
ReopenSameNumber ==
  /\ pc = "reopen" /\ Goto("open", caller)
  /\ Close(stream, Kinds)
  /\ UNCHANGED <<nvs, slot, attempt, victim, s_log_id, s_commit_fails, checkedOn, trip>>

\* The head of reopen_log(): both files of the old session are closed.
ReopenLog ==
  /\ pc = "reopen" /\ Goto("claim", caller)
  /\ Close(stream, Kinds)
  /\ UNCHANGED <<nvs, slot, attempt, victim, s_log_id, s_commit_fails, checkedOn, trip>>

-----------------------------------------------------------------------------
(* The environment. *)

\* The supply goes: what was not synced is lost.
PowerCut ==
  /\ pc # "off" /\ Spend("cut")
  /\ Goto("off", "none") /\ attempt' = 0 /\ victim' = 0
  /\ mcard' = NoCard /\ mlive' = FALSE
  /\ s_log_id' = 0 /\ stream' = [k \in Kinds |-> Closed]
  /\ s_commit_fails' = 0 /\ checkedOn' = NoCard
  /\ s_trip_active' = FALSE
  /\ UNCHANGED <<nvs, file, inserted, promised>>

\* The card is pulled while the board runs; the mount does not notice.
PullCard ==
  /\ pc # "off" /\ inserted # NoCard /\ Spend("pull")
  /\ inserted' = NoCard /\ mlive' = FALSE
  /\ UNCHANGED <<nvs, file, mcard, control, session, trip>>

InsertCard ==
  /\ inserted = NoCard
  /\ inserted' \in Cards
  /\ UNCHANGED <<nvs, file, mcard, mlive, control, session, trip, left>>

\* Another card while the board is off.
SwapCardOff ==
  /\ pc = "off" /\ inserted # NoCard /\ Spend("swap")
  /\ inserted' \in Cards \ {inserted}
  /\ UNCHANGED <<nvs, file, mcard, mlive, control, session, trip>>

\* NVS is erased, or the board replaced, between two power cycles.
ResetNvs ==
  /\ pc = "off" /\ Spend("nvsReset")
  /\ nvsId' = 0 /\ nvsTrip' = FALSE
  /\ UNCHANGED <<file, slot, control, session, trip>>

-----------------------------------------------------------------------------

\* What the logger task does next inside a handler, or at boot.
Handler ==
  \/ MountCard \/ ClaimLogId \/ ReclaimUnlink \/ ReclaimUnlinkSnap \/ ReclaimDone
  \/ OpenLog \/ OpenLogFails \/ CommitHeader \/ OpenSnap \/ WriteTripStartRows
  \/ RemountCard \/ TripBegin \/ TripSave \/ TripForget \/ EndSnap \/ EndRaw
  \/ ReopenLog

\* What it may start from its main loop.
Loop ==
  \/ HandleTripStart \/ HandleTripEnd \/ SaveTripPeriodically
  \/ \E busy \in BOOLEAN : FlushPass(busy)
  \/ SpaceCheck \/ StatusPass

Surroundings ==
  PowerOn \/ PowerCut \/ PullCard \/ InsertCard \/ SwapCardOff \/ ResetNvs

Next == Handler \/ Loop \/ Surroundings

Spec == Init /\ [][Next]_vars

\* The board is switched on again and a card put back some time; the task runs
\* its handlers to the end, and its timers bring round each periodic pass, with
\* traffic on the bus.
Fairness ==
  /\ WF_vars(PowerOn) /\ WF_vars(InsertCard) /\ WF_vars(Handler)
  /\ SF_vars(FlushPass(TRUE)) /\ SF_vars(StatusPass)

FairSpec == Spec /\ Fairness

-----------------------------------------------------------------------------
(* Properties. *)

Disk == [Kinds -> [Cards -> [Ids -> Content]]]
Stream == [id : 0..MaxId, buf : Seq(Row), dirty : BOOLEAN, err : BOOLEAN]
Callers == {"none", "boot", "abandon", "status", "space", "tripStart", "tripEnd"}
ControlPoints == {"off", "mount", "claim", "reclaim", "reclaimSnap", "open", "header",
                  "openSnap", "rows", "loop", "tripBegin", "tripSave", "tripForget",
                  "endSnap", "endRaw", "reopen", "remount"}

\* The types of the state; nothing is mounted exactly when there is no card to
\* write to.
TypeOK ==
  /\ nvsId \in 0..MaxId /\ nvsTrip \in BOOLEAN
  /\ file \in Disk
  /\ inserted \in Cards \cup {NoCard} /\ mcard \in Cards \cup {NoCard}
  /\ mlive \in BOOLEAN /\ (mlive => mcard \in Cards)
  /\ pc \in ControlPoints /\ caller \in Callers
  /\ attempt \in Nat /\ victim \in 0..MaxId
  /\ s_log_id \in 0..MaxId /\ stream \in [Kinds -> Stream]
  /\ s_commit_fails \in Nat /\ checkedOn \in Cards \cup {NoCard}
  /\ s_trip_active \in BOOLEAN /\ promised \in {"idle", "unknown", "running"}
  /\ left \in [FaultKinds -> Nat]

\* The pair of files belongs together whatever failed while it was opened: a
\* snapshot file is open only next to the raw log of the same session, and that
\* session is the one last claimed (until reopen_log or handle_trip_end, which
\* close first, claims the next).
SessionPair ==
  /\ s_snap # 0 => s_file = s_snap
  /\ s_file # 0 => s_file = s_log_id

\* sd_store_reclaim never deletes a file that is being written, whichever of its
\* five call sites runs it and whatever card is mounted by then.
OpenFilesExist ==
  \A k \in Kinds :
    IsOpen(stream, k) => mcard \in Cards /\ file[k][mcard][stream[k].id] # Absent

Begun(content) == content # Absent /\ content # <<>>
Truncates(k, c, i) == Begun(file[k][c][i]) /\ file'[k][c][i] = <<>>

\* open_log and open_snap open with "w": they never truncate a session on a card
\* on which claim_log_id found the number unused, however often the open was
\* retried, the card remounted or the marker handlers reused the number.
NoOverwrite ==
  [][\A k \in Kinds, c \in Cards, i \in Ids : Truncates(k, c, i) => checkedOn # c]_vars

\* What the comments of claim_log_id promise, as long as the card has a number to
\* give: "numbers still in use on the card are skipped" and nothing is truncated; here
\* of the files that handle_trip_start opens when there are none.  The comment of the
\* status pass says why a fresh number is needed at this point: "the card may have been
\* swapped, and the old number could now collide with a file already on the new card".
TripStartKeepsSessions ==
  [][\A k \in Kinds, c \in Cards, i \in Ids :
       pc = "open" /\ caller = "tripStart" /\ Used(c) # Ids => ~Truncates(k, c, i)]_vars

\* The trip markers of a file make sense to the phone's parser: a TRIP_END only
\* after a TRIP_START of its own file, never two starts, nothing after the end.
\* Holds across abandoned files, resumed trips and failed writes.
TripRows == {<<>>, <<"header">>, <<"header", "TRIP_START">>,
             <<"header", "TRIP_START", "TRIP_END">>}
TripRowsWellFormed ==
  \A k \in Kinds, c \in Cards, i \in Ids : file[k][c][i] \in TripRows \cup {Absent}

\* A trip that runs has its TRIP_START in every file that is being written and
\* whose stream still takes rows, so none of its rows lie outside a job.
RunningTripMarked ==
  pc = "loop" /\ s_trip_active =>
    \A k \in Kinds :
      mlive /\ IsOpen(stream, k) /\ ~stream[k].err =>
        file[k][mcard][stream[k].id] \o stream[k].buf
          = <<"header", "TRIP_START">>

\* What the phone was told agrees with what a power cut now would leave: after
\* the OK to TRIP_START the trip is stored and running (or not yet resumed),
\* after the OK to TRIP_END, or a refused start, it is neither.
TripAgreement ==
  /\ promised = "running" => nvsTrip /\ (pc = "off" \/ s_trip_active)
  /\ promised = "idle"    => ~nvsTrip /\ ~s_trip_active

\* The logger implements the service the phone relies on: no cut, remount, reopen
\* or boot starts, ends or loses a trip; only a marker does, and the answer to it
\* is what a power cut would leave.
Service == INSTANCE TripService WITH stored <- nvsTrip, view <- promised
TripServiceSpec == Service!Spec

\* Whatever went wrong, once the faults stop the logger writes again to a card
\* that is in the slot, through a stream that takes rows, unless the card that
\* stays in the slot is write protected.
LoggingRecovers ==
  \/ []<>(s_file # 0 /\ mlive /\ ~stream["raw"].err)
  \/ []<>(inserted \in ReadOnly)

\* A card that cannot be written never keeps the boot from reaching the main
\* loop, where CAN runs.
BootReachesLoop == pc = "claim" ~> pc \in {"loop", "off"}

\* Every marker that was taken from the queue is answered, unless the power goes.
MarkerAnswered == caller \in {"tripStart", "tripEnd"} ~> promised # "unknown" \/ pc = "off"

=============================================================================
