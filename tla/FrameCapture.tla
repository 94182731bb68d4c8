---------------------------- MODULE FrameCapture -----------------------------
(***************************************************************************)
(* A CAN frame on its way from the receive interrupt on core 1 through the *)
(* frame queue into the raw log: the drain, the DROPPED rows and the       *)
(* commits of src/main/can_logger.c.                                       *)
(*                                                                         *)
(* Frames are numbered as they arrive.  Of the current file only what the  *)
(* properties ask is kept: the first and last frame, how many frames, and  *)
(* the sum of the DROPPED rows printed to it.  Which number it has, and    *)
(* what else it takes to open one, is CanLogger.                           *)
(***************************************************************************)
EXTENDS Integers, Sequences

CONSTANTS
  QueueDepth,       \* FRAME_QUEUE_DEPTH (4096)
  BatchMax,         \* DRAIN_BATCH_MAX (512)
  CommitFailLimit,  \* COMMIT_FAIL_LIMIT (3)
  MaxFrames,        \* bound: frames that arrive
  MaxFaults,        \* bound: writes, commits and opens that fail
  MaxRotations      \* bound: rotations by a trip marker

ASSUME Limits == /\ QueueDepth \in Nat \ {0} /\ BatchMax \in Nat \ {0}
                 /\ CommitFailLimit \in Nat \ {0}
ASSUME Bounds == MaxFrames \in Nat /\ MaxFaults \in Nat /\ MaxRotations \in Nat

VARIABLES
  arrived,           \* frames received so far
  s_frame_queue,
  s_drops,           \* frames that found the queue full
  s_reported_drops,
  pc,                \* the logger: "drain", "markers", "note", "print", "bank",
                     \* "commit", "reopen", "open", "status", "resume"
  batch,
  drops,             \* note_drops: the sample it works with
  s_file,            \* a file is open
  err,               \* its error flag
  rows,              \* what was printed to it
  s_commit_fails,
  unsynced,          \* history: flush passes since the oldest row not on the card
  carried,           \* history: drops before it was opened, among frames after that
  noted, forgotten,  \* history: drops in a DROPPED row, and skipped by a reopen
  left               \* faults and rotations that may still happen

queue == <<arrived, s_frame_queue, s_drops>>
stream == <<s_file, err, rows, unsynced, carried>>
tally == <<s_reported_drops, noted, forgotten>>
vars == <<queue, pc, batch, drops, stream, tally, s_commit_fails, left>>

NoRows == [first |-> 0, last |-> 0, frames |-> 0, marked |-> 0]

\* The capture starts once the open loop has ended, with a file or without.
Init ==
  /\ arrived = 0 /\ s_frame_queue = <<>> /\ s_drops = 0
  /\ pc = "drain" /\ batch = 0 /\ drops = 0
  /\ s_file \in BOOLEAN /\ err = FALSE /\ rows = NoRows
  /\ unsynced = 0 /\ carried = 0
  /\ s_reported_drops = 0 /\ noted = 0 /\ forgotten = 0
  /\ s_commit_fails = 0
  /\ left = [fault |-> MaxFaults, rotation |-> MaxRotations]

Spend(f) == left[f] > 0 /\ left' = [left EXCEPT ![f] = @ - 1]

-----------------------------------------------------------------------------
(* The receive interrupt. *)

\* on_rx_done and can_logger_submit_from_isr.
Arrive ==
  /\ arrived < MaxFrames /\ arrived' = arrived + 1
  /\ IF Len(s_frame_queue) < QueueDepth
     THEN s_frame_queue' = Append(s_frame_queue, arrived + 1) /\ UNCHANGED s_drops
     ELSE s_drops' = s_drops + 1 /\ UNCHANGED s_frame_queue
  /\ UNCHANGED <<pc, batch, drops, stream, tally, s_commit_fails, left>>

-----------------------------------------------------------------------------
(* The drain. *)

WithFrame(r, n) == [r EXCEPT !.first = IF r.frames = 0 THEN n ELSE @,
                             !.last = n, !.frames = @ + 1]

\* A frame is decoded, and written if a file is open and takes rows.  A write
\* that reaches the card and fails sets the error flag for good.
DrainFrame ==
  /\ pc = "drain" /\ batch < BatchMax /\ s_frame_queue # <<>>
  /\ batch' = batch + 1 /\ s_frame_queue' = Tail(s_frame_queue)
  /\ \/ /\ rows' = IF s_file /\ ~err THEN WithFrame(rows, Head(s_frame_queue)) ELSE rows
        /\ UNCHANGED <<err, left>>
     \/ /\ s_file /\ ~err /\ err' = TRUE /\ Spend("fault")
        /\ UNCHANGED rows
  /\ unsynced' = IF s_file /\ unsynced = 0 THEN 1 ELSE unsynced
  /\ UNCHANGED <<arrived, s_drops, pc, drops, s_file, carried, tally, s_commit_fails>>

\* Mutant of EndDrain: a frame is taken from the queue before the batch is found full.
EndDrainLosing ==
  /\ pc = "drain" /\ (batch = BatchMax \/ s_frame_queue = <<>>)
  /\ batch' = 0 /\ pc' = "markers"
  /\ s_frame_queue' = IF s_frame_queue = <<>> THEN <<>> ELSE Tail(s_frame_queue)
  /\ UNCHANGED <<arrived, s_drops, drops, stream, tally, s_commit_fails, left>>

\* The batch is full or the queue empty.  Then come the trip markers, the flush pass
\* and the status pass, in this order, those that are due.
EndDrain ==
  /\ pc = "drain" /\ (batch = BatchMax \/ s_frame_queue = <<>>)
  /\ batch' = 0 /\ pc' = "markers"
  /\ UNCHANGED <<queue, drops, stream, tally, s_commit_fails, left>>

\* No marker is left, and the flush pass is due or not.
MarkersDone ==
  /\ pc = "markers" /\ pc' \in {"note", "status"}
  /\ UNCHANGED <<queue, batch, drops, stream, tally, s_commit_fails, left>>

\* The status pass, if it is due, tries to open a file when there is none.
StatusPass ==
  /\ pc = "status"
  /\ pc' = "drain" \/ (~s_file /\ pc' = "resume")
  /\ UNCHANGED <<queue, batch, drops, stream, tally, s_commit_fails, left>>

-----------------------------------------------------------------------------
(* The flush pass. *)

\* note_drops samples the counter once; the interrupt goes on counting.
SampleDrops ==
  /\ pc = "note"
  /\ drops' = s_drops
  /\ pc' = IF s_drops = s_reported_drops \/ ~s_file THEN "commit" ELSE "print"
  /\ UNCHANGED <<queue, batch, stream, tally, s_commit_fails, left>>

\* The row is printed to the stream, or not and then not banked.
PrintDropped ==
  /\ pc = "print"
  /\ \/ /\ ~err /\ pc' = "bank"
        /\ rows' = [rows EXCEPT !.marked = @ + (drops - s_reported_drops)]
        /\ noted' = noted + (drops - s_reported_drops)
        /\ UNCHANGED <<err, left>>
     \/ /\ pc' = "commit" /\ err' = TRUE
        /\ IF err THEN UNCHANGED left ELSE Spend("fault")
        /\ UNCHANGED <<rows, noted>>
  /\ unsynced' = IF unsynced = 0 THEN 1 ELSE unsynced
  /\ UNCHANGED <<queue, batch, drops, s_file, carried, s_reported_drops, forgotten,
                 s_commit_fails>>

\* Mutant of BankDrops: the counter is read again.
BankLatest ==
  /\ pc = "bank" /\ pc' = "commit" /\ s_reported_drops' = s_drops
  /\ UNCHANGED <<queue, batch, drops, stream, noted, forgotten, s_commit_fails, left>>

BankDrops ==
  /\ pc = "bank" /\ pc' = "commit" /\ s_reported_drops' = drops
  /\ UNCHANGED <<queue, batch, drops, stream, noted, forgotten, s_commit_fails, left>>

SkipCommit ==
  /\ pc = "commit" /\ ~s_file /\ pc' = "status"
  /\ UNCHANGED <<queue, batch, drops, stream, tally, s_commit_fails, left>>

CommitWorks ==
  /\ pc = "commit" /\ s_file /\ ~err /\ pc' = "status"
  /\ unsynced' = 0 /\ s_commit_fails' = 0
  /\ UNCHANGED <<queue, batch, drops, s_file, err, rows, carried, tally, left>>

\* Mutant of CommitFails: the file is never given up.
CommitFailsForever ==
  /\ pc = "commit" /\ s_file /\ pc' = "status"
  /\ IF err THEN UNCHANGED <<err, left>> ELSE err' \in BOOLEAN /\ Spend("fault")
  /\ unsynced' = IF unsynced = 0 THEN 0 ELSE unsynced + 1
  /\ s_commit_fails' = 0
  /\ UNCHANGED <<queue, batch, drops, s_file, rows, carried, tally>>

\* Mutant of CommitFails: the limit is off by one.
CommitFailsLate ==
  /\ pc = "commit" /\ s_file
  /\ IF err THEN UNCHANGED <<err, left>> ELSE err' \in BOOLEAN /\ Spend("fault")
  /\ unsynced' = IF unsynced = 0 THEN 0 ELSE unsynced + 1
  /\ IF s_commit_fails + 1 > CommitFailLimit
     THEN s_commit_fails' = 0 /\ pc' = "reopen"
     ELSE s_commit_fails' = s_commit_fails + 1 /\ pc' = "status"
  /\ UNCHANGED <<queue, batch, drops, s_file, rows, carried, tally>>

\* A failed flush sets the error flag, a failed sync alone does not.  Nothing
\* reads the counter before the reopen that follows the last failure clears it.
CommitFails ==
  /\ pc = "commit" /\ s_file
  /\ IF err THEN UNCHANGED <<err, left>> ELSE err' \in BOOLEAN /\ Spend("fault")
  /\ unsynced' = IF unsynced = 0 THEN 0 ELSE unsynced + 1
  /\ IF s_commit_fails + 1 >= CommitFailLimit
     THEN s_commit_fails' = 0 /\ pc' = "reopen"
     ELSE s_commit_fails' = s_commit_fails + 1 /\ pc' = "status"
  /\ UNCHANGED <<queue, batch, drops, s_file, rows, carried, tally>>

-----------------------------------------------------------------------------
(* A new file. *)

\* The drops that fall between the frames still in the queue and the next one.
DropsAhead ==
  IF s_frame_queue = <<>> THEN 0
  ELSE arrived - Head(s_frame_queue) + 1 - Len(s_frame_queue)

NewFile(open) ==
  /\ carried' = DropsAhead
  /\ s_file' = open /\ err' = FALSE /\ rows' = NoRows /\ unsynced' = 0
  /\ s_commit_fails' = IF open THEN 0 ELSE s_commit_fails

\* reopen_log closes the file given up, and claims, reclaims and opens for a while.
CloseFile ==
  /\ pc = "reopen" /\ pc' = "open"
  /\ NewFile(FALSE)
  /\ UNCHANGED <<queue, batch, drops, tally, left>>

\* Its last line, in the flush pass and in the status pass, takes the drops so far as
\* reported.  If the open fails the card is remounted, and the status pass tries again.
Reopened ==
  /\ \/ pc = "open" /\ pc' = "status"
     \/ pc = "resume" /\ pc' = "drain"
  /\ \/ /\ NewFile(TRUE)
        /\ s_reported_drops' = s_drops
        /\ forgotten' = forgotten + (s_drops - s_reported_drops)
        /\ UNCHANGED left
     \/ /\ NewFile(FALSE) /\ Spend("fault")
        /\ UNCHANGED <<s_reported_drops, forgotten>>
  /\ UNCHANGED <<queue, batch, drops, noted>>

\* The markers open a file without touching the tally: TRIP_END closes one first,
\* TRIP_START opens one when there is none.
Rotate ==
  /\ pc = "markers" /\ left["rotation"] > 0
  /\ \/ NewFile(TRUE) /\ left' = [left EXCEPT !["rotation"] = @ - 1]
     \/ /\ NewFile(FALSE) /\ left["fault"] > 0
        /\ left' = [left EXCEPT !["rotation"] = @ - 1, !["fault"] = @ - 1]
  /\ UNCHANGED <<queue, pc, batch, drops, tally>>

-----------------------------------------------------------------------------

Logger ==
  \/ DrainFrame \/ EndDrain \/ Rotate \/ MarkersDone
  \/ SampleDrops \/ PrintDropped \/ BankDrops \/ SkipCommit \/ CommitWorks \/ CommitFails
  \/ CloseFile \/ Reopened \/ StatusPass

Next == Arrive \/ Logger

Spec == Init /\ [][Next]_vars

-----------------------------------------------------------------------------
(* Properties. *)

Rows == [first : Nat, last : Nat, frames : Nat, marked : Nat]

TypeOK ==
  /\ arrived \in Nat /\ s_frame_queue \in Seq(Nat) /\ Len(s_frame_queue) <= QueueDepth
  /\ s_drops \in Nat /\ s_reported_drops \in Nat /\ drops \in Nat
  /\ pc \in {"drain", "markers", "note", "print", "bank", "commit", "reopen", "open",
              "status", "resume"}
  /\ batch \in 0..BatchMax
  /\ s_file \in BOOLEAN /\ err \in BOOLEAN /\ rows \in Rows
  /\ s_commit_fails \in 0..(CommitFailLimit - 1)
  /\ unsynced \in Nat /\ carried \in Nat /\ noted \in Nat /\ forgotten \in Nat
  /\ left \in [{"fault", "rotation"} -> Nat]

\* Every drop that counts as reported is in a DROPPED row, or was skipped by a
\* reopen, although the interrupt counts while the row is printed.
DropsAccounted ==
  /\ s_reported_drops <= s_drops
  /\ noted + forgotten = (IF pc = "bank" THEN drops ELSE s_reported_drops)

\* The frames missing between the first and the last of a file.
Gap == rows.last - rows.first + 1 - rows.frames

\* The frames missing between the first and last of a file that takes rows are
\* covered by its own DROPPED rows and by the drops still to be reported, but for
\* those dropped before the file was opened, behind frames that were still queued.
GapsCovered ==
  s_file /\ ~err /\ rows.frames > 0 =>
    Gap <= rows.marked + (s_drops - s_reported_drops) + carried

\* The README: "A gap in the capture is recorded in the file itself as a DROPPED=n
\* row".
GapsRecorded ==
  s_file /\ ~err /\ rows.frames > 0 /\ s_reported_drops = s_drops => Gap <= rows.marked

\* The logger never goes on writing into a void: a row that is not on the card
\* was printed at most COMMIT_FAIL_LIMIT flush passes ago.
LossWindow == pc # "reopen" => unsynced <= CommitFailLimit

=============================================================================
