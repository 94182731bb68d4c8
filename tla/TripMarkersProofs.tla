-------------------------- MODULE TripMarkersProofs --------------------------
(***************************************************************************)
(* Proofs about TripMarkers, for every depth of the queues, every number   *)
(* of commands and every delay of the logger: a wait takes its own         *)
(* completion, and an answer agrees with the trip, unless a marker was     *)
(* still to be decided.                                                    *)
(***************************************************************************)
EXTENDS TripMarkers, FiniteSetTheorems, TLAPS

Places == 1..Len(s_marker_queue)

\* Markers are handled in the order of their numbers: the completion in the
\* semaphore is of an earlier one than the marker being handled, and that one
\* earlier than those in the queue.
OrderInv ==
  /\ s_marker_sem <= posted
  /\ marker # NoMarker => marker.n <= posted /\ s_marker_sem < marker.n
  /\ \A i \in Places : s_marker_queue[i].n <= posted /\ s_marker_sem < s_marker_queue[i].n
  /\ marker # NoMarker => \A i \in Places : marker.n < s_marker_queue[i].n
  /\ \A i, j \in Places : i < j => s_marker_queue[i].n < s_marker_queue[j].n

\* The markers that are not handled yet are late, but for the one waited for.
Unhandled(n) == (marker # NoMarker /\ marker.n = n) \/ \E i \in Places : s_marker_queue[i].n = n
LateInv ==
  /\ \A n \in late : n <= posted
  /\ \A n \in Nat : Unhandled(n) => n \in late \/ (pc = "wait" /\ n = posted)
  /\ pc = "wait" => posted # 0 /\ posted \notin late

\* With nothing late when a marker was posted, only its own completion arrives.
WaitInv ==
  /\ pc = "send" /\ ~behind => late = {} /\ s_marker_sem = 0
  /\ pc = "wait" /\ ~behind => late = {} /\ s_marker_sem \in {0, posted}
  /\ pc = "read" => took = posted \/ behind
  /\ pc = "read" /\ ~behind => late = {}

\* Nothing is under way that may still change the trip.
Settled == s_marker_queue = <<>> /\ logger # "handle"

\* The outcome that the command task is about to read, or to take; and what it told
\* the phone.
Outcome == s_trip_active <=> (s_marker_ok /\ cmd = "TRIP_START")
OutcomeInv ==
  /\ pc = "wait" =>
       /\ marker # NoMarker /\ marker.n = posted => marker.type = cmd
       /\ \A i \in Places : s_marker_queue[i].n = posted => s_marker_queue[i].type = cmd
  /\ logger = "work" => (s_trip_active <=> marker.type = "TRIP_START")
  /\ pc = "wait" /\ s_marker_sem = posted => Outcome
  /\ pc = "read" /\ took = posted => Outcome /\ Settled /\ marker = NoMarker
  /\ sure => pc = "idle" /\ Settled

Inv == TypeOK /\ OrderInv /\ LateInv /\ WaitInv /\ OutcomeInv /\ AnswersAgree

-----------------------------------------------------------------------------
(* Facts about the markers under way. *)

\* What is queued or being handled has a number and a type.
LEMMA Numbers ==
  ASSUME TypeOK
  PROVE  /\ \A i \in Places : s_marker_queue[i] \in Numbered /\ s_marker_queue[i].n \in Nat \ {0}
         /\ marker # NoMarker =>
              marker \in Numbered /\ marker.n \in Nat \ {0} /\ marker.type \in Markers
<1>1. \A m \in Numbered : m.n \in Nat \ {0} /\ m.type \in Markers
  BY DEF Numbered
<1>2. \A i \in Places : s_marker_queue[i] \in Numbered
  BY DEF TypeOK, Places
<1>3. marker # NoMarker => marker \in Numbered
  BY DEF TypeOK
<1> QED
  BY <1>1, <1>2, <1>3

\* The marker being handled is late, or the one waited for.
LEMMA Handled ==
  ASSUME Inv, marker # NoMarker
  PROVE  /\ marker.n \in Nat \ {0} /\ marker.type \in Markers
         /\ \/ marker.n \in late
            \/ pc = "wait" /\ marker.n = posted /\ marker.type = cmd
         /\ logger = "handle" => ~sure
<1>1. marker.n \in Nat \ {0} /\ marker.type \in Markers
  BY Numbers DEF Inv
<1>2. marker.n \in late \/ (pc = "wait" /\ marker.n = posted)
  BY <1>1 DEF Inv, LateInv, Unhandled
<1>3. pc = "wait" /\ marker.n = posted => marker.type = cmd
  BY DEF Inv, OutcomeInv
<1>4. logger = "handle" => ~sure
  BY DEF Inv, OutcomeInv, Settled
<1> QED
  BY <1>1, <1>2, <1>3, <1>4

\* A new marker at the end of the queue.
LEMMA Appended ==
  ASSUME TypeOK, NEW m \in Numbered, s_marker_queue' = Append(s_marker_queue, m)
  PROVE  /\ Len(s_marker_queue') = Len(s_marker_queue) + 1
         /\ s_marker_queue'[Len(s_marker_queue) + 1] = m
         /\ \A i \in Places : s_marker_queue'[i] = s_marker_queue[i]
         /\ Len(s_marker_queue) \in Nat
BY DEF TypeOK, Places

\* With every marker under way in l and none of l undecided, the queue is empty and the
\* handler, if one is at work, has set the flag.
LEMMA Decided ==
  ASSUME Inv, NEW l \in SUBSET Nat, Undecided(l) = {}, \A n \in Nat : Unhandled(n) => n \in l
  PROVE  Settled
<1>1. marker # NoMarker => marker.n \in l
  BY Numbers DEF Inv, Unhandled
<1>2. \A i \in Places : s_marker_queue[i].n \in l
  BY Numbers DEF Inv, Unhandled
<1>3. logger # "handle"
  BY <1>1 DEF Inv, TypeOK, Undecided
<1>4. Places = {}
  <2> SUFFICES ASSUME NEW i \in Places PROVE FALSE
    OBVIOUS
  <2>1. logger = "work" => marker # NoMarker
    BY DEF Inv, TypeOK
  <2>2. logger = "work" => s_marker_queue[i].n # marker.n
    BY <2>1, Numbers DEF Inv, OrderInv
  <2> QED
    BY <1>2, <2>2 DEF Undecided
<1>5. Len(s_marker_queue) = 0
  <2>1. Len(s_marker_queue) \in Nat
    BY DEF Inv, TypeOK
  <2>2. Len(s_marker_queue) # 0 => 1 \in Places
    BY <2>1 DEF Places
  <2> QED
    BY <1>4, <2>2
<1> QED
  BY <1>3, <1>5 DEF Settled, Inv, TypeOK

-----------------------------------------------------------------------------

LEMMA InitInv == Init => Inv
<1> SUFFICES ASSUME Init PROVE Inv
  OBVIOUS
<1>1. TypeOK
  <2>1. behind \in BOOLEAN /\ s_marker_ok \in BOOLEAN /\ s_trip_active \in BOOLEAN
    BY DEF Init
  <2>2. sure \in BOOLEAN
    BY DEF Init
  <2> QED
    BY <2>1, <2>2, Depths DEF Init, TypeOK, NoMarker
<1>2. OrderInv /\ LateInv /\ WaitInv
  BY DEF Init, OrderInv, LateInv, WaitInv, Unhandled, Places
<1>3. OutcomeInv /\ AnswersAgree
  BY DEF Init, OutcomeInv, AnswersAgree, Places, Outcome
<1> QED
  BY <1>1, <1>2, <1>3 DEF Inv

\* The callback: only the command queue changes.
LEMMA ReceiveInv == ASSUME Inv, NEW c \in Commands, Receive(c) PROVE Inv'
<1>1. TypeOK'
  BY Depths DEF Inv, TypeOK, Numbered, NoMarker, Markers, Commands, Receive, task, sync, log, phone
<1>2. OrderInv'
  BY Depths DEF Inv, OrderInv, Places, TypeOK, Numbered, Receive, task, sync, log, phone
<1>3. LateInv'
  BY Depths DEF Inv, LateInv, Unhandled, Places, TypeOK, Numbered, OrderInv, Receive, task, sync, log, phone
<1>4. WaitInv'
  BY Depths DEF Inv, WaitInv, TypeOK, LateInv, Unhandled, Receive, task, sync, log, phone
<1>5. OutcomeInv'
  BY Depths DEF Inv, OutcomeInv, Outcome, Settled, Places, TypeOK, WaitInv, AnswersAgree, Receive, task, sync, log, phone
<1>6. AnswersAgree'
  BY Depths DEF Inv, AnswersAgree, OutcomeInv, TypeOK, Outcome, Receive, task, sync, log, phone
<1> QED
  BY <1>1, <1>2, <1>3, <1>4, <1>5, <1>6 DEF Inv

\* STATUS reads the flag; a marker makes the view of the phone unknown.
LEMMA DispatchInv == ASSUME Inv, Dispatch PROVE Inv'
<1>1. TypeOK'
  <2>1. sure' \in BOOLEAN
    <3>1. (Undecided(late) = {}) \in BOOLEAN /\ FALSE \in BOOLEAN
      OBVIOUS
    <3> QED
      BY <3>1, Zenon DEF Dispatch, Tell
  <2>2. Head(cmd_queue) \in Commands /\ Tail(cmd_queue) \in Seq(Commands)
    BY DEF Inv, TypeOK, Dispatch
  <2>3. /\ pc' \in {"idle", "clear"} /\ (pc' # "idle" => cmd' \in Markers)
        /\ cmd' \in Markers \cup {"none"} /\ told' \in {"idle", "unknown", "running"}
    BY <2>2 DEF Inv, TypeOK, Dispatch, Tell, Status, Commands
  <2> QED
    BY <2>1, <2>2, <2>3 DEF Inv, TypeOK, Dispatch, sync, log
<1>2. OrderInv'
  BY Depths DEF Inv, OrderInv, Places, TypeOK, Numbered, Dispatch, Tell, Status, task, sync, log, phone
<1>3. LateInv'
  BY Depths DEF Inv, LateInv, Unhandled, Places, TypeOK, Numbered, OrderInv, Dispatch, Tell, Status, task, sync, log, phone
<1>4. WaitInv'
  BY Depths DEF Inv, WaitInv, TypeOK, LateInv, Unhandled, Dispatch, Tell, Status, task, sync, log, phone
<1>5. OutcomeInv'
  <2>1. /\ UNCHANGED <<logger, marker, s_trip_active, s_marker_queue>>
        /\ pc' \in {"idle", "clear"} /\ (sure' => pc' = "idle" /\ Undecided(late) = {})
    BY DEF Dispatch, Tell, sync, log
  <2>2. \A n \in Nat : Unhandled(n) => n \in late
    BY DEF Inv, LateInv, Dispatch
  <2>3. sure' => Settled'
    <3>1. sure' => Settled
      BY <2>1, <2>2, Decided DEF Inv, TypeOK
    <3> QED
      BY <2>1, <3>1 DEF Settled
  <2> QED
    BY <2>1, <2>3 DEF Inv, OutcomeInv
<1>6. AnswersAgree'
  BY Depths DEF Inv, AnswersAgree, OutcomeInv, TypeOK, Outcome, Dispatch, Tell, Status, task, sync, log, phone
<1> QED
  BY <1>1, <1>2, <1>3, <1>4, <1>5, <1>6 DEF Inv

\* With no marker late, none is under way either.
LEMMA ClearStaleInv == ASSUME Inv, ClearStale PROVE Inv'
<1>1. TypeOK'
  BY Depths DEF Inv, TypeOK, Numbered, NoMarker, Markers, Commands, ClearStale, task, sync, log, phone
<1>2. OrderInv'
  <2>1. s_marker_sem' = 0 /\ UNCHANGED <<posted, marker, s_marker_queue>>
    BY DEF ClearStale, log
  <2>2. posted \in Nat /\ (\A n \in Nat \ {0} : 0 < n)
    BY DEF Inv, TypeOK
  <2> QED
    BY Numbers, <2>1, <2>2 DEF Inv, OrderInv, Places
<1>3. LateInv'
  BY Depths DEF Inv, LateInv, Unhandled, Places, TypeOK, Numbered, OrderInv, ClearStale, task, sync, log, phone
<1>4. WaitInv'
  BY Depths DEF Inv, WaitInv, TypeOK, LateInv, Unhandled, ClearStale, task, sync, log, phone
<1>5. OutcomeInv'
  BY Depths DEF Inv, OutcomeInv, Outcome, Settled, Places, TypeOK, WaitInv, AnswersAgree, ClearStale, task, sync, log, phone
<1>6. AnswersAgree'
  BY Depths DEF Inv, AnswersAgree, OutcomeInv, TypeOK, Outcome, ClearStale, task, sync, log, phone
<1> QED
  BY <1>1, <1>2, <1>3, <1>4, <1>5, <1>6 DEF Inv

\* The new number is higher than all before.
LEMMA PostInv == ASSUME Inv, Post PROVE Inv'
<1>m. [type |-> cmd, n |-> posted + 1] \in Numbered
  BY DEF Inv, TypeOK, Post, Numbered
<1>1. TypeOK'
  BY Depths DEF Inv, TypeOK, Numbered, NoMarker, Markers, Commands, Post, task, sync, log, phone
<1>2. OrderInv'
  <2>1. s_marker_sem <= posted' /\ marker' = marker /\ s_marker_sem' = s_marker_sem
        /\ posted' = posted + 1 /\ posted \in Nat
    BY DEF Inv, TypeOK, OrderInv, Post, log
  <2> QED
    BY <1>m, <2>1, Appended, Numbers DEF Inv, TypeOK, OrderInv, Places, Post
<1>3. LateInv'
  BY Depths DEF Inv, LateInv, Unhandled, Places, TypeOK, Numbered, OrderInv, Post, task, sync, log, phone
<1>4. WaitInv'
  BY Depths DEF Inv, WaitInv, TypeOK, LateInv, Unhandled, Post, task, sync, log, phone
<1>5. OutcomeInv'
  <2>1. \A i \in Places : s_marker_queue[i].n # posted + 1
    BY Numbers DEF Inv, OrderInv, TypeOK
  <2>2. marker # NoMarker => marker.n # posted + 1
    BY Numbers DEF Inv, OrderInv, TypeOK
  <2>3. s_marker_sem # posted + 1
    BY DEF Inv, OrderInv, TypeOK
  <2>4. ~sure
    BY DEF Inv, OutcomeInv, Post
  <2>5. /\ pc' = "wait" /\ posted' = posted + 1 /\ cmd' = cmd /\ sure' = sure
        /\ s_marker_sem' = s_marker_sem /\ UNCHANGED <<logger, marker, s_trip_active>>
    BY DEF Post, log, phone
  <2>6. \A i \in Places' : s_marker_queue'[i].n = posted' => s_marker_queue'[i].type = cmd'
    BY <1>m, <2>1, <2>5, Appended DEF Inv, Places, Post
  <2>7. logger' = "work" => (s_trip_active' <=> marker'.type = "TRIP_START")
    BY <2>5 DEF Inv, OutcomeInv
  <2> QED
    BY <2>2, <2>3, <2>4, <2>5, <2>6, <2>7 DEF OutcomeInv
<1>6. AnswersAgree'
  BY Depths DEF Inv, AnswersAgree, OutcomeInv, TypeOK, Outcome, Post, task, sync, log, phone
<1> QED
  BY <1>1, <1>2, <1>3, <1>4, <1>5, <1>6 DEF Inv

LEMMA PostFailsInv == ASSUME Inv, PostFails PROVE Inv'
<1>1. TypeOK'
  BY Depths DEF Inv, TypeOK, Numbered, NoMarker, Markers, Commands, PostFails, Answered, task, sync, log, phone
<1>2. OrderInv'
  BY Depths DEF Inv, OrderInv, Places, TypeOK, Numbered, PostFails, Answered, task, sync, log, phone
<1>3. LateInv'
  BY Depths DEF Inv, LateInv, Unhandled, Places, TypeOK, Numbered, OrderInv, PostFails, Answered, task, sync, log, phone
<1>4. WaitInv'
  BY Depths DEF Inv, WaitInv, TypeOK, LateInv, Unhandled, PostFails, Answered, task, sync, log, phone
<1>5. OutcomeInv'
  BY Depths DEF Inv, OutcomeInv, Outcome, Settled, Places, TypeOK, WaitInv, AnswersAgree, PostFails, Answered, task, sync, log, phone
<1>6. AnswersAgree'
  BY Depths DEF Inv, AnswersAgree, OutcomeInv, TypeOK, Outcome, PostFails, Answered, task, sync, log, phone
<1> QED
  BY <1>1, <1>2, <1>3, <1>4, <1>5, <1>6 DEF Inv

\* Completions come in order, so nothing is under way once the last one did.
LEMMA TakeInv == ASSUME Inv, Take PROVE Inv'
<1>1. TypeOK'
  BY Depths DEF Inv, TypeOK, Numbered, NoMarker, Markers, Commands, Take, task, sync, log, phone
<1>2. OrderInv'
  <2>1. s_marker_sem' = 0 /\ UNCHANGED <<posted, marker, s_marker_queue>>
    BY DEF Take, log
  <2>2. posted \in Nat /\ (\A n \in Nat \ {0} : 0 < n)
    BY DEF Inv, TypeOK
  <2> QED
    BY Numbers, <2>1, <2>2 DEF Inv, OrderInv, Places
<1>3. LateInv'
  BY Depths DEF Inv, LateInv, Unhandled, Places, TypeOK, Numbered, OrderInv, Take, task, sync, log, phone
<1>4. WaitInv'
  BY Depths DEF Inv, WaitInv, TypeOK, LateInv, Unhandled, Take, task, sync, log, phone
<1>5. OutcomeInv'
  <2>1. /\ UNCHANGED <<cmd, posted, marker, logger, s_trip_active, s_marker_queue, s_marker_ok>>
        /\ pc = "wait" /\ pc' = "read" /\ took' = s_marker_sem /\ ~sure'
    BY DEF Inv, OutcomeInv, Take, log, phone
  <2>2. took' = posted => Outcome' /\ Settled' /\ marker' = NoMarker
    <3> SUFFICES ASSUME s_marker_sem = posted PROVE Outcome /\ Settled /\ marker = NoMarker
      BY <2>1 DEF Outcome, Settled
    <3>1. Outcome
      BY <2>1 DEF Inv, OutcomeInv
    <3>2. marker = NoMarker
      BY Numbers DEF Inv, OrderInv, TypeOK
    <3>3. 1 \notin Places
      BY Numbers DEF Inv, OrderInv, TypeOK
    <3>4. s_marker_queue = <<>>
      <4>1. Len(s_marker_queue) \in Nat
        BY DEF Inv, TypeOK
      <4>2. Len(s_marker_queue) = 0
        BY <3>3, <4>1 DEF Places
      <4> QED
        BY <4>2 DEF Inv, TypeOK
    <3>5. logger # "handle"
      BY <3>2 DEF Inv, TypeOK
    <3> QED
      BY <3>1, <3>2, <3>4, <3>5 DEF Settled
  <2> QED
    BY <2>1, <2>2 DEF Inv, OutcomeInv
<1>6. AnswersAgree'
  BY Depths DEF Inv, AnswersAgree, OutcomeInv, TypeOK, Outcome, Take, task, sync, log, phone
<1> QED
  BY <1>1, <1>2, <1>3, <1>4, <1>5, <1>6 DEF Inv

LEMMA WaitTimesOutInv == ASSUME Inv, WaitTimesOut PROVE Inv'
<1>t. /\ pc = "wait" /\ pc' = "idle" /\ late' = late \cup {posted} /\ s_marker_sem = 0
      /\ told' = Belief(cmd) /\ cmd \in Markers
      /\ UNCHANGED <<posted, logger, marker, s_trip_active, s_marker_queue>>
  BY DEF Inv, TypeOK, WaitTimesOut, Tell, Answered, sync, log
<1>s. sure' <=> Undecided(late') = {}
  BY DEF WaitTimesOut, Tell
<1>d. sure' => Settled
  <2>1. late' \in SUBSET Nat
    BY <1>t DEF Inv, TypeOK
  <2>2. \A n \in Nat : Unhandled(n) => n \in late'
    BY <1>t DEF Inv, LateInv
  <2> QED
    BY <1>s, <2>1, <2>2, Decided
<1>1. TypeOK'
  <2>1. sure' \in BOOLEAN
    <3>1. sure' = (Undecided(late') = {})
      BY DEF WaitTimesOut, Tell
    <3> QED
      BY <3>1, Zenon
  <2>2. told' \in {"idle", "unknown", "running"}
    BY <1>t DEF Belief
  <2> QED
    BY <2>1, <2>2 DEF Inv, TypeOK, WaitTimesOut, Answered, sync, log
<1>2. OrderInv'
  BY Depths DEF Inv, OrderInv, Places, TypeOK, Numbered, WaitTimesOut, Answered, task, sync, log, phone
<1>3. LateInv'
  BY Depths DEF Inv, LateInv, Unhandled, Places, TypeOK, Numbered, OrderInv, WaitTimesOut, Answered, task, sync, log, phone
<1>4. WaitInv'
  BY Depths DEF Inv, WaitInv, TypeOK, LateInv, Unhandled, WaitTimesOut, Answered, task, sync, log, phone
<1>5. OutcomeInv'
  <2>1. sure' => Settled'
    BY <1>t, <1>d DEF Settled
  <2> QED
    BY <1>t, <2>1 DEF Inv, OutcomeInv
<1>6. AnswersAgree'
  <2> SUFFICES ASSUME sure' PROVE s_trip_active <=> cmd = "TRIP_START"
    BY <1>t DEF AnswersAgree, Belief
  <2>1. posted \in Undecided(late') \/ (logger = "work" /\ marker.n = posted)
    BY <1>t DEF Undecided
  <2>2. logger = "work" /\ marker # NoMarker /\ marker.n = posted
    BY <1>s, <2>1 DEF Inv, TypeOK
  <2> QED
    BY <1>t, <2>2 DEF Inv, OutcomeInv
<1> QED
  BY <1>1, <1>2, <1>3, <1>4, <1>5, <1>6 DEF Inv

LEMMA ReadOutcomeInv == ASSUME Inv, ReadOutcome PROVE Inv'
<1>1. TypeOK'
  BY Depths DEF Inv, TypeOK, Numbered, NoMarker, Markers, Commands, ReadOutcome, Tell, Belief, Answered, task, sync, log, phone
<1>2. OrderInv'
  BY Depths DEF Inv, OrderInv, Places, TypeOK, Numbered, ReadOutcome, Tell, Belief, Answered, task, sync, log, phone
<1>3. LateInv'
  BY Depths DEF Inv, LateInv, Unhandled, Places, TypeOK, Numbered, OrderInv, ReadOutcome, Tell, Belief, Answered, task, sync, log, phone
<1>4. WaitInv'
  BY Depths DEF Inv, WaitInv, TypeOK, LateInv, Unhandled, ReadOutcome, Tell, Belief, Answered, task, sync, log, phone
<1>5. OutcomeInv'
  BY Depths DEF Inv, OutcomeInv, Outcome, Settled, Places, TypeOK, WaitInv, AnswersAgree, ReadOutcome, Tell, Belief, Answered, task, sync, log, phone
<1>6. AnswersAgree'
  BY Depths DEF Inv, AnswersAgree, OutcomeInv, TypeOK, Outcome, ReadOutcome, Tell, Belief, Answered, task, sync, log, phone
<1> QED
  BY <1>1, <1>2, <1>3, <1>4, <1>5, <1>6 DEF Inv

LEMMA MountedInv == ASSUME Inv, Mounted PROVE Inv'
<1>1. TypeOK'
  BY Depths DEF Inv, TypeOK, Numbered, NoMarker, Markers, Commands, Mounted, task, sync, log, phone
<1>2. OrderInv'
  BY Depths DEF Inv, OrderInv, Places, TypeOK, Numbered, Mounted, task, sync, log, phone
<1>3. LateInv'
  BY Depths DEF Inv, LateInv, Unhandled, Places, TypeOK, Numbered, OrderInv, Mounted, task, sync, log, phone
<1>4. WaitInv'
  BY Depths DEF Inv, WaitInv, TypeOK, LateInv, Unhandled, Mounted, task, sync, log, phone
<1>5. OutcomeInv'
  BY Depths DEF Inv, OutcomeInv, Outcome, Settled, Places, TypeOK, WaitInv, AnswersAgree, Mounted, task, sync, log, phone
<1>6. AnswersAgree'
  BY Depths DEF Inv, AnswersAgree, OutcomeInv, TypeOK, Outcome, Mounted, task, sync, log, phone
<1> QED
  BY <1>1, <1>2, <1>3, <1>4, <1>5, <1>6 DEF Inv

\* The head has the lowest number.
LEMMA TakeMarkerInv == ASSUME Inv, TakeMarker PROVE Inv'
<1>1. TypeOK'
  <2>1. Head(s_marker_queue) \in Numbered /\ Tail(s_marker_queue) \in Seq(Numbered)
        /\ Len(Tail(s_marker_queue)) <= MarkerQueueDepth
    BY Depths DEF Inv, TypeOK, TakeMarker
  <2>2. \A m \in Numbered : m # NoMarker
    BY DEF Numbered, NoMarker, Markers
  <2> QED
    BY <2>1, <2>2 DEF Inv, TypeOK, TakeMarker, task, phone
<1>2. OrderInv'
  BY Depths DEF Inv, OrderInv, Places, TypeOK, Numbered, TakeMarker, task, sync, log, phone
<1>3. LateInv'
  BY Depths DEF Inv, LateInv, Unhandled, Places, TypeOK, Numbered, OrderInv, TakeMarker, task, sync, log, phone
<1>4. WaitInv'
  BY Depths DEF Inv, WaitInv, TypeOK, LateInv, Unhandled, TakeMarker, task, sync, log, phone
<1>5. OutcomeInv'
  BY Depths DEF Inv, OutcomeInv, Outcome, Settled, Places, TypeOK, WaitInv, AnswersAgree, TakeMarker, task, sync, log, phone
<1>6. AnswersAgree'
  BY Depths DEF Inv, AnswersAgree, OutcomeInv, TypeOK, Outcome, TakeMarker, task, sync, log, phone
<1> QED
  BY <1>1, <1>2, <1>3, <1>4, <1>5, <1>6 DEF Inv

\* The flag changes only while the phone cannot be sure.
LEMMA BeginTripInv == ASSUME Inv, BeginTrip PROVE Inv'
<1>n. marker # NoMarker
  BY DEF Inv, TypeOK, BeginTrip
<1>h. /\ marker.n \in Nat \ {0} /\ ~sure
      /\ marker.n \in late \/ (pc = "wait" /\ marker.n = posted)
  BY <1>n, Handled DEF BeginTrip
<1>1. TypeOK'
  BY Depths DEF Inv, TypeOK, Numbered, NoMarker, Markers, Commands, BeginTrip, task, sync, log, phone
<1>2. OrderInv'
  BY Depths DEF Inv, OrderInv, Places, TypeOK, Numbered, BeginTrip, task, sync, log, phone
<1>3. LateInv'
  BY Depths DEF Inv, LateInv, Unhandled, Places, TypeOK, Numbered, OrderInv, BeginTrip, task, sync, log, phone
<1>4. WaitInv'
  BY Depths DEF Inv, WaitInv, TypeOK, LateInv, Unhandled, BeginTrip, task, sync, log, phone
<1>5. OutcomeInv'
  <2>1. ~(pc = "wait" /\ s_marker_sem = posted)
    BY <1>h, <1>n DEF Inv, OrderInv, TypeOK
  <2>2. ~(pc = "read" /\ took = posted)
    BY <1>n DEF Inv, OutcomeInv
  <2>3. s_trip_active' <=> marker'.type = "TRIP_START"
    BY DEF BeginTrip
  <2>4. UNCHANGED <<pc, cmd, posted, took, marker, s_marker_queue, s_marker_sem, sure>>
    BY DEF BeginTrip, task, sync, phone
  <2> QED
    BY <1>h, <1>n, <2>1, <2>2, <2>3, <2>4 DEF Inv, OutcomeInv, Places
<1>6. AnswersAgree'
  BY <1>h DEF AnswersAgree, BeginTrip, phone
<1> QED
  BY <1>1, <1>2, <1>3, <1>4, <1>5, <1>6 DEF Inv

\* The same at the end.
LEMMA EndTripInv == ASSUME Inv, EndTrip PROVE Inv'
<1>n. marker # NoMarker
  BY DEF Inv, TypeOK, EndTrip
<1>h. /\ marker.n \in Nat \ {0} /\ ~sure
      /\ marker.n \in late \/ (pc = "wait" /\ marker.n = posted)
  BY <1>n, Handled DEF EndTrip
<1>1. TypeOK'
  BY Depths DEF Inv, TypeOK, Numbered, NoMarker, Markers, Commands, EndTrip, task, sync, log, phone
<1>2. OrderInv'
  BY Depths DEF Inv, OrderInv, Places, TypeOK, Numbered, EndTrip, task, sync, log, phone
<1>3. LateInv'
  BY Depths DEF Inv, LateInv, Unhandled, Places, TypeOK, Numbered, OrderInv, EndTrip, task, sync, log, phone
<1>4. WaitInv'
  BY Depths DEF Inv, WaitInv, TypeOK, LateInv, Unhandled, EndTrip, task, sync, log, phone
<1>5. OutcomeInv'
  <2>1. ~(pc = "wait" /\ s_marker_sem = posted)
    BY <1>h, <1>n DEF Inv, OrderInv, TypeOK
  <2>2. ~(pc = "read" /\ took = posted)
    BY <1>n DEF Inv, OutcomeInv
  <2>3. s_trip_active' <=> marker'.type = "TRIP_START"
    BY DEF EndTrip
  <2>4. UNCHANGED <<pc, cmd, posted, took, marker, s_marker_queue, s_marker_sem, sure>>
    BY DEF EndTrip, task, sync, phone
  <2> QED
    BY <1>h, <1>n, <2>1, <2>2, <2>3, <2>4 DEF Inv, OutcomeInv, Places
<1>6. AnswersAgree'
  BY <1>h DEF AnswersAgree, EndTrip, phone
<1> QED
  BY <1>1, <1>2, <1>3, <1>4, <1>5, <1>6 DEF Inv

\* marker_done, with the outcome that the trip flag shows.
LEMMA MarkerDoneInv ==
  ASSUME Inv, NEW ok \in BOOLEAN, logger \in {"handle", "work"}, MarkerDone(ok),
         UNCHANGED s_trip_active, s_trip_active <=> (ok /\ marker.type = "TRIP_START")
  PROVE  Inv'
<1>n. marker # NoMarker
  BY DEF Inv, TypeOK
<1>h. /\ marker.n \in Nat \ {0} /\ marker.type \in Markers
      /\ marker.n \in late \/ (pc = "wait" /\ marker.n = posted /\ marker.type = cmd)
  BY <1>n, Handled
<1>u. /\ UNCHANGED <<sent, cmd_queue, pc, cmd, posted, took, behind, s_marker_queue, told, sure>>
      /\ logger' = "loop" /\ marker' = NoMarker /\ s_marker_sem' = marker.n
      /\ late' = late \ {marker.n} /\ s_marker_ok' = ok
  BY DEF MarkerDone, task, phone
<1>1. TypeOK'
  BY <1>h, <1>u DEF Inv, TypeOK
<1>2. OrderInv'
  BY <1>n, <1>h, <1>u DEF Inv, OrderInv, Places
<1>3. LateInv'
  BY <1>n, <1>h, <1>u, Numbers DEF Inv, LateInv, OrderInv, Unhandled, Places, TypeOK
<1>4. WaitInv'
  BY <1>h, <1>u DEF Inv, WaitInv
<1>5. OutcomeInv'
  <2>1. \A i \in Places' : s_marker_queue'[i] = s_marker_queue[i] /\ i \in Places
    BY <1>u DEF Places
  <2>2. pc' = "wait" /\ s_marker_sem' = posted' => Outcome'
    <3>1. pc = "wait" /\ marker.n = posted => marker.type = cmd
      BY <1>n DEF Inv, OutcomeInv
    <3> QED
      BY <3>1, <1>u DEF Outcome
  <2>3. ~(pc' = "read" /\ took' = posted')
    BY <1>n, <1>u DEF Inv, OutcomeInv
  <2>4. sure' => pc' = "idle" /\ Settled'
    BY <1>u DEF Inv, OutcomeInv, Settled
  <2> QED
    BY <1>h, <1>u, <2>1, <2>2, <2>3, <2>4 DEF Inv, OutcomeInv
<1>6. AnswersAgree'
  BY <1>u DEF Inv, AnswersAgree
<1> QED
  BY <1>1, <1>2, <1>3, <1>4, <1>5, <1>6 DEF Inv

\* The ways out of the handlers.
LEMMA AnsweredInv ==
  ASSUME Inv, StartKept \/ StartFails \/ EndIgnored \/ WorkDone
  PROVE  Inv'
<1>1. CASE StartKept
  BY <1>1, MarkerDoneInv DEF StartKept
<1>2. CASE StartFails
  BY <1>2, MarkerDoneInv DEF StartFails
<1>3. CASE EndIgnored
  BY <1>3, MarkerDoneInv DEF EndIgnored
<1>4. CASE WorkDone
  <2>1. s_trip_active <=> marker.type = "TRIP_START"
    BY <1>4 DEF WorkDone, Inv, OutcomeInv
  <2> QED
    BY <1>4, <2>1, MarkerDoneInv DEF WorkDone
<1> QED
  BY <1>1, <1>2, <1>3, <1>4

LEMMA StepInv == Inv /\ [Next]_vars => Inv'
<1> SUFFICES ASSUME Inv, [Next]_vars PROVE Inv'
  OBVIOUS
<1>1. CASE Next
  BY <1>1, ReceiveInv, DispatchInv, ClearStaleInv, PostInv, PostFailsInv, TakeInv,
     WaitTimesOutInv, ReadOutcomeInv, MountedInv, TakeMarkerInv, BeginTripInv, EndTripInv,
     AnsweredInv
  DEF Next, CommandTask, Handling
<1>2. CASE UNCHANGED vars
  <2>1. /\ TypeOK' /\ OrderInv' /\ LateInv'
    BY <1>2 DEF vars, task, sync, log, phone, Inv, TypeOK, OrderInv, LateInv, Unhandled, Places
  <2>2. WaitInv' /\ OutcomeInv' /\ AnswersAgree'
    BY <1>2 DEF vars, task, sync, log, phone, Inv, WaitInv, OutcomeInv, Outcome, Settled,
                AnswersAgree, Places
  <2> QED
    BY <2>1, <2>2 DEF Inv
<1> QED
  BY <1>1, <1>2

-----------------------------------------------------------------------------

\* The types, and that the marker queue never holds more than its depth.
THEOREM Typing == Spec => []TypeOK
<1>1. Inv => TypeOK
  BY DEF Inv
<1> QED
  BY InitInv, StepInv, <1>1, PTL DEF Spec

\* A wait takes the completion of the marker just posted, unless an earlier one was
\* not yet handled when it was posted, however long the logger takes.
THEOREM OwnCompletionAlways == Spec => []OwnCompletion
<1>1. Inv => OwnCompletion
  BY DEF Inv, WaitInv, OwnCompletion
<1> QED
  BY InitInv, StepInv, <1>1, PTL DEF Spec

\* What the phone was told, by a completion, by STATUS in the middle of a handler's work
\* or by the OK after a timeout, is so until its next marker, unless another marker was
\* still to be decided: AnswersAgree, for all depths.
THEOREM AnswersAgreeAlways == Spec => []AnswersAgree
<1>1. Inv => AnswersAgree
  BY DEF Inv
<1> QED
  BY InitInv, StepInv, <1>1, PTL DEF Spec

\* The numbers of late markers, and the one that is waited for.
LEMMA Awaited ==
  ASSUME Inv
  PROVE  LET L == late \cup (IF pc = "wait" THEN {posted} ELSE {})
         IN /\ IsFiniteSet(L) /\ Cardinality(L) \in Nat /\ Cardinality(late) \in Nat
            /\ Cardinality(L) <= Cardinality(late) + (IF pc = "wait" THEN 1 ELSE 0)
<1> DEFINE L == late \cup (IF pc = "wait" THEN {posted} ELSE {})
<1>1. IsFiniteSet(late)
  <2>1. late \in SUBSET (0..posted) /\ posted \in Int
    BY DEF Inv, TypeOK, LateInv
  <2>2. IsFiniteSet(0..posted)  BY <2>1, FS_Interval
  <2> QED BY <2>1, <2>2, FS_Subset
<1>2. Cardinality(late) \in Nat  BY <1>1, FS_CardinalityType
<1>3. CASE pc = "wait"
  <2>1. posted \notin late  BY <1>3 DEF Inv, LateInv
  <2>2. L = late \cup {posted}  BY <1>3
  <2>3. IsFiniteSet(late \cup {posted})
        /\ Cardinality(late \cup {posted}) = Cardinality(late) + 1
    BY <1>1, <2>1, FS_AddElement
  <2> QED BY <1>2, <1>3, <2>2, <2>3
<1>4. CASE pc # "wait"
  BY <1>1, <1>2, <1>4
<1> QED BY <1>3, <1>4

\* The marker queue holds no more than the markers that came too late and the one that
\* is waited for: QueueHoldsLateMarkers, for all depths.  Markers are numbered in the
\* order of their posts (can_logger_post_marker), so no two that are under way share a
\* number.
THEOREM QueueHoldsLateMarkersAlways == Spec => []QueueHoldsLateMarkers
<1> DEFINE L == late \cup (IF pc = "wait" THEN {posted} ELSE {})
           D == IF marker = NoMarker THEN Places ELSE 0..Len(s_marker_queue)
           f == [i \in D |-> IF i = 0 THEN marker.n ELSE s_marker_queue[i].n]
<1>1. Inv => QueueHoldsLateMarkers
  <2> SUFFICES ASSUME Inv PROVE QueueHoldsLateMarkers
    OBVIOUS
  <2>1. Len(s_marker_queue) \in Nat  BY DEF Inv, TypeOK
  <2>2. \A i \in D : /\ i = 0 => marker # NoMarker
                     /\ i # 0 => i \in Places
    BY <2>1 DEF Places
  <2>3. f \in [D -> L]
    <3>1. \A n \in Nat : Unhandled(n) => n \in L
      BY DEF Inv, LateInv
    <3>2. \A i \in Places : s_marker_queue[i].n \in L
      BY <3>1, Numbers DEF Inv, Unhandled
    <3>3. marker # NoMarker => marker.n \in L
      BY <3>1, Numbers DEF Inv, Unhandled
    <3> HIDE DEF D, L
    <3> QED BY <2>2, <3>2, <3>3
  <2>4. \A i, j \in D : f[i] = f[j] => i = j
    <3>1. \A i, j \in Places : i # j => s_marker_queue[i].n # s_marker_queue[j].n
      <4>1. \A i \in Places : s_marker_queue[i].n \in Nat  BY Numbers DEF Inv
      <4>2. \A i, j \in Places : i < j => s_marker_queue[i].n < s_marker_queue[j].n
        BY DEF Inv, OrderInv
      <4>3. \A i, j \in Places : i # j => i < j \/ j < i  BY <2>1 DEF Places
      <4> QED BY <4>1, <4>2, <4>3
    <3>2. marker # NoMarker => \A i \in Places : marker.n # s_marker_queue[i].n
      <4>1. \A i \in Places : s_marker_queue[i].n \in Nat  BY Numbers DEF Inv
      <4>2. marker # NoMarker => marker.n \in Nat  BY Numbers DEF Inv
      <4>3. marker # NoMarker => \A i \in Places : marker.n < s_marker_queue[i].n
        BY DEF Inv, OrderInv
      <4> QED BY <4>1, <4>2, <4>3
    <3> HIDE DEF D
    <3> QED BY <2>2, <3>1, <3>2
  <2>5. Cardinality(D) <= Cardinality(L)
    <3>1. f \in Injection(D, L)
      <4> HIDE DEF D, L, f
      <4>1. DOMAIN f = D  BY <2>3
      <4> QED BY <2>3, <2>4, <4>1 DEF Injection, IsInjective
    <3>2. IsFiniteSet(L)  BY Awaited
    <3> HIDE DEF D, L, f
    <3> QED BY <3>1, <3>2, FS_Injection
  <2>6. Cardinality(D) = Pending
    <3>1. Cardinality(1..Len(s_marker_queue)) = Len(s_marker_queue)
      BY <2>1, FS_Interval
    <3>2. Cardinality(0..Len(s_marker_queue)) = Len(s_marker_queue) + 1
      BY <2>1, FS_Interval
    <3> QED BY <2>1, <3>1, <3>2 DEF Pending, Places
  <2>7. Pending \in Nat  BY <2>1 DEF Pending
  <2>8. /\ Cardinality(L) \in Nat /\ Cardinality(late) \in Nat
        /\ Cardinality(L) <= Cardinality(late) + (IF pc = "wait" THEN 1 ELSE 0)
    BY Awaited
  <2> HIDE DEF D, L
  <2> QED BY <2>5, <2>6, <2>7, <2>8 DEF QueueHoldsLateMarkers
<1>2. Spec => []Inv
  BY InitInv, StepInv, PTL DEF Spec
<1> QED BY <1>1, <1>2, PTL

=============================================================================
