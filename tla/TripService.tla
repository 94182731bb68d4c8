----------------------------- MODULE TripService -----------------------------
(***************************************************************************)
(* What the dash promises the phone about a trip: one trip at most, which  *)
(* outlives power cuts, pulled cards and abandoned files, and which only a *)
(* marker starts or ends.  The phone's view is the last answer it got; it  *)
(* is unknown while a marker is being handled.  CanLogger implements this  *)
(* with the trip record in NVS.                                            *)
(***************************************************************************)

VARIABLES stored,   \* a power cut now would leave a running trip
          view      \* what the phone was told: "idle", "running" or "unknown"

Init == stored = FALSE /\ view = "idle"

\* A marker is taken from the queue.
Ask == view' = "unknown" /\ UNCHANGED stored

\* The trip starts, and the phone is told at once that it is safe.
Start == view = "unknown" /\ stored' = TRUE /\ view' = "running"

\* The trip ends; the files are still to be closed before the answer.
End == view = "unknown" /\ stored' = FALSE /\ view' = view

\* The answer tells what is stored.
Answer == view' = (IF stored THEN "running" ELSE "idle") /\ UNCHANGED stored

Next == Ask \/ Start \/ End \/ Answer

Spec == Init /\ [][Next]_<<stored, view>>

=============================================================================
