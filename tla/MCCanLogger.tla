---------------------------- MODULE MCCanLogger -----------------------------
(* Small instances of CanLogger: two cards of three numbers, and the budgets *)
(* of faults for the question each run asks.                                 *)
EXTENDS CanLogger

CONSTANTS c1, c2

OtherBoard == [c \in Cards |-> IF c = c1 THEN {1} ELSE {2}]
NothingUsed == [c \in Cards |-> {}]

NoFaults == [f \in FaultKinds |-> 0]

\* A card pulled and put back, or exchanged, with the board running.
CardFaults == [NoFaults EXCEPT !["cut"] = 1, !["io"] = 1, !["pull"] = 1, !["marker"] = 1]

\* NVS that fails, loses its contents, or belongs to another board.
NumberFaults == [NoFaults EXCEPT !["cut"] = 1, !["io"] = 1, !["swap"] = 1,
                                 !["nvsOpen"] = 1, !["nvsWrite"] = 1, !["nvsReset"] = 1]

LifecycleBudgets == {CardFaults, NumberFaults}

\* Every fault the logger has to recover from by itself, and trips started and ended
\* across a cut and a card that is pulled, or fails; NVS works.
RecoveryBudgets == {CardFaults, [NoFaults EXCEPT !["cut"] = 1, !["pull"] = 1, !["marker"] = 2],
                    [NoFaults EXCEPT !["cut"] = 1, !["io"] = 1, !["marker"] = 3]}

\* A card pulled, or exchanged, around one marker.
OnePull == {[NoFaults EXCEPT !["pull"] = 1, !["marker"] = 1]}

=============================================================================
