------------------------------- MODULE MCParts -------------------------------
(***************************************************************************)
(* Components that share nothing, side by side for TLC: a behaviour is one *)
(* of the component that part names, while the others stay as they start.  *)
(***************************************************************************)
EXTENDS CanNode, TripFigures, VehicleState, SdHostShim, Numbers

\* The charge counter of the shunt: where it may start, and what a second does to it.
MCFirstCounts == {-6}
MCUses == {-1, 1}

VARIABLE part

partsVars == <<part, vars, tripVars, stateVars, shimVars, input>>

PartsInit ==
  /\ part \in {"node", "trip", "state", "shim", "numbers"}
  /\ Init /\ TripInit /\ StateInit /\ ShimInit /\ NumbersInit
  /\ part # "trip" => rtc = Unset

Node == part = "node" /\ UNCHANGED <<part, tripVars, stateVars, shimVars, input>>
Trip == part = "trip" /\ UNCHANGED <<part, vars, stateVars, shimVars, input>>
State == part = "state" /\ UNCHANGED <<part, vars, tripVars, shimVars, input>>
Shim == part = "shim" /\ UNCHANGED <<part, vars, tripVars, stateVars, input>>
Algorithms == part = "numbers" /\ UNCHANGED <<part, vars, tripVars, stateVars, shimVars>>

PartsNext ==
  \/ Node /\ Next
  \/ Trip /\ TripNext
  \/ State /\ StateNext
  \/ Shim /\ ShimNext
  \/ Algorithms /\ NumbersNext

PartsSafe == PartsInit /\ [][PartsNext]_partsVars

\* The fairness of CanNode!FairSpec.
PartsSpec ==
  /\ PartsSafe
  /\ WF_vars(Node /\ StartTask) /\ WF_vars(Node /\ Interrupt) /\ WF_vars(Node /\ Logger)
  /\ WF_vars(Node /\ RetryTimer) /\ WF_vars(Node /\ ComesBack) /\ SF_vars(Node /\ RecoverAccepted)

\* The state of each component has its type.
PartsTypeOK == TypeOK /\ TripTypeOK /\ StateTypeOK /\ ShimTypeOK

=============================================================================
