------------------------------- MODULE MCGates -------------------------------
(***************************************************************************)
(* What an operation may be refused for: the papers a submission waits on,  *)
(* and the plan of the organization.  The two share no variable, so a       *)
(* property of one is decided by the histories in which the other rests.    *)
(***************************************************************************)
EXTENDS MCSubmissionGate, MCEntitlements

GatesInit == GateInit /\ PlanInit

\* Of the plans the service may have at first, periods are billed beside one.
PlanRests == PlanInit /\ plan = CHOOSE p \in Plans : TRUE

GatesNext ==
    \/ PlanRests /\ GateNext /\ UNCHANGED planVars
    \/ GateInit /\ PlanNext /\ UNCHANGED gateVars

GatesSpec == GatesInit /\ [][GatesNext]_<<gateVars, planVars>>
=============================================================================
