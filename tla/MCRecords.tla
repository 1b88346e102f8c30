------------------------------ MODULE MCRecords ------------------------------
(***************************************************************************)
(* What is on file of a project beside its applications: the schedule of    *)
(* values, the subcontracts and the statutory content.  They share no       *)
(* variable and no step of one reads another, so a property of one is       *)
(* decided by the histories in which the other two rest.                    *)
(***************************************************************************)
EXTENDS MCScheduleOfValues, MCSubcontracts, MCStatutory

RecordsInit == ScheduleInit /\ Init /\ StatutoryInit

\* Of the sums a contract may start with, the others move beside one.
ScheduleRests == ScheduleInit /\ contractSum = CHOOSE sum \in ContractSums : TRUE

RecordsNext ==
    \/ Init /\ StatutoryInit /\ ScheduleNext /\ UNCHANGED <<subs, statutoryVars>>
    \/ ScheduleRests /\ StatutoryInit /\ Next /\ UNCHANGED <<scheduleVars, statutoryVars>>
    \/ ScheduleRests /\ Init /\ StatutoryNext /\ UNCHANGED <<scheduleVars, subs>>

RecordsSpec == RecordsInit /\ [][RecordsNext]_<<scheduleVars, subs, statutoryVars>>
=============================================================================
