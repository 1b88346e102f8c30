---------------------------- MODULE MCFoundations ----------------------------
(***************************************************************************)
(* What the other parts rest on: the arithmetic of the requisition, the     *)
(* audit chain every operation appends to, and the drain of the outbox, one *)
(* at a time.  They share no variable, so a property of one is decided by   *)
(* the histories in which the other two rest.                               *)
(***************************************************************************)
EXTENDS MCRequisition, AuditChain, DrainStreaks

outboxVars == <<vars, streaks>>

FoundationsInit == CoreInit /\ ChainInit /\ StreakInit

\* Of the specs a first sheet may have, the others move beside one.
CoreRests == CoreInit /\ spec = CHOOSE s \in Specs : TRUE

FoundationsNext ==
    \/ ChainInit /\ StreakInit /\ CoreNext /\ UNCHANGED <<chainVars, outboxVars>>
    \/ CoreRests /\ StreakInit /\ ChainNext /\ UNCHANGED <<coreVars, outboxVars>>
    \/ CoreRests /\ ChainInit /\ StreakNext /\ UNCHANGED <<coreVars, chainVars>>

FoundationsSpec == FoundationsInit /\ [][FoundationsNext]_<<coreVars, chainVars, outboxVars>>
=============================================================================
