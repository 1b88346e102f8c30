--------------------------- MODULE MCEntitlements ---------------------------
(***************************************************************************)
(* A full plan, one that does not name electronic signature, and a lapsed   *)
(* one, with two requests of one process.                                   *)
(***************************************************************************)
EXTENDS Entitlements, TLC

Symmetry == Permutations(Requests)

MCUnlimited == -1

MCPlans == {
    [entitled |-> TRUE, limits |-> [c \in {"gc_billing", "esign"} |-> TRUE], cap |-> MCUnlimited],
    [entitled |-> TRUE, limits |-> [c \in {"gc_billing"} |-> TRUE], cap |-> 1],
    [entitled |-> FALSE, limits |-> [c \in {"gc_billing", "esign"} |-> TRUE], cap |-> 1]}
=============================================================================
