--------------------------- MODULE MCSubcontracts ---------------------------
(***************************************************************************)
(* One subcontract number and up to three billings on it.                   *)
(***************************************************************************)
EXTENDS Subcontracts

MCCuts == {-1, 0, 7}

\* Bound on the histories explored: a line of the sub's own schedule, which no
\* rule reads, is on file beside one billing at most.
LineBesideOneBilling ==
    \A number \in DOMAIN subs : Len(subs[number].billings) > 1 => subs[number].lines = 0
=============================================================================
