------------------------- MODULE MCScheduleOfValues -------------------------
(***************************************************************************)
(* ScheduleOfValues with two item numbers, two lines of 10 or 20 and two     *)
(* change orders of plus or minus 10.                                       *)
(***************************************************************************)
EXTENDS ScheduleOfValues

MCAmounts == {-10, 10}

\* Bounds on the histories explored: one change order in draft at a time; a
\* second order line only where both adjust and the second takes from another
\* line what the first one gave it, a transfer; the first schedule numbers its lines in
\* order and is approved before any order.
Transfer(first, second) ==
    /\ ~CreatesLine(first) /\ ~CreatesLine(second)
    /\ first.target # second.target
    /\ first.amount + second.amount = 0

Number(id) == IF id = 1 THEN "1" ELSE "2"

Bounded ==
    /\ revisions # <<>> =>
          \A id \in DOMAIN revisions[1].lines : revisions[1].lines[id].item = Number(id)
    /\ orders # <<>> => revisions # <<>> /\ revisions[1].status # "draft"
    /\ Cardinality(DOMAIN orders \ Approved(orders)) <= 1
    /\ \A k \in DOMAIN orders :
          Len(orders[k].lines) = 2 => Transfer(orders[k].lines[1], orders[k].lines[2])
=============================================================================
