-------------------------- MODULE MCPayApplications --------------------------
(***************************************************************************)
(* PayApplications on one contract: one line of 20 cents, a change order    *)
(* that may add a line of 20, three applications and three days.            *)
(***************************************************************************)
EXTENDS Exports, FiniteSets

MCInitialValues == [i \in Items |-> 20]

\* The contract form keeps one mode, split, and saves two rates.
TenPercent == [mode |-> "split", work |-> 1000, stored |-> 1000,
               threshold |-> NoThreshold, reduced |-> 0]

FivePercentOfWork == [TenPercent EXCEPT !.work = 500]

MCRules == {TenPercent, FivePercentOfWork}

\* Bounds on the histories explored: at most one application is voided and at
\* most one is paid on, a second payment only with two applications,
\* application n ends on day n at the latest, the contract sum differs from the
\* signed one only up to the first submission, and a third application is
\* opened only where the applications are computed from the signed sum and bill
\* the signed items.
SignedSum == SumOver(InitialValues)

Bounded ==
    /\ Cardinality({n \in DOMAIN apps : apps[n].voidNoted}) <= 1
    /\ Cardinality({n \in DOMAIN apps : apps[n].receipts > 0}) <= 1
    /\ (\E n \in DOMAIN apps : apps[n].receipts > 1) => Len(apps) <= 2
    /\ \A n \in DOMAIN apps : apps[n].end <= n
    /\ contract.sum # SignedSum \/ ~(Items \subseteq DOMAIN schedule.value) =>
          Len(apps) <= 1
    /\ contract.sum # SignedSum =>
          /\ orders = <<>>
          /\ \A n \in DOMAIN apps : apps[n].status \in {"draft", "submitted"}
    /\ Len(apps) > 2 =>
          \A n \in DOMAIN apps : /\ apps[n].sheet.line1 = SignedSum
                                 /\ Items \subseteq DOMAIN apps[n].columns
=============================================================================
