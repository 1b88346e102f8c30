---------------------------- MODULE Subcontracts ----------------------------
(***************************************************************************)
(* Subcontracts of one project and the billings received on them: what is   *)
(* due on a billing follows from the work claimed to date, the retainage of *)
(* the subcontract and what was approved before it was received.            *)
(*                                                                         *)
(* Code: services/subcontracts.py, models/subcontract.py and the            *)
(* subcontract views of blueprints/workflow.py.                             *)
(***************************************************************************)
EXTENDS Sequences, FiniteSets, MoneyKernel

CONSTANTS
    Numbers,        \* subcontract numbers
    SubcontractAmounts, \* amounts of a subcontract
    RetainageRates, \* rates in basis points a subcontract may hold
    PrimeRate,      \* the rate the prime contract withholds
    Claims,         \* completed and stored to date, as a billing may claim
    Cuts,           \* due minus approved
    Days,           \* calendar days, as numbers
    MaxBillings     \* bound: billings received on one subcontract

ASSUME AmountsAreIntegers ==
    /\ SubcontractAmounts \subseteq Int /\ Claims \subseteq Int /\ Cuts \subseteq Int /\ Days \subseteq Int
    /\ RetainageRates \subseteq Nat /\ PrimeRate \in Nat
    /\ MaxBillings \in Nat

VARIABLE subs    \* number -> [status, amount, rate, lines, billings]

-----------------------------------------------------------------------------
(* Rows                                                                    *)

SubStatuses == {"draft", "executed"}
BillingStatuses == {"received", "approved", "rejected"}

Init == subs = <<>>

\* A field of a form left empty.
Blank == -1

BilledBefore(billings, n) ==
    SumOver([m \in {k \in DOMAIN billings : k < n /\ billings[k].status = "approved"} |->
                billings[m].due])

\* previous_paid: what was approved on lower numbers.
ApprovedBefore(billings, n) ==
    SumOver([m \in {k \in DOMAIN billings : k < n /\ billings[k].status = "approved"} |->
                billings[m].approved])

\* approved_to_date, over the billings up to number n.
ApprovedUpTo(billings, n) ==
    LET approved == {m \in 1..n : billings[m].status = "approved"}
    IN  SumOver([m \in approved |-> billings[m].approved])

ApprovedToDate(number) == ApprovedUpTo(subs[number].billings, Len(subs[number].billings))

\* The retainage is the subcontract's, whatever the paperwork says; a final
\* billing releases it.
Withheld(sub, total, isFinal) == ApplyBp(total, IF isFinal THEN 0 ELSE sub.rate)

\* The row of a new billing.  overtook: a lower number was still undecided.
Billing(sub, total, isFinal) ==
    LET n == Len(sub.billings) + 1
        retained == Withheld(sub, total, isFinal)
        previous == ApprovedBefore(sub.billings, n)
    IN  [total |-> total, retained |-> retained, previous |-> previous,
         due |-> total - retained - previous, approved |-> 0, status |-> "received",
         overtook |-> \E m \in DOMAIN sub.billings : sub.billings[m].status = "received"]

-----------------------------------------------------------------------------
(* Operations                                                              *)

\* A number is used once and the amount is positive.
Create(number, amount, rate) ==
    /\ number \notin DOMAIN subs
    /\ amount > 0
    /\ subs' = [n \in DOMAIN subs \cup {number} |->
                  IF n \in DOMAIN subs THEN subs[n]
                  ELSE [status |-> "draft", amount |-> amount, rate |-> rate,
                        lines |-> 0, billings |-> <<>>]]

\* The form: a blank rate is the rate of the prime contract's rule.
CreateRequest(number, amount, typed) ==
    Create(number, amount, IF typed = Blank THEN PrimeRate ELSE typed)

Execute(number) ==
    /\ number \in DOMAIN subs
    /\ subs' = [subs EXCEPT ![number].status = "executed"]

\* A line of the sub's own schedule; no rule reads it.  (Bound: one line.)
AddSubcontractLine(number) ==
    /\ subs[number].lines = 0
    /\ subs' = [subs EXCEPT ![number].lines = @ + 1]

ReceiveBeyondValue(number, claim, stored, isFinal, start, end) ==
    /\ start <= end
    /\ Len(subs[number].billings) < MaxBillings
    /\ subs' = [subs EXCEPT ![number].billings = Append(@, Billing(subs[number], claim + stored, isFinal))]

Receive(number, claim, stored, isFinal, start, end) ==
    /\ subs[number].status \in SubStatuses
    /\ start <= end
    /\ claim + stored <= subs[number].amount
    /\ Len(subs[number].billings) < MaxBillings
    /\ subs' = [subs EXCEPT ![number].billings =
                  Append(@, Billing(subs[number], claim + stored, isFinal))]

\* The form has the end of the period and one amount, which is taken for the
\* work to date; the days are those of one month.
ReceiveRequest(number, typed, end) == Receive(number, typed, 0, FALSE, 1, end)

Approve(number, n, amount) ==
    /\ subs[number].billings[n].status = "received"
    /\ amount <= subs[number].billings[n].due
    /\ subs' = [subs EXCEPT ![number].billings[n] =
                  [@ EXCEPT !.status = "approved", !.approved = amount]]

Reject(number, n) ==
    /\ subs[number].billings[n].status = "received"
    /\ subs' = [subs EXCEPT ![number].billings[n].status = "rejected"]

-----------------------------------------------------------------------------
Next ==
    \/ \E number \in Numbers, amount \in SubcontractAmounts, typed \in RetainageRates \cup {Blank} :
          CreateRequest(number, amount, typed)
    \/ \E number \in DOMAIN subs :
          \/ Execute(number)
          \/ AddSubcontractLine(number)
          \/ \E claim, stored \in Claims, isFinal \in BOOLEAN, start, end \in Days :
                Receive(number, claim, stored, isFinal, start, end)
          \/ \E typed \in Claims, end \in Days : ReceiveRequest(number, typed, end)
          \/ \E n \in DOMAIN subs[number].billings :
                \/ \E cut \in Cuts : Approve(number, n, subs[number].billings[n].due - cut)
                \/ Reject(number, n)

Spec == Init /\ [][Next]_subs

-----------------------------------------------------------------------------
(* Properties                                                              *)

\* Billings are decided in the order they are received, none overtaking one
\* that is still open.
DecidedInTurn(number) ==
    \A n \in DOMAIN subs[number].billings : ~subs[number].billings[n].overtook

\* As long as no billing overtakes an undecided one, what is approved on a
\* subcontract never exceeds the work of the newest approved billing less its
\* retainage, nor the value of the subcontract, whatever was cut, rejected,
\* claimed back or released in between (previous_paid, receive, approve).
PaysNoMoreThanEarned ==
    \A number \in DOMAIN subs :
        DecidedInTurn(number) =>
            /\ ApprovedToDate(number) <= subs[number].amount
            /\ LET approved == {n \in DOMAIN subs[number].billings :
                                  subs[number].billings[n].status = "approved"}
               IN  \A n \in approved :
                      (\A m \in approved : m <= n) =>
                          ApprovedToDate(number)
                            <= subs[number].billings[n].total - subs[number].billings[n].retained

\* A final billing, approved in full and in turn, pays out exactly what is left
\* of the work: no cent of retainage stays behind and none is paid twice.
FinalBillingSettlesUp ==
    \A number \in DOMAIN subs :
        LET billings == subs[number].billings
        IN  \A n \in DOMAIN billings :
                /\ DecidedInTurn(number)
                /\ billings[n].status = "approved" /\ billings[n].retained = 0
                /\ billings[n].approved = billings[n].due
                => ApprovedUpTo(billings, n) = billings[n].total
=============================================================================
