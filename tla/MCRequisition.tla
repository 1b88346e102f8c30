---------------------------- MODULE MCRequisition ----------------------------
(***************************************************************************)
(* The pure core, called with every combination of small arguments: a       *)
(* continuation sheet and a retainage spec for Compute, and a total to      *)
(* spread over the sheet's scheduled values for Allocate.                   *)
(*                                                                         *)
(* A state is one set of arguments; a step edits one of them.               *)
(***************************************************************************)
EXTENDS Requisition

CONSTANTS
    Lines,          \* positions on the sheet, 1..n
    Entries,        \* the entries a line may hold
    Specs,          \* retainage specs
    Rates,          \* basis points
    Totals,         \* amounts to spread
    Increments      \* amounts added to columns E and F

ASSUME ArgumentsAreNumbers ==
    /\ IsFiniteSet(Lines) /\ Lines \subseteq Int
    /\ Entries \subseteq [c : Int, d : Int, e : Int, f : Int, rate : Int]
    /\ Specs \subseteq [mode : RetainageModes, work : Int, stored : Int,
                        threshold : Int, reduced : Int]
    /\ Rates \subseteq Int /\ Totals \subseteq Int /\ Increments \subseteq Nat

VARIABLES sheet, spec, total

coreVars == <<sheet, spec, total>>

Blank == [c |-> 1, d |-> 0, e |-> 0, f |-> 0, rate |-> NoRate]

CoreInit ==
    /\ sheet = [i \in Lines |-> Blank]
    /\ spec \in Specs
    /\ total = 0

EditLine(i, entry) ==
    /\ sheet' = [sheet EXCEPT ![i] = entry]
    /\ UNCHANGED <<spec, total>>

EditTotal(amount) ==
    /\ total' = amount
    /\ UNCHANGED <<sheet, spec>>

CoreNext ==
    \/ \E i \in Lines, entry \in Entries : EditLine(i, entry)
    \/ \E amount \in Totals : EditTotal(amount)

CoreSpec == CoreInit /\ [][CoreNext]_coreVars

-----------------------------------------------------------------------------
Requested(s) == Compute(spec, s, SumOver([i \in Lines |-> s[i].c]), 0, 0)

Weights == [i \in Lines |-> sheet[i].c]

Reduced(s) ==
    IsReduced(spec, SumOver([i \in Lines |-> CompletedStored(s[i])]),
              SumOver([i \in Lines |-> s[i].c]))

\* apply_bp is the nearest whole cent to amount * rate, ties going away from
\* zero, and negating the amount negates the result.
RatesRoundHalfAway ==
    \A rate \in Rates :
        LET exact == total * rate
            error == ApplyBp(total, rate) * BpScale - exact
        IN  /\ 2 * Abs(error) <= BpScale
            /\ 2 * Abs(error) = BpScale => error * exact > 0
            /\ ApplyBp(-total, rate) = -ApplyBp(total, rate)

\* "Retainage is computed per line and summed": editing one line never moves
\* the retainage of another, unless it carries the sheet over the threshold.
RetainageStaysOnItsLine ==
    \A i, j \in Lines, entry \in Entries :
        LET edited == [sheet EXCEPT ![j] = entry]
        IN  i # j /\ Reduced(edited) = Reduced(sheet) =>
                Requested(edited).i[i] = Requested(sheet).i[i]

\* Billing more work or storing more material never lowers what is earned less
\* retainage, across rounding on every line and the stepped reduction.
BillingMoreNeverEarnsLess ==
    (\A i \in Lines : /\ WorkToDate(sheet[i]) >= 0
                      /\ sheet[i].f >= 0
                      /\ sheet[i].c >= 0) =>
        \A i \in Lines, work, stored \in Increments :
            LET more == [sheet EXCEPT ![i].e = @ + work, ![i].f = @ + stored]
            IN  Requested(more).line6 >= Requested(sheet).line6

\* allocate gives out every cent, puts no part a whole cent from its exact
\* share, and puts nothing on a line with no weight.
AllocationIsExactAndFair ==
    CanAllocate(total, Weights) =>
        LET parts == Allocate(total, Weights)
            whole == SumOver(Weights)
        IN  /\ SumOver(parts) = total
            /\ \A i \in Lines :
                  /\ Weights[i] = 0 => parts[i] = 0
                  /\ whole # 0 =>
                        Abs(parts[i] * whole - total * Weights[i]) < Abs(whole)

\* A change order and the credit reversing it land on the same lines.
AllocationReverses ==
    CanAllocate(total, Weights) =>
        \A i \in Lines : Allocate(-total, Weights)[i] = -Allocate(total, Weights)[i]

-----------------------------------------------------------------------------
MCLines == 1..2

MCTotals == {-7, -1, 0, 1, 5, 10}

MCSpecs ==
    {[mode |-> mode, work |-> 1000, stored |-> 500, threshold |-> 5000, reduced |-> 500] :
        mode \in RetainageModes}

MCEntries ==
    {[c |-> c, d |-> d, e |-> 5, f |-> f, rate |-> rate] :
        c \in {-3, 0, 15, 40}, d \in {-10, 12}, f \in {0, 5}, rate \in {NoRate, 700}}
=============================================================================
