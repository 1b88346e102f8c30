----------------------------- MODULE MoneyKernel -----------------------------
(***************************************************************************)
(* Integer-cents arithmetic: massingbill/core/money.py.                    *)
(*                                                                         *)
(* An amount is a whole number of cents and a rate a whole number of basis *)
(* points, both plain integers of any sign.  Python's divmod on a positive *)
(* divisor is TLA+'s \div and %, so every operator below is the code's own *)
(* integer computation and not an approximation of it.                     *)
(***************************************************************************)
EXTENDS Integers, Sequences, FiniteSets, Functions

BpScale == 10000

Abs(n) == IF n < 0 THEN -n ELSE n

\* -1 when exactly one of the two is negative, as the code's (a < 0) != (b < 0).
SignOf(a, b) == IF (a < 0) # (b < 0) THEN -1 ELSE 1

SumOver(f) == SumFunction(f)

-----------------------------------------------------------------------------
(* One rounding rule: half or more of the divisor goes away from zero.     *)

RoundedQuotientTiesDown(magnitude, whole) ==
    (magnitude \div whole) + (IF 2 * (magnitude % whole) > whole THEN 1 ELSE 0)

RoundedQuotient(magnitude, whole) ==
    (magnitude \div whole) + (IF 2 * (magnitude % whole) >= whole THEN 1 ELSE 0)

ApplyBp(amount, rate) ==
    IF amount = 0 \/ rate = 0
    THEN 0
    ELSE SignOf(amount, rate) * RoundedQuotient(Abs(amount) * Abs(rate), BpScale)

PercentOf(part, whole) ==
    IF whole = 0
    THEN 0
    ELSE SignOf(part, whole) * RoundedQuotient(Abs(part) * BpScale, Abs(whole))

-----------------------------------------------------------------------------
(* Largest-remainder apportionment.  `weights` is a sequence; the code's   *)
(* MoneyError cases are those CanAllocate excludes.                        *)

CanAllocate(total, weights) == total = 0 \/ SumOver(weights) # 0

\* divmod(numerator, divisor), for a divisor of either sign.
FloorDiv(numerator, divisor) ==
    IF divisor > 0 THEN numerator \div divisor ELSE (-numerator) \div (-divisor)

RemainderSize(numerator, divisor) ==
    IF divisor > 0 THEN numerator % divisor ELSE (-numerator) % (-divisor)

AllocateFloor(total, weights) ==
    [i \in DOMAIN weights |-> FloorDiv(total * weights[i], SumOver(weights))]

AllocateSigned(total, weights) ==
    LET whole == SumOver(weights)
        base(i) == FloorDiv(total * weights[i], whole)
        left(i) == RemainderSize(total * weights[i], whole)
        leftover == total - SumOver([i \in DOMAIN weights |-> base(i)])
        ahead(i) == {j \in DOMAIN weights :
                        \/ left(j) > left(i)
                        \/ left(j) = left(i) /\ j < i}
    IN  [i \in DOMAIN weights |->
            base(i) + (IF Cardinality(ahead(i)) < leftover THEN 1 ELSE 0)]

Allocate(total, weights) ==
    IF SumOver(weights) = 0
    THEN [i \in DOMAIN weights |-> 0]
    ELSE IF total < 0
         THEN LET parts == AllocateSigned(-total, weights)
              IN  [i \in DOMAIN parts |-> -parts[i]]
         ELSE AllocateSigned(total, weights)
=============================================================================
