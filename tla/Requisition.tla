----------------------------- MODULE Requisition -----------------------------
(***************************************************************************)
(* The G702/G703 computation: massingbill/core/requisition.py and          *)
(* core/retainage.py.                                                      *)
(*                                                                         *)
(* A continuation sheet is a function from item numbers to entries          *)
(* [c, d, e, f, rate]: scheduled value, previous work, work this period,    *)
(* material stored, and the line's own retainage rate or NoRate.            *)
(* A retainage spec is a record                                             *)
(*   [mode, work, stored, threshold, reduced].                              *)
(***************************************************************************)
EXTENDS MoneyKernel

NoRate == -1
NoThreshold == -1

RetainageModes == {"flat", "split", "stepped", "variable_line"}

\* Columns D + E, and columns D + E + F, of one entry.
WorkToDate(entry) == entry.d + entry.e
CompletedStored(entry) == WorkToDate(entry) + entry.f

-----------------------------------------------------------------------------
(* Retainage                                                               *)

IsReducedBelow(spec, completed, contractSum) ==
    /\ spec.mode = "stepped"
    /\ spec.threshold # NoThreshold
    /\ PercentOf(completed, contractSum) < spec.threshold

IsReduced(spec, completed, contractSum) ==
    /\ spec.mode = "stepped"
    /\ spec.threshold # NoThreshold
    /\ PercentOf(completed, contractSum) >= spec.threshold

\* The pair (work rate, stored rate) after any stepped reduction.
EffectiveRates(spec, completed, contractSum) ==
    IF IsReduced(spec, completed, contractSum)
    THEN [work |-> spec.reduced, stored |-> spec.reduced]
    ELSE [work |-> spec.work,
          stored |-> IF spec.mode = "flat" THEN spec.work ELSE spec.stored]

LineRates(spec, entry, rates) ==
    IF spec.mode = "variable_line"
    THEN LET own == IF entry.rate = NoRate THEN spec.work ELSE entry.rate
         IN  [work |-> own, stored |-> own]
    ELSE rates

\* Withhold on the header and never on the line: the form the code rejects.
WithholdOnTotal(spec, sheet) ==
    LET work == SumOver([i \in DOMAIN sheet |-> WorkToDate(sheet[i])])
        kept == SumOver([i \in DOMAIN sheet |-> sheet[i].f])
    IN  [i \in DOMAIN sheet |->
            [work |-> IF i = CHOOSE j \in DOMAIN sheet : TRUE
                      THEN ApplyBp(work, spec.work) ELSE 0,
             stored |-> IF i = CHOOSE j \in DOMAIN sheet : TRUE
                        THEN ApplyBp(kept, spec.stored) ELSE 0]]

\* What each line withholds from completed work and from stored material.
Withhold(spec, sheet) ==
    LET completed == SumOver([i \in DOMAIN sheet |-> CompletedStored(sheet[i])])
        scheduled == SumOver([i \in DOMAIN sheet |-> sheet[i].c])
        rates == EffectiveRates(spec, completed, scheduled)
    IN  [i \in DOMAIN sheet |->
            LET own == LineRates(spec, sheet[i], rates)
            IN  [work |-> ApplyBp(WorkToDate(sheet[i]), own.work),
                 stored |-> ApplyBp(sheet[i].f, own.stored)]]

-----------------------------------------------------------------------------
(* The requisition: every G703 column and every G702 line.                 *)

Compute(spec, sheet, originalSum, netChangeOrders, previousCertificates) ==
    LET withheld == Withhold(spec, sheet)
        line3 == originalSum + netChangeOrders
        line4 == SumOver([i \in DOMAIN sheet |-> CompletedStored(sheet[i])])
        line5a == SumOver([i \in DOMAIN sheet |-> withheld[i].work])
        line5b == SumOver([i \in DOMAIN sheet |-> withheld[i].stored])
        line6 == line4 - (line5a + line5b)
    IN  [g |-> [i \in DOMAIN sheet |-> CompletedStored(sheet[i])],
         h |-> [i \in DOMAIN sheet |-> sheet[i].c - CompletedStored(sheet[i])],
         i |-> [i \in DOMAIN sheet |-> withheld[i].work + withheld[i].stored],
         line1 |-> originalSum,
         line2 |-> netChangeOrders,
         line3 |-> line3,
         line4 |-> line4,
         line5a |-> line5a,
         line5b |-> line5b,
         line5 |-> line5a + line5b,
         line6 |-> line6,
         line7 |-> previousCertificates,
         line8 |-> line6 - previousCertificates,
         line9 |-> line3 - line6]

TiesOut(app) ==
    /\ app.line3 = app.line1 + app.line2
    /\ app.line4 = SumOver(app.g)
    /\ app.line5 = app.line5a + app.line5b
    /\ app.line5 = SumOver(app.i)
    /\ app.line6 = app.line4 - app.line5
    /\ app.line8 = app.line6 - app.line7
=============================================================================
