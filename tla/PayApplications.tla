--------------------------- MODULE PayApplications ---------------------------
(***************************************************************************)
(* The period engine of one prime contract: its pay applications, from      *)
(* opening a period to the last payment, with the approved schedule of      *)
(* values, the approved change orders and the contract terms they are       *)
(* computed from.                                                           *)
(*                                                                         *)
(* Code: services/application.py, services/payments.py, models/             *)
(* application.py, the blocking rules of services/tieout.py, and the views  *)
(* that commit them.  A request is one step: a refused one changes nothing. *)
(*                                                                         *)
(* apps[n] is application number n: next_number is max + 1 and no row is    *)
(* ever deleted, so numbers are positions.                                  *)
(***************************************************************************)
EXTENDS Requisition

CONSTANTS
    Items,            \* item numbers of the schedule as signed
    OrderItems,       \* item numbers a change order may add
    InitialValues,    \* the schedule as first approved, [Items -> Int]
    OrderAmounts,     \* amounts of a change order
    ScheduledValues,  \* column C values a revision may give a line
    ContractSums,     \* original contract sums the contract form may save
    Rules,            \* retainage specs the contract form may save
    Days,             \* calendar days, as numbers
    OrderDays,        \* the days change orders are approved on
    Work, Stored,     \* amounts a person may type in columns E and F
    Trims,            \* request minus certificate
    Receipts,         \* amounts of one payment
    MaxApplications,  \* bound: applications on the contract
    MaxReceipts       \* bound: payments on the contract

AllItems == Items \cup OrderItems

ASSUME AmountsAreIntegers ==
    /\ Items # {}
    /\ InitialValues \in [Items -> Int]
    /\ Days \subseteq Int /\ OrderDays \subseteq Int /\ ScheduledValues \subseteq Int
    /\ ContractSums \subseteq Int /\ OrderAmounts \subseteq Int
    /\ Work \subseteq Int /\ Stored \subseteq Int /\ Trims \subseteq Int /\ Receipts \subseteq Int
    /\ MaxApplications \in Nat /\ MaxReceipts \in Nat

ASSUME SignedScheduleTies == SumOver(InitialValues) \in ContractSums

VARIABLES
    apps,       \* the contract's applications, oldest first
    schedule,   \* [approved, value]: the newest revision and its column C
    orders,     \* approved change orders: item -> [amount, date]
    contract    \* [sum, rule]: the terms recompute reads live

vars == <<apps, schedule, orders, contract>>

-----------------------------------------------------------------------------
(* Status predicates and lookups                                           *)

Statuses == {"draft", "submitted", "certified", "paid", "void"}
IsEditable(a) == a.status = "draft"
IsIssued(a) == a.status \in {"submitted", "certified", "paid"}

Largest(S) == CHOOSE n \in S : \A m \in S : m <= n

IssuedBefore(n) == {m \in DOMAIN apps : m < n /\ IsIssued(apps[m])}
Live == {m \in DOMAIN apps : apps[m].status # "void"}

HasCertificate(a) == a.certificate # <<>>

\* What is due for this period alone: the certificate, or else the request.
CertifiedPayment(a) == IF HasCertificate(a) THEN a.certificate[1] ELSE a.sheet.line8

\* What the next application carries as line 7.
CertifiedOrRequested(a) == a.sheet.line7 + CertifiedPayment(a)

PreviousCertificates(n) ==
    IF IssuedBefore(n) = {} THEN 0 ELSE CertifiedOrRequested(apps[Largest(IssuedBefore(n))])

CarryForwardAll(columns, i) == columns[i].d + columns[i].e + columns[i].f
CarryForward(columns, i) == columns[i].d + columns[i].e

Carried(n, i) ==
    IF IssuedBefore(n) = {}
    THEN 0
    ELSE LET previous == apps[Largest(IssuedBefore(n))].columns
         IN  IF i \in DOMAIN previous THEN CarryForward(previous, i) ELSE 0

NetOrders == SumOver([i \in DOMAIN orders |-> orders[i].amount])

ContractSumToDate == contract.sum + NetOrders

-----------------------------------------------------------------------------
(* Recompute: the sheet and the change-order box of application n, from     *)
(* the given columns and the live contract, orders and previous certificate *)

SumOfOrders(S) == SumOver([i \in S |-> orders[i].amount])

SummaryBox(start, end) ==
    [before |-> SumOfOrders({i \in DOMAIN orders : orders[i].date < start}),
     during |-> SumOfOrders({i \in DOMAIN orders :
                                start <= orders[i].date /\ orders[i].date <= end})]

RecomputedRefreshingD(n, a, columns) ==
    LET carried == [i \in DOMAIN columns |-> [columns[i] EXCEPT !.d = Carried(n, i)]]
    IN  [a EXCEPT !.columns = carried,
                  !.sheet = Compute(contract.rule, carried, contract.sum, NetOrders,
                                    PreviousCertificates(n)),
                  !.box = SummaryBox(a.start, a.end)]

Recomputed(n, a, columns) ==
    [a EXCEPT !.columns = columns,
              !.sheet = Compute(contract.rule, columns, contract.sum, NetOrders,
                                PreviousCertificates(n)),
              !.box = SummaryBox(a.start, a.end)]

Fingerprint(a) == <<a.start, a.end, a.columns, a.sheet>>

-----------------------------------------------------------------------------
(* The tie-out rules that block a submission                                *)

\* SOV-001 and CO-SUM: the schedule and the box against the header.
HeaderTies(a) ==
    /\ SumOver([i \in DOMAIN a.columns |-> a.columns[i].c]) = a.sheet.line3
    /\ a.box.before + a.box.during = a.sheet.line2

\* G702-003 to -006, -008, -009 and PENNY.
SheetTies(a) ==
    /\ TiesOut(a.sheet)
    /\ a.sheet.line9 = a.sheet.line3 - a.sheet.line6

\* G703-G and G703-H.
LinesTie(a) ==
    \A i \in DOMAIN a.columns :
        /\ a.sheet.g[i] = CompletedStored(a.columns[i])
        /\ a.sheet.h[i] = a.columns[i].c - a.sheet.g[i]

\* G702-002 and G702-007, then G703-D: asked of live data while a period is open.
AgreesWithLiveOrders(n) ==
    apps[n].sheet.line2 = NetOrders

AgreesWithLiveData(n) ==
    /\ apps[n].sheet.line2 = NetOrders
    /\ apps[n].sheet.line7 = PreviousCertificates(n)

CarriesLiveColumns(n) ==
    \A i \in DOMAIN apps[n].columns : apps[n].columns[i].d = Carried(n, i)

Tieout(n) ==
    /\ HeaderTies(apps[n])
    /\ SheetTies(apps[n])
    /\ LinesTie(apps[n])
    /\ AgreesWithLiveData(n)
    /\ CarriesLiveColumns(n)

-----------------------------------------------------------------------------
(* The terms an application is computed from                                *)

Init ==
    /\ apps = <<>>
    /\ schedule = [approved |-> TRUE, value |-> InitialValues]
    /\ orders = <<>>
    /\ \E rule \in Rules : contract = [sum |-> SumOver(InitialValues), rule |-> rule]

\* f with one more item.
Extended(f, item, entry) ==
    [i \in DOMAIN f \cup {item} |-> IF i = item THEN entry ELSE f[i]]

\* The contract form saves the sum and the rates whatever is open.
EditContract(sum, rule) ==
    /\ contract' = [sum |-> sum, rule |-> rule]
    /\ UNCHANGED <<apps, schedule, orders>>

\* create_revision: from here to approval there is no approved schedule.
ReviseSchedule ==
    /\ schedule.approved
    /\ schedule' = [schedule EXCEPT !.approved = FALSE]
    /\ UNCHANGED <<apps, orders, contract>>

\* The edits of a draft revision and its approval, which checks the total.
\* Lines a change order created cannot be removed.
ApproveSchedule(value) ==
    /\ ~schedule.approved
    /\ DOMAIN value # {}
    /\ DOMAIN orders \subseteq DOMAIN value
    /\ SumOver(value) = ContractSumToDate
    /\ schedule' = [approved |-> TRUE, value |-> value]
    /\ UNCHANGED <<apps, orders, contract>>

\* The approval request: revise, land the new line, re-approve, in one commit.
ApproveChangeOrder(item, amount, date) ==
    /\ schedule.approved
    /\ item \in OrderItems \ DOMAIN schedule.value
    /\ SumOver(schedule.value) = ContractSumToDate
    /\ schedule' = [schedule EXCEPT !.value = Extended(@, item, amount)]
    /\ orders' = Extended(orders, item, [amount |-> amount, date |-> date])
    /\ UNCHANGED <<apps, contract>>

-----------------------------------------------------------------------------
(* The life of one application                                              *)

NoSheet == [line7 |-> 0]

\* The row and lines of a new period: C from the schedule, D carried, E and F
\* zero, then recompute.
NewApplication(n, start, end) ==
    LET columns == [i \in DOMAIN schedule.value |->
                      [c |-> schedule.value[i], d |-> Carried(n, i),
                       e |-> 0, f |-> 0, rate |-> NoRate]]
        blank == [status |-> "draft", start |-> start, end |-> end,
                  columns |-> columns, sheet |-> NoSheet,
                  box |-> [before |-> 0, during |-> 0],
                  snapshot |-> <<>>, certificate |-> <<>>,
                  paid |-> 0, receipts |-> 0, voidNoted |-> FALSE]
    IN  Recomputed(n, blank, columns)

OpenPeriodBackwards(start, end) ==
    /\ Len(apps) < MaxApplications
    /\ schedule.approved
    /\ ~ \E n \in DOMAIN apps : IsEditable(apps[n])
    /\ Live # {} => start > apps[Largest(Live)].end
    /\ apps' = Append(apps, NewApplication(Len(apps) + 1, start, end))
    /\ UNCHANGED <<schedule, orders, contract>>

OpenPeriodOverlapping(start, end) ==
    /\ Len(apps) < MaxApplications
    /\ schedule.approved
    /\ ~ \E n \in DOMAIN apps : IsEditable(apps[n])
    /\ start <= end
    /\ Live # {} => start >= apps[Largest(Live)].end
    /\ apps' = Append(apps, NewApplication(Len(apps) + 1, start, end))
    /\ UNCHANGED <<schedule, orders, contract>>

OpenPeriodBesideAnother(start, end) ==
    /\ Len(apps) < MaxApplications
    /\ schedule.approved
    /\ start <= end
    /\ Live # {} => start > apps[Largest(Live)].end
    /\ apps' = Append(apps, NewApplication(Len(apps) + 1, start, end))
    /\ UNCHANGED <<schedule, orders, contract>>

OpenPeriod(start, end) ==
    /\ Len(apps) < MaxApplications
    /\ schedule.approved
    /\ ~ \E n \in DOMAIN apps : IsEditable(apps[n])
    /\ start <= end
    /\ Live # {} => start > apps[Largest(Live)].end
    /\ apps' = Append(apps, NewApplication(Len(apps) + 1, start, end))
    /\ UNCHANGED <<schedule, orders, contract>>

\* What the requests below write to one row.
WithEntries(columns, e, f) ==
    [i \in DOMAIN columns |-> [columns[i] EXCEPT !.e = e[i], !.f = f[i]]]

\* Submit freezes the stored figures as they are: it does not recompute.
Submitted(a) == [a EXCEPT !.status = "submitted", !.snapshot = <<Fingerprint(a)>>]

Certified(a, amount) == [a EXCEPT !.status = "certified", !.certificate = <<amount>>]

\* The pending payment is flushed by the query that sums the payments, so the
\* amount counts twice in the comparison; it is stored once.
ClosesPeriod(a, amount) == (a.paid + amount) + amount >= CertifiedPayment(a)

Paid(a, amount) ==
    [a EXCEPT !.paid = @ + amount,
              !.receipts = @ + 1,
              !.status = IF ClosesPeriod(a, amount) THEN "paid" ELSE @]

\* The note keeps "Voided: ..." for good, whatever the status becomes later.
Voided(a) == [a EXCEPT !.status = "void", !.voidNoted = TRUE]

\* The rows of the entry form: E and F of every line, then recompute.
EnterAnyStatus(n, e, f) ==
    /\ apps' = [apps EXCEPT ![n] = Recomputed(n, @, WithEntries(@.columns, e, f))]
    /\ UNCHANGED <<schedule, orders, contract>>

Enter(n, e, f) ==
    /\ IsEditable(apps[n])
    /\ apps' = [apps EXCEPT ![n] = Recomputed(n, @, WithEntries(@.columns, e, f))]
    /\ UNCHANGED <<schedule, orders, contract>>

SubmitUnchecked(n) ==
    /\ IsEditable(apps[n])
    /\ apps' = [apps EXCEPT ![n] = Submitted(@)]
    /\ UNCHANGED <<schedule, orders, contract>>

Submit(n) ==
    /\ IsEditable(apps[n])
    /\ Tieout(n)
    /\ apps' = [apps EXCEPT ![n] = Submitted(@)]
    /\ UNCHANGED <<schedule, orders, contract>>

Certify(n, amount) ==
    /\ apps[n].status = "submitted"
    /\ apps' = [apps EXCEPT ![n] = Certified(@, amount)]
    /\ UNCHANGED <<schedule, orders, contract>>

Pay(n, amount) ==
    /\ ~IsEditable(apps[n])
    /\ amount # 0
    /\ SumOver([m \in DOMAIN apps |-> apps[m].receipts]) < MaxReceipts
    /\ apps' = [apps EXCEPT ![n] = Paid(@, amount)]
    /\ UNCHANGED <<schedule, orders, contract>>

Void(n) ==
    /\ apps[n].status # "paid"
    /\ apps' = [apps EXCEPT ![n] = Voided(@)]
    /\ UNCHANGED <<schedule, orders, contract>>

-----------------------------------------------------------------------------
Terms ==
    \/ \E sum \in ContractSums, rule \in Rules : EditContract(sum, rule)
    \/ ReviseSchedule
    \/ \E S \in SUBSET AllItems : \E value \in [S -> ScheduledValues] : ApproveSchedule(value)
    \/ \E item \in OrderItems, amount \in OrderAmounts, date \in OrderDays :
          ApproveChangeOrder(item, amount, date)

\* The architect allows the request, less a trim where it is large enough.
Trimmed(request, trim) == IF trim <= request THEN request - trim ELSE request

Billing ==
    \/ \E start, end \in Days : OpenPeriod(start, end)
    \/ \E n \in DOMAIN apps :
          \/ \E e \in [DOMAIN apps[n].columns -> Work],
                f \in [DOMAIN apps[n].columns -> Stored] : Enter(n, e, f)
          \/ Submit(n)
          \/ \E trim \in Trims : Certify(n, Trimmed(apps[n].sheet.line8, trim))
          \/ \E amount \in Receipts : Pay(n, amount)
          \/ Void(n)

Next == Terms \/ Billing

Spec == Init /\ [][Next]_vars

-----------------------------------------------------------------------------
(* Properties                                                               *)

Entries == [c: Int, d: Int, e: Int, f: Int, rate: Int]

\* s is a sequence, of whatever its elements are.
IsRowSequence(s) == s \in Seq({s[k] : k \in DOMAIN s})

IsApplication(a) ==
    /\ a \in [status: Statuses, start: Days, end: Days,
              columns: {a.columns}, sheet: {a.sheet}, box: {a.box},
              snapshot: {a.snapshot}, certificate: {a.certificate},
              paid: Int, receipts: Nat, voidNoted: BOOLEAN]
    /\ a.start <= a.end
    /\ DOMAIN a.columns \subseteq AllItems
    /\ a.columns \in [DOMAIN a.columns -> Entries]

\* The shape of the rows: a contract holds a sequence of applications whose
\* periods do not end before they start, with integer columns for each line.
TypeOK ==
    /\ IsRowSequence(apps)
    /\ \A n \in DOMAIN apps : IsApplication(apps[n])
    /\ schedule \in [approved: BOOLEAN, value: {schedule.value}]
    /\ DOMAIN schedule.value \subseteq AllItems
    /\ schedule.value \in [DOMAIN schedule.value -> Int]
    /\ DOMAIN orders \subseteq OrderItems
    /\ contract.rule \in Rules

\* Only one period is open at a time and it is the newest, so no later period
\* was ever opened on figures that can still move (open_period, submit, void).
OnlyNewestIsOpen ==
    \A n \in DOMAIN apps : IsEditable(apps[n]) => n = Len(apps)

NeverVoided(n) == ~apps[n].voidNoted

\* Two applications that were never voided cover disjoint, ordered dates
\* (open_period's overlap check, through every later void and payment).
PeriodsNeverOverlap ==
    \A m, n \in DOMAIN apps : m < n /\ NeverVoided(m) => apps[m].end < apps[n].start

\* Column D of an application is D + E of the one before it, unless that one
\* was voided: nothing is billed twice and nothing billed is dropped while
\* the item stays on the schedule (open_period, enter, _carry_forward).
ColumnDCarriesForward ==
    \A n \in DOMAIN apps :
        n > 1 /\ NeverVoided(n - 1) =>
            \A i \in DOMAIN apps[n].columns \cap DOMAIN apps[n - 1].columns :
                apps[n].columns[i].d = apps[n - 1].columns[i].d + apps[n - 1].columns[i].e

\* An issued application that was never voided has a snapshot and still equals
\* it: SNAPSHOT-MISSING and SNAPSHOT-DRIFT never fire (submit, enter, pay).
IssuedMatchesSnapshot ==
    \A n \in DOMAIN apps :
        IsIssued(apps[n]) /\ NeverVoided(n) =>
            apps[n].snapshot = <<Fingerprint(apps[n])>>

\* What was issued ties out to the cent, although submit does not recompute and
\* the contract, the orders and the schedule move under an open period.
IssuedTiesOut ==
    \A n \in DOMAIN apps :
        IsIssued(apps[n]) /\ NeverVoided(n) =>
            HeaderTies(apps[n]) /\ SheetTies(apps[n]) /\ LinesTie(apps[n])

\* A period that is no longer open never opens again, and its columns, its
\* header and a recorded certificate never change (application.py's "a closed
\* period cannot be reopened").
ClosedIsFinal ==
    [][\A n \in DOMAIN apps :
          ~IsEditable(apps[n]) =>
              /\ n \in DOMAIN apps'
              /\ ~IsEditable(apps'[n])
              /\ Fingerprint(apps'[n]) = Fingerprint(apps[n])
              /\ HasCertificate(apps[n]) => apps'[n].certificate = apps[n].certificate]_vars

\* Columns C and D are written when the period opens and by nothing after.
ColumnsCAndDWrittenOnce ==
    [][\A n \in DOMAIN apps :
          \A i \in DOMAIN apps[n].columns :
              /\ apps'[n].columns[i].c = apps[n].columns[i].c
              /\ apps'[n].columns[i].d = apps[n].columns[i].d]_vars

\* What is submitted carries what the period before it came to by then: its
\* certificate where there is one, although one recorded after the draft was
\* last computed left the draft with the request (certify, submit, tie-out).
\* A certificate recorded later still is CumulativeCertificatesAreCarried.
SubmittedLine7FollowsCertificate ==
    [][\A n \in DOMAIN apps :
          n > 1 /\ NeverVoided(n - 1) /\ IsEditable(apps[n]) /\ IsIssued(apps'[n]) =>
              LET p == apps[n - 1]
              IN  apps'[n].sheet.line7 =
                      p.sheet.line7
                      + (IF HasCertificate(p) THEN p.certificate[1] ELSE p.sheet.line8)]_vars

-----------------------------------------------------------------------------
(* A statement of the repository that the code does not keep                *)

\* models/application.py on line 7: "the **cumulative** total certified to
\* date", and on a certificate below the request: "the next period's line 8
\* picks it up again".  So a draft that ties out after periods none of which
\* was voided has the certificates of all of them in line 7.  A certificate
\* recorded when the next period is submitted is in no line 7 ever.
CumulativeCertificatesAreCarried ==
    \A n \in DOMAIN apps :
        IsEditable(apps[n]) /\ Tieout(n) /\ (\A m \in 1..(n - 1) : NeverVoided(m)) =>
            apps[n].sheet.line7 = SumOver([m \in 1..(n - 1) |-> CertifiedPayment(apps[m])])
=============================================================================
