------------------------ MODULE PayApplicationsProofs ------------------------
(***************************************************************************)
(* Theorems about PayApplications, for every schedule, every amount and     *)
(* every number of applications.                                            *)
(***************************************************************************)
EXTENDS PayApplications, WellFoundedInduction, SequenceTheorems, TLAPS

-----------------------------------------------------------------------------
(* The queries that take the highest application number                     *)

\* A non-empty set of application numbers has a highest one.
LEMMA LargestExists ==
    ASSUME NEW top \in Nat, NEW S, S \subseteq 1..top, S # {}
    PROVE  /\ Largest(S) \in S
           /\ \A m \in S : m <= Largest(S)
<1> DEFINE R == OpToRel(<, Nat)
           T == {top - n : n \in S}
<1>1. T \subseteq Nat /\ T # {}
  OBVIOUS
<1>2. \E x \in T : \A y \in T : <<y, x>> \notin R
  <2> HIDE DEF T
  <2> QED BY <1>1, NatLessThanWellFounded, WFMin
<1>3. PICK x \in T : \A y \in T : <<y, x>> \notin R
  BY <1>2
<1>4. \A y \in T : ~(y < x)
  <2> HIDE DEF T
  <2> QED BY <1>1, <1>3 DEF OpToRel
<1>5. PICK n \in S : x = top - n
  OBVIOUS
<1>6. \A m \in S : m <= n
  <2> SUFFICES ASSUME NEW m \in S PROVE m <= n
    OBVIOUS
  <2>1. top - m \in T
    OBVIOUS
  <2>2. ~(top - m < top - n)
    BY <2>1, <1>4, <1>5
  <2> HIDE DEF T
  <2> QED BY <2>2
<1>7. \E k \in S : \A m \in S : m <= k
  BY <1>6
<1> QED BY <1>7 DEF Largest

-----------------------------------------------------------------------------
(* Sequences of rows                                                        *)

\* A sequence of anything is a sequence of rows.
LEMMA RowSequence ==
    ASSUME NEW s, NEW S, s \in Seq(S)
    PROVE  /\ IsRowSequence(s)
           /\ Len(s) \in Nat
           /\ DOMAIN s = 1..Len(s)
<1>1. Len(s) \in Nat /\ DOMAIN s = 1..Len(s) /\ s \in [1..Len(s) -> S]
  BY LenProperties
<1>2. s \in [1..Len(s) -> {s[k] : k \in DOMAIN s}]
  BY <1>1
<1> QED BY <1>1, <1>2, IsASeq DEF IsRowSequence, Seq

\* Writing one row leaves the others and the length alone.
LEMMA ReplacedRow ==
    ASSUME NEW s, IsRowSequence(s), NEW n \in DOMAIN s, NEW b
    PROVE  LET u == [s EXCEPT ![n] = b]
           IN  /\ IsRowSequence(u)
               /\ DOMAIN u = DOMAIN s /\ Len(u) = Len(s)
               /\ u[n] = b
               /\ \A m \in DOMAIN s : m # n => u[m] = s[m]
<1> DEFINE S == {s[k] : k \in DOMAIN s} \cup {b}
           u == [s EXCEPT ![n] = b]
<1>1. s \in Seq(S)
  BY SeqMonotonic DEF IsRowSequence
<1>2. DOMAIN s = 1..Len(s)
  BY <1>1, RowSequence
<1>3. u \in Seq(S) /\ Len(u) = Len(s)
  <2> HIDE DEF S
  <2>1. b \in S
    BY DEF S
  <2> QED BY <1>1, <1>2, <2>1, ExceptSeq
<1>4. IsRowSequence(u)
  BY <1>3, RowSequence
<1> QED BY <1>2, <1>3, <1>4, RowSequence

\* Inserting a row leaves those before it alone.
LEMMA AppendedRow ==
    ASSUME NEW s, IsRowSequence(s), NEW b
    PROVE  LET u == Append(s, b)
           IN  /\ IsRowSequence(u)
               /\ Len(s) \in Nat /\ DOMAIN s = 1..Len(s)
               /\ Len(u) = Len(s) + 1 /\ DOMAIN u = 1..(Len(s) + 1)
               /\ u[Len(s) + 1] = b
               /\ \A m \in DOMAIN s : u[m] = s[m]
<1> DEFINE S == {s[k] : k \in DOMAIN s} \cup {b}
           u == Append(s, b)
<1>1. s \in Seq(S) /\ b \in S
  BY SeqMonotonic DEF IsRowSequence
<1>2. Len(s) \in Nat /\ DOMAIN s = 1..Len(s)
  BY <1>1, RowSequence
<1>3. /\ u \in Seq(S) /\ Len(u) = Len(s) + 1
      /\ \A m \in 1..Len(s) : u[m] = s[m]
      /\ u[Len(s) + 1] = b
  <2> HIDE DEF S
  <2> QED BY <1>1, AppendProperties
<1>4. IsRowSequence(u) /\ DOMAIN u = 1..(Len(s) + 1)
  BY <1>3, RowSequence
<1> QED BY <1>2, <1>3, <1>4

-----------------------------------------------------------------------------
(* What each request writes to one row                                      *)

\* Recomputing writes columns, sheet and box only (recompute).
LEMMA RecomputedRow ==
    ASSUME NEW n, NEW a, IsApplication(a),
           NEW columns, DOMAIN columns \subseteq AllItems,
           columns \in [DOMAIN columns -> Entries]
    PROVE  LET b == Recomputed(n, a, columns)
           IN  /\ IsApplication(b)
               /\ b.status = a.status /\ b.voidNoted = a.voidNoted
               /\ b.start = a.start /\ b.end = a.end
               /\ b.snapshot = a.snapshot /\ b.certificate = a.certificate
               /\ b.columns = columns
               /\ b.sheet = Compute(contract.rule, columns, contract.sum, NetOrders,
                                    PreviousCertificates(n))
  BY DEF Recomputed, IsApplication

\* Entering work keeps columns C and D (update_line).
LEMMA EnteredColumns ==
    ASSUME NEW columns, columns \in [DOMAIN columns -> Entries],
           NEW e \in [DOMAIN columns -> Work], NEW f \in [DOMAIN columns -> Stored]
    PROVE  LET w == WithEntries(columns, e, f)
           IN  /\ DOMAIN w = DOMAIN columns
               /\ w \in [DOMAIN w -> Entries]
               /\ \A i \in DOMAIN columns : w[i].c = columns[i].c /\ w[i].d = columns[i].d
  BY AmountsAreIntegers DEF WithEntries, Entries

\* Submitting writes the status and the snapshot only (submit).
LEMMA SubmittedRow ==
    ASSUME NEW a, IsApplication(a)
    PROVE  LET b == Submitted(a)
           IN  /\ IsApplication(b)
               /\ b.status = "submitted" /\ b.voidNoted = a.voidNoted
               /\ b.start = a.start /\ b.end = a.end
               /\ b.columns = a.columns /\ b.sheet = a.sheet /\ b.box = a.box
               /\ b.certificate = a.certificate
               /\ b.snapshot = <<Fingerprint(a)>>
  BY DEF Submitted, IsApplication, Statuses

\* Certifying writes the status and the certificate only (certify).
LEMMA CertifiedRow ==
    ASSUME NEW a, IsApplication(a), NEW amount
    PROVE  LET b == Certified(a, amount)
           IN  /\ IsApplication(b)
               /\ b.status = "certified" /\ b.voidNoted = a.voidNoted
               /\ b.start = a.start /\ b.end = a.end
               /\ b.columns = a.columns /\ b.sheet = a.sheet /\ b.box = a.box
               /\ b.snapshot = a.snapshot
               /\ b.certificate = <<amount>>
  BY DEF Certified, IsApplication, Statuses

\* A payment writes the amount paid and may close the period (record).
LEMMA PaidRow ==
    ASSUME NEW a, IsApplication(a), NEW amount \in Receipts
    PROVE  LET b == Paid(a, amount)
           IN  /\ IsApplication(b)
               /\ b.status \in {a.status, "paid"} /\ b.voidNoted = a.voidNoted
               /\ b.start = a.start /\ b.end = a.end
               /\ b.columns = a.columns /\ b.sheet = a.sheet /\ b.box = a.box
               /\ b.snapshot = a.snapshot /\ b.certificate = a.certificate
<1> DEFINE status == IF ClosesPeriod(a, amount) THEN "paid" ELSE a.status
<1>1. Paid(a, amount) = [a EXCEPT !.paid = a.paid + amount,
                                  !.receipts = a.receipts + 1,
                                  !.status = status]
  BY DEF Paid, IsApplication
<1>2. status \in {a.status, "paid"} /\ status \in Statuses
  BY DEF IsApplication, Statuses
<1>3. a.paid + amount \in Int /\ a.receipts + 1 \in Nat
  BY AmountsAreIntegers DEF IsApplication
<1> HIDE DEF status
<1> QED BY <1>1, <1>2, <1>3 DEF IsApplication

\* Voiding writes the status only (void).
LEMMA VoidedRow ==
    ASSUME NEW a, IsApplication(a)
    PROVE  LET b == Voided(a)
           IN  /\ IsApplication(b)
               /\ b.status = "void" /\ b.voidNoted
               /\ b.start = a.start /\ b.end = a.end
               /\ b.columns = a.columns /\ b.sheet = a.sheet /\ b.box = a.box
               /\ b.snapshot = a.snapshot /\ b.certificate = a.certificate
  BY DEF Voided, IsApplication, Statuses

-----------------------------------------------------------------------------
(* What a new period is given                                               *)

\* There is a newest one among the issued applications before a number.
LEMMA PreviousIssued ==
    ASSUME TypeOK, NEW n \in Nat, IssuedBefore(n) # {}
    PROVE  /\ Largest(IssuedBefore(n)) \in IssuedBefore(n)
           /\ \A m \in IssuedBefore(n) : m <= Largest(IssuedBefore(n))
<1>1. Len(apps) \in Nat /\ DOMAIN apps = 1..Len(apps)
  BY RowSequence DEF TypeOK, IsRowSequence
<1>2. IssuedBefore(n) \subseteq 1..Len(apps)
  BY <1>1 DEF IssuedBefore
<1> QED BY <1>1, <1>2, LargestExists

\* What a new period carries in column D is an amount.
LEMMA CarriedIsInteger ==
    ASSUME TypeOK, NEW n \in Nat, NEW i
    PROVE  Carried(n, i) \in Int
<1>1. CASE IssuedBefore(n) = {}
  BY <1>1 DEF Carried
<1>2. CASE IssuedBefore(n) # {}
  <2> DEFINE p == apps[Largest(IssuedBefore(n))]
  <2>1. IsApplication(p)
    BY <1>2, PreviousIssued DEF IssuedBefore, TypeOK
  <2>2. CASE i \in DOMAIN p.columns
    <3>1. p.columns[i] \in Entries
      BY <2>1, <2>2 DEF IsApplication
    <3>2. Carried(n, i) = p.columns[i].d + p.columns[i].e
      BY <1>2, <2>2 DEF Carried, CarryForward
    <3> HIDE DEF p
    <3> QED BY <3>1, <3>2 DEF Entries
  <2>3. CASE i \notin DOMAIN p.columns
    BY <1>2, <2>3 DEF Carried
  <2> QED BY <2>2, <2>3
<1> QED BY <1>1, <1>2

\* A new period is a draft with column D carried (open_period).
LEMMA NewRow ==
    ASSUME TypeOK, NEW n \in Nat, NEW start \in Days, NEW end \in Days, start <= end,
           NEW b, b = NewApplication(n, start, end)
    PROVE  /\ IsApplication(b)
           /\ b.status = "draft" /\ ~b.voidNoted
           /\ b.start = start /\ b.end = end
           /\ b.snapshot = <<>> /\ b.certificate = <<>>
           /\ \A i \in DOMAIN b.columns : b.columns[i].d = Carried(n, i)
<1> DEFINE columns == [i \in DOMAIN schedule.value |->
                         [c |-> schedule.value[i], d |-> Carried(n, i),
                          e |-> 0, f |-> 0, rate |-> NoRate]]
           blank == [status |-> "draft", start |-> start, end |-> end,
                     columns |-> columns, sheet |-> NoSheet,
                     box |-> [before |-> 0, during |-> 0],
                     snapshot |-> <<>>, certificate |-> <<>>,
                     paid |-> 0, receipts |-> 0, voidNoted |-> FALSE]
<1>1. columns \in [DOMAIN columns -> Entries] /\ DOMAIN columns \subseteq AllItems
  BY CarriedIsInteger DEF Entries, TypeOK, NoRate
<1>2. IsApplication(blank)
  <2> HIDE DEF columns
  <2> QED BY <1>1 DEF IsApplication, Statuses
<1>3. NewApplication(n, start, end) = Recomputed(n, blank, columns)
  BY DEF NewApplication
<1>4. \A i \in DOMAIN columns : columns[i].d = Carried(n, i)
  OBVIOUS
<1>5. /\ blank.status = "draft" /\ blank.voidNoted = FALSE
      /\ blank.start = start /\ blank.end = end
      /\ blank.snapshot = <<>> /\ blank.certificate = <<>>
  OBVIOUS
<1> HIDE DEF columns, blank
<1>6. LET r == Recomputed(n, blank, columns)
      IN  /\ IsApplication(r) /\ r.columns = columns
          /\ r.status = blank.status /\ r.voidNoted = blank.voidNoted
          /\ r.start = blank.start /\ r.end = blank.end
          /\ r.snapshot = blank.snapshot /\ r.certificate = blank.certificate
  BY <1>1, <1>2, RecomputedRow
<1> QED BY <1>3, <1>4, <1>5, <1>6

-----------------------------------------------------------------------------
(* What a step can do to the applications                                   *)

\* The tie-out of a row's own figures.
Ties(a) == HeaderTies(a) /\ SheetTies(a) /\ LinesTie(a)

\* It reads nothing but the columns, the sheet and the change-order box.
LEMMA TiesOfTheSameFigures ==
    ASSUME NEW a, NEW b, b.columns = a.columns, b.sheet = a.sheet, b.box = a.box, Ties(a)
    PROVE  Ties(b)
  BY DEF Ties, HeaderTies, SheetTies, LinesTie

\* What row n may become, b, from what it is, a, in one step.
RowStep(n, a, b) ==
    /\ IsApplication(b)
    /\ b.start = a.start /\ b.end = a.end
    /\ DOMAIN b.columns = DOMAIN a.columns
    /\ \A i \in DOMAIN a.columns : /\ b.columns[i].c = a.columns[i].c
                                   /\ b.columns[i].d = a.columns[i].d
    /\ a.voidNoted => b.voidNoted
    /\ b.status = "void" => b.voidNoted
    /\ IsEditable(b) => IsEditable(a)
    /\ ~IsEditable(a) => /\ b.columns = a.columns /\ b.sheet = a.sheet /\ b.box = a.box
                         /\ b.snapshot = a.snapshot
    /\ IsIssued(b) => \/ IsIssued(a) \/ a.status = "void"
                      \/ b.snapshot = <<Fingerprint(b)>> /\ Ties(b)
    /\ \/ b.certificate = a.certificate
       \/ a.status = "submitted" /\ b.status = "certified"
    /\ b.status = "submitted" => a.status \in {"draft", "submitted"}
    /\ IsEditable(a) /\ IsIssued(b) => b.sheet.line7 = PreviousCertificates(n)

\* Entering work, submitting, certifying, paying and voiding are steps of one
\* row: first, entering.
LEMMA EnteredIsRowStep ==
    ASSUME NEW n, NEW a, IsApplication(a), IsEditable(a),
           NEW e \in [DOMAIN a.columns -> Work], NEW f \in [DOMAIN a.columns -> Stored]
    PROVE  RowStep(n, a, Recomputed(n, a, WithEntries(a.columns, e, f)))
<1>1. PICK columns : columns = WithEntries(a.columns, e, f)
  OBVIOUS
<1>2. PICK b : b = Recomputed(n, a, columns)
  OBVIOUS
<1>3. a.columns \in [DOMAIN a.columns -> Entries] /\ DOMAIN a.columns \subseteq AllItems
  BY DEF IsApplication
<1>4. /\ DOMAIN columns = DOMAIN a.columns
      /\ columns \in [DOMAIN columns -> Entries]
      /\ \A i \in DOMAIN a.columns : /\ columns[i].c = a.columns[i].c
                                     /\ columns[i].d = a.columns[i].d
  BY <1>1, <1>3, EnteredColumns
<1>5. DOMAIN columns \subseteq AllItems
  BY <1>3, <1>4
<1>6. /\ IsApplication(b)
      /\ b.status = a.status /\ b.voidNoted = a.voidNoted
      /\ b.start = a.start /\ b.end = a.end
      /\ b.certificate = a.certificate
      /\ b.columns = columns
      /\ b.sheet = Compute(contract.rule, columns, contract.sum, NetOrders,
                           PreviousCertificates(n))
  <2>1. columns \in [DOMAIN columns -> Entries]
    BY <1>4
  <2> QED BY <1>2, <1>5, <2>1 DEF Recomputed, IsApplication
<1>7. IsEditable(b) /\ ~IsIssued(b) /\ b.status = "draft"
  BY <1>6 DEF IsEditable, IsIssued
<1>8. /\ a.voidNoted => b.voidNoted
      /\ b.status = "void" => b.voidNoted
  BY <1>6, <1>7, Zenon
<1>9. RowStep(n, a, b)
  BY <1>4, <1>6, <1>7, <1>8 DEF RowStep
<1> QED BY <1>1, <1>2, <1>9

\* Submitting, past the tie-out gate.
LEMMA SubmittedIsRowStep ==
    ASSUME NEW n, NEW a, IsApplication(a), IsEditable(a), Ties(a),
           a.sheet.line7 = PreviousCertificates(n)
    PROVE  RowStep(n, a, Submitted(a))
<1>1. PICK b : b = Submitted(a)
  OBVIOUS
<1>2. /\ IsApplication(b)
      /\ b.status = "submitted" /\ b.voidNoted = a.voidNoted
      /\ b.start = a.start /\ b.end = a.end
      /\ b.columns = a.columns /\ b.sheet = a.sheet /\ b.box = a.box
      /\ b.certificate = a.certificate
      /\ b.snapshot = <<Fingerprint(a)>>
  BY <1>1, SubmittedRow
<1>3. Fingerprint(b) = Fingerprint(a)
  BY <1>2 DEF Fingerprint
<1>4. Ties(b)
  BY <1>2, TiesOfTheSameFigures
<1>5. /\ a.voidNoted => b.voidNoted
      /\ b.status = "void" => b.voidNoted
  <2>1. b.status # "void"
    BY <1>2
  <2> QED BY <1>2, <2>1, Zenon
<1>6. RowStep(n, a, b)
  BY <1>2, <1>3, <1>5, <1>4 DEF RowStep, IsEditable, IsIssued
<1> QED BY <1>1, <1>6

\* Certifying what was submitted.
LEMMA CertifiedIsRowStep ==
    ASSUME NEW n, NEW a, IsApplication(a), a.status = "submitted", NEW amount
    PROVE  RowStep(n, a, Certified(a, amount))
<1>1. PICK b : b = Certified(a, amount)
  OBVIOUS
<1>2. /\ IsApplication(b)
      /\ b.status = "certified" /\ b.voidNoted = a.voidNoted
      /\ b.start = a.start /\ b.end = a.end
      /\ b.columns = a.columns /\ b.sheet = a.sheet /\ b.box = a.box
      /\ b.snapshot = a.snapshot
  BY <1>1, CertifiedRow
<1>3. /\ a.voidNoted => b.voidNoted
      /\ b.status = "void" => b.voidNoted
  <2>1. b.status # "void"
    BY <1>2
  <2> QED BY <1>2, <2>1, Zenon
<1>4. RowStep(n, a, b)
  BY <1>2, <1>3 DEF RowStep, IsEditable, IsIssued
<1> QED BY <1>1, <1>4

\* Paying what was issued, or what was voided.
LEMMA PaidIsRowStep ==
    ASSUME NEW n, NEW a, IsApplication(a), ~IsEditable(a),
           a.status = "void" => a.voidNoted, NEW amount \in Receipts
    PROVE  RowStep(n, a, Paid(a, amount))
<1>1. PICK b : b = Paid(a, amount)
  OBVIOUS
<1>2. /\ IsApplication(b)
      /\ b.status \in {a.status, "paid"} /\ b.voidNoted = a.voidNoted
      /\ b.start = a.start /\ b.end = a.end
      /\ b.columns = a.columns /\ b.sheet = a.sheet /\ b.box = a.box
      /\ b.snapshot = a.snapshot /\ b.certificate = a.certificate
  BY <1>1, PaidRow
<1>3. a.status \in {"submitted", "certified", "paid", "void"}
  BY DEF IsApplication, Statuses, IsEditable
<1>4. /\ a.voidNoted => b.voidNoted
      /\ b.status = "void" => b.voidNoted
  <2>1. b.status = "void" => a.status = "void"
    BY <1>2
  <2> QED BY <1>2, <2>1, Zenon
<1>5. RowStep(n, a, b)
  BY <1>2, <1>3, <1>4 DEF RowStep, IsEditable, IsIssued
<1> QED BY <1>1, <1>5

\* Voiding, whatever the status was.
LEMMA VoidedIsRowStep ==
    ASSUME NEW n, NEW a, IsApplication(a)
    PROVE  RowStep(n, a, Voided(a))
<1>1. PICK b : b = Voided(a)
  OBVIOUS
<1>2. /\ IsApplication(b)
      /\ b.status = "void" /\ b.voidNoted
      /\ b.start = a.start /\ b.end = a.end
      /\ b.columns = a.columns /\ b.sheet = a.sheet /\ b.box = a.box
      /\ b.snapshot = a.snapshot /\ b.certificate = a.certificate
  BY <1>1, VoidedRow
<1>3. /\ a.voidNoted => b.voidNoted
      /\ b.status = "void" => b.voidNoted
  BY <1>2, Zenon
<1>4. RowStep(n, a, b)
  BY <1>2, <1>3 DEF RowStep, IsEditable, IsIssued
<1> QED BY <1>1, <1>4

\* A voided status is always noted; Pay keeps the note when it revives the row.
VoidIsNoted == \A n \in DOMAIN apps : apps[n].status = "void" => apps[n].voidNoted

\* An open or submitted application has no certificate.
CertificateFollowsSubmission ==
    \A n \in DOMAIN apps : apps[n].status \in {"draft", "submitted"} => apps[n].certificate = <<>>

OpensPeriod(start, end) ==
    /\ start <= end
    /\ ~ \E n \in DOMAIN apps : IsEditable(apps[n])
    /\ Live # {} => start > apps[Largest(Live)].end
    /\ apps' = Append(apps, NewApplication(Len(apps) + 1, start, end))

\* Every step leaves the rows alone, opens a period, or rewrites one row.
LEMMA StepShapes ==
    ASSUME TypeOK, VoidIsNoted, [Next]_vars
    PROVE  \/ apps' = apps
           \/ \E start, end \in Days : OpensPeriod(start, end)
           \/ \E n \in DOMAIN apps :
                 \E b : apps' = [apps EXCEPT ![n] = b] /\ RowStep(n, apps[n], b)
<1>1. CASE UNCHANGED vars
  BY <1>1 DEF vars
<1>2. CASE Terms
  BY <1>2 DEF Terms, EditContract, ReviseSchedule, ApproveSchedule, ApproveChangeOrder
<1>3. ASSUME NEW start \in Days, NEW end \in Days, OpenPeriod(start, end)
      PROVE  OpensPeriod(start, end)
  BY <1>3 DEF OpenPeriod, OpensPeriod
<1>4. ASSUME NEW n \in DOMAIN apps,
             NEW e \in [DOMAIN apps[n].columns -> Work],
             NEW f \in [DOMAIN apps[n].columns -> Stored], Enter(n, e, f)
      PROVE  \E b : apps' = [apps EXCEPT ![n] = b] /\ RowStep(n, apps[n], b)
  BY <1>4, EnteredIsRowStep DEF Enter, TypeOK
<1>5. ASSUME NEW n \in DOMAIN apps, Submit(n)
      PROVE  \E b : apps' = [apps EXCEPT ![n] = b] /\ RowStep(n, apps[n], b)
  BY <1>5, SubmittedIsRowStep DEF Submit, Tieout, AgreesWithLiveData, Ties, TypeOK
<1>6. ASSUME NEW n \in DOMAIN apps, NEW amount, Certify(n, amount)
      PROVE  \E b : apps' = [apps EXCEPT ![n] = b] /\ RowStep(n, apps[n], b)
  BY <1>6, CertifiedIsRowStep DEF Certify, TypeOK
<1>7. ASSUME NEW n \in DOMAIN apps, NEW amount \in Receipts, Pay(n, amount)
      PROVE  \E b : apps' = [apps EXCEPT ![n] = b] /\ RowStep(n, apps[n], b)
  BY <1>7, PaidIsRowStep DEF Pay, TypeOK, VoidIsNoted
<1>8. ASSUME NEW n \in DOMAIN apps, Void(n)
      PROVE  \E b : apps' = [apps EXCEPT ![n] = b] /\ RowStep(n, apps[n], b)
  BY <1>8, VoidedIsRowStep DEF Void, TypeOK
<1> QED BY <1>1, <1>2, <1>3, <1>4, <1>5, <1>6, <1>7, <1>8 DEF Next, Billing

\* Opening a period adds its row behind the others.
LEMMA OpenedRows ==
    ASSUME TypeOK, NEW start \in Days, NEW end \in Days, OpensPeriod(start, end)
    PROVE  LET N == Len(apps)
           IN  /\ N \in Nat /\ DOMAIN apps = 1..N
               /\ IsRowSequence(apps')
               /\ Len(apps') = N + 1 /\ DOMAIN apps' = 1..(N + 1)
               /\ DOMAIN apps' = DOMAIN apps \cup {N + 1}
               /\ apps'[N + 1] = NewApplication(N + 1, start, end)
               /\ \A m \in DOMAIN apps : apps'[m] = apps[m]
<1>1. /\ Len(apps) \in Nat /\ DOMAIN apps = 1..Len(apps)
      /\ IsRowSequence(apps')
      /\ Len(apps') = Len(apps) + 1 /\ DOMAIN apps' = 1..(Len(apps) + 1)
      /\ apps'[Len(apps) + 1] = NewApplication(Len(apps) + 1, start, end)
      /\ \A m \in DOMAIN apps : apps'[m] = apps[m]
  BY AppendedRow DEF OpensPeriod, TypeOK
<1>2. \A N \in Nat : 1..(N + 1) = 1..N \cup {N + 1}
  OBVIOUS
<1> QED BY <1>1, <1>2

\* A step of one row leaves the others alone.
LEMMA RewrittenRows ==
    ASSUME TypeOK, NEW n \in DOMAIN apps, NEW b, apps' = [apps EXCEPT ![n] = b]
    PROVE  /\ Len(apps) \in Nat /\ DOMAIN apps = 1..Len(apps)
           /\ IsRowSequence(apps')
           /\ Len(apps') = Len(apps) /\ DOMAIN apps' = DOMAIN apps
           /\ apps'[n] = b
           /\ \A m \in DOMAIN apps : m # n => apps'[m] = apps[m]
<1>1. Len(apps) \in Nat /\ DOMAIN apps = 1..Len(apps)
  BY RowSequence DEF TypeOK, IsRowSequence
<1>2. LET u == [apps EXCEPT ![n] = b]
      IN  /\ IsRowSequence(u)
          /\ DOMAIN u = DOMAIN apps /\ Len(u) = Len(apps)
          /\ u[n] = b
          /\ \A m \in DOMAIN apps : m # n => u[m] = apps[m]
  <2>1. IsRowSequence(apps)
    BY DEF TypeOK
  <2> QED BY <2>1, ReplacedRow
<1> QED BY <1>1, <1>2

-----------------------------------------------------------------------------
(* The inductive invariant, one conjunct at a time                          *)

\* A contract without applications.
LEMMA InitHolds ==
    ASSUME Init
    PROVE  /\ TypeOK /\ VoidIsNoted /\ CertificateFollowsSubmission
           /\ OnlyNewestIsOpen /\ PeriodsNeverOverlap
           /\ ColumnDCarriesForward /\ IssuedMatchesSnapshot
           /\ IssuedTiesOut
<1>1. apps = <<>> /\ DOMAIN apps = {} /\ orders = <<>> /\ DOMAIN orders = {}
  BY DEF Init
<1>2. IsRowSequence(apps)
  BY <1>1 DEF IsRowSequence
<1>3. PICK rule \in Rules : contract = [sum |-> SumOver(InitialValues), rule |-> rule]
  BY DEF Init
<1>4. /\ schedule = [approved |-> TRUE, value |-> InitialValues]
      /\ DOMAIN InitialValues = Items
  BY AmountsAreIntegers DEF Init
<1>5. TypeOK
  BY <1>1, <1>2, <1>3, <1>4, AmountsAreIntegers DEF TypeOK, AllItems
<1> QED BY <1>1, <1>5 DEF VoidIsNoted, CertificateFollowsSubmission, OnlyNewestIsOpen,
         PeriodsNeverOverlap, ColumnDCarriesForward,
         IssuedMatchesSnapshot, IssuedTiesOut

\* Every row is an application after a step.
LEMMA RowsStayTyped ==
    ASSUME TypeOK, VoidIsNoted, [Next]_vars
    PROVE  IsRowSequence(apps') /\ \A n \in DOMAIN apps' : IsApplication(apps'[n])
<1>1. CASE apps' = apps
  BY <1>1 DEF TypeOK
<1>2. ASSUME NEW start \in Days, NEW end \in Days, OpensPeriod(start, end)
      PROVE  IsRowSequence(apps') /\ \A n \in DOMAIN apps' : IsApplication(apps'[n])
  <2>1. IsApplication(NewApplication(Len(apps) + 1, start, end))
    <3>1. start <= end /\ Len(apps) + 1 \in Nat
      BY <1>2, OpenedRows DEF OpensPeriod
    <3> QED BY <3>1, NewRow
  <2>2. \A n \in DOMAIN apps : IsApplication(apps[n])
    BY DEF TypeOK
  <2> QED BY <1>2, <2>1, <2>2, OpenedRows
<1>3. ASSUME NEW n \in DOMAIN apps, NEW b, apps' = [apps EXCEPT ![n] = b],
             RowStep(n, apps[n], b)
      PROVE  IsRowSequence(apps') /\ \A m \in DOMAIN apps' : IsApplication(apps'[m])
  BY <1>3, RewrittenRows DEF RowStep, TypeOK
<1> QED BY <1>1, <1>2, <1>3, StepShapes

\* Adding an entry to a dictionary.
LEMMA AddedEntry ==
    ASSUME NEW item, NEW entry, NEW f, NEW S, entry \in S, f \in [DOMAIN f -> S]
    PROVE  LET g == Extended(f, item, entry)
           IN  DOMAIN g = {item} \cup DOMAIN f /\ g \in [DOMAIN g -> S]
  BY DEF Extended

\* Schedule, orders and contract keep their types.
LEMMA TermsStayTyped ==
    ASSUME TypeOK, [Next]_vars
    PROVE  /\ schedule' \in [approved: BOOLEAN, value: {schedule'.value}]
           /\ DOMAIN schedule'.value \subseteq AllItems
           /\ schedule'.value \in [DOMAIN schedule'.value -> Int]
           /\ DOMAIN orders' \subseteq OrderItems
           /\ contract'.rule \in Rules
<1>1. CASE UNCHANGED <<schedule, orders, contract>>
  BY <1>1 DEF TypeOK
<1>2. ASSUME NEW sum \in ContractSums, NEW rule \in Rules, EditContract(sum, rule)
      PROVE  contract'.rule \in Rules /\ UNCHANGED <<schedule, orders>>
  BY <1>2 DEF EditContract
<1>3. ASSUME ReviseSchedule
      PROVE  /\ schedule' \in [approved: BOOLEAN, value: {schedule'.value}]
             /\ schedule'.value = schedule.value /\ UNCHANGED <<orders, contract>>
  BY <1>3 DEF ReviseSchedule, TypeOK
<1>4. ASSUME NEW S \in SUBSET AllItems, NEW value \in [S -> ScheduledValues],
             ApproveSchedule(value)
      PROVE  /\ schedule' \in [approved: BOOLEAN, value: {schedule'.value}]
             /\ DOMAIN schedule'.value \subseteq AllItems
             /\ schedule'.value \in [DOMAIN schedule'.value -> Int]
             /\ UNCHANGED <<orders, contract>>
  BY <1>4, AmountsAreIntegers DEF ApproveSchedule
<1>5. ASSUME NEW item \in OrderItems, NEW amount \in OrderAmounts, NEW date \in OrderDays,
             ApproveChangeOrder(item, amount, date)
      PROVE  /\ schedule' \in [approved: BOOLEAN, value: {schedule'.value}]
             /\ DOMAIN schedule'.value \subseteq AllItems
             /\ schedule'.value \in [DOMAIN schedule'.value -> Int]
             /\ DOMAIN orders' \subseteq OrderItems
             /\ UNCHANGED contract
  <2> DEFINE value == Extended(schedule.value, item, amount)
  <2>1. schedule' = [schedule EXCEPT !.value = value]
    BY <1>5 DEF ApproveChangeOrder
  <2>2. schedule' \in [approved: BOOLEAN, value: {value}] /\ schedule'.value = value
    <3> HIDE DEF value
    <3> QED BY <2>1 DEF TypeOK
  <2>3. amount \in Int /\ schedule.value \in [DOMAIN schedule.value -> Int]
    BY AmountsAreIntegers DEF TypeOK
  <2>4. /\ DOMAIN value = {item} \cup DOMAIN schedule.value
        /\ value \in [DOMAIN value -> Int]
    BY <2>3, AddedEntry
  <2>5. DOMAIN orders' = {item} \cup DOMAIN orders
    BY <1>5 DEF ApproveChangeOrder, Extended
  <2>6. DOMAIN orders' \subseteq OrderItems /\ UNCHANGED contract
    BY <1>5, <2>5 DEF ApproveChangeOrder, TypeOK
  <2> HIDE DEF value
  <2> QED BY <2>2, <2>4, <2>6 DEF TypeOK, AllItems
<1>6. CASE Billing
  BY <1>1, <1>6 DEF Billing, OpenPeriod, Enter, Submit, Certify, Pay, Void
<1>7. CASE Terms
  BY <1>2, <1>3, <1>4, <1>5, <1>7 DEF Terms, TypeOK
<1> QED BY <1>1, <1>6, <1>7 DEF Next, vars

\* Every step keeps the types.
LEMMA TypeStep ==
    ASSUME TypeOK, VoidIsNoted, [Next]_vars
    PROVE  TypeOK'
  BY RowsStayTyped, TermsStayTyped DEF TypeOK

\* What a new row has, as a row of the next state.
LEMMA OpenedRow ==
    ASSUME TypeOK, NEW start \in Days, NEW end \in Days, OpensPeriod(start, end),
           NEW k, k = Len(apps) + 1
    PROVE  /\ apps'[k].status = "draft" /\ ~apps'[k].voidNoted
           /\ apps'[k].start = start /\ apps'[k].end = end
           /\ apps'[k].snapshot = <<>> /\ apps'[k].certificate = <<>>
           /\ \A i \in DOMAIN apps'[k].columns : apps'[k].columns[i].d = Carried(k, i)
<1>2. k \in Nat /\ apps'[k] = NewApplication(k, start, end)
  BY OpenedRows
<1>3. start <= end
  BY DEF OpensPeriod
<1>4. PICK b : b = NewApplication(k, start, end)
  OBVIOUS
<1>5. /\ b.status = "draft" /\ ~b.voidNoted
      /\ b.start = start /\ b.end = end
      /\ b.snapshot = <<>> /\ b.certificate = <<>>
      /\ \A i \in DOMAIN b.columns : b.columns[i].d = Carried(k, i)
  BY <1>2, <1>3, <1>4, NewRow
<1> QED BY <1>2, <1>4, <1>5

\* Every step keeps the history of voids.
LEMMA VoidIsNotedStep ==
    ASSUME TypeOK, VoidIsNoted, [Next]_vars
    PROVE  VoidIsNoted'
<1>1. CASE apps' = apps
  BY <1>1 DEF VoidIsNoted
<1>2. ASSUME NEW start \in Days, NEW end \in Days, OpensPeriod(start, end)
      PROVE  VoidIsNoted'
  <2>1. DOMAIN apps' = DOMAIN apps \cup {Len(apps) + 1}
    BY <1>2, OpenedRows
  <2>2. /\ \A m \in DOMAIN apps : apps'[m] = apps[m]
        /\ apps'[Len(apps) + 1].status = "draft"
        /\ apps'[Len(apps) + 1].certificate = <<>>
    BY <1>2, OpenedRows, OpenedRow
  <2> QED BY <2>1, <2>2 DEF VoidIsNoted
<1>3. ASSUME NEW n \in DOMAIN apps, NEW b, apps' = [apps EXCEPT ![n] = b],
             RowStep(n, apps[n], b)
      PROVE  VoidIsNoted'
  BY <1>3, RewrittenRows DEF VoidIsNoted, RowStep
<1> QED BY <1>1, <1>2, <1>3, StepShapes

\* Every step keeps certificates behind a submission.
LEMMA CertificateStep ==
    ASSUME TypeOK, VoidIsNoted, CertificateFollowsSubmission, [Next]_vars
    PROVE  CertificateFollowsSubmission'
<1>1. CASE apps' = apps
  BY <1>1 DEF CertificateFollowsSubmission
<1>2. ASSUME NEW start \in Days, NEW end \in Days, OpensPeriod(start, end)
      PROVE  CertificateFollowsSubmission'
  <2>1. DOMAIN apps' = DOMAIN apps \cup {Len(apps) + 1}
    BY <1>2, OpenedRows
  <2>2. /\ \A m \in DOMAIN apps : apps'[m] = apps[m]
        /\ apps'[Len(apps) + 1].status = "draft"
        /\ apps'[Len(apps) + 1].certificate = <<>>
    BY <1>2, OpenedRows, OpenedRow
  <2> QED BY <2>1, <2>2 DEF CertificateFollowsSubmission
<1>3. ASSUME NEW n \in DOMAIN apps, NEW b, apps' = [apps EXCEPT ![n] = b],
             RowStep(n, apps[n], b)
      PROVE  CertificateFollowsSubmission'
  <2>1. b.status \in {"draft", "submitted"} => b.certificate = <<>>
    BY <1>3 DEF CertificateFollowsSubmission, RowStep, IsEditable
  <2> QED BY <1>3, <2>1, RewrittenRows DEF CertificateFollowsSubmission
<1> QED BY <1>1, <1>2, <1>3, StepShapes

\* Every step leaves only the newest period open.
LEMMA OnlyNewestStep ==
    ASSUME TypeOK, VoidIsNoted, OnlyNewestIsOpen, [Next]_vars
    PROVE  OnlyNewestIsOpen'
<1>1. CASE apps' = apps
  BY <1>1 DEF OnlyNewestIsOpen
<1>2. ASSUME NEW start \in Days, NEW end \in Days, OpensPeriod(start, end)
      PROVE  OnlyNewestIsOpen'
  BY <1>2, OpenedRows DEF OnlyNewestIsOpen, OpensPeriod
<1>3. ASSUME NEW n \in DOMAIN apps, NEW b, apps' = [apps EXCEPT ![n] = b],
             RowStep(n, apps[n], b)
      PROVE  OnlyNewestIsOpen'
  BY <1>3, RewrittenRows DEF OnlyNewestIsOpen, RowStep
<1> QED BY <1>1, <1>2, <1>3, StepShapes

\* Every step keeps the periods apart.
LEMMA PeriodsStep ==
    ASSUME TypeOK, VoidIsNoted, PeriodsNeverOverlap, [Next]_vars
    PROVE  PeriodsNeverOverlap'
<1>1. CASE apps' = apps
  BY <1>1 DEF PeriodsNeverOverlap, NeverVoided
<1>2. ASSUME NEW start \in Days, NEW end \in Days, OpensPeriod(start, end)
      PROVE  PeriodsNeverOverlap'
  <2>1. Len(apps) \in Nat /\ DOMAIN apps = 1..Len(apps)
    BY <1>2, OpenedRows
  <2>2. \A m \in DOMAIN apps : NeverVoided(m) => apps[m].end < start
    <3> SUFFICES ASSUME NEW m \in DOMAIN apps, NeverVoided(m)
                 PROVE  apps[m].end < start
      OBVIOUS
    <3> DEFINE L == Largest(Live)
    <3>1. m \in Live
      BY DEF NeverVoided, VoidIsNoted, Live
    <3>2. Live \subseteq 1..Len(apps)
      BY <2>1 DEF Live
    <3>3. L \in Live /\ m <= L
      <4>1. /\ Largest(Live) \in Live
            /\ \A k \in Live : k <= Largest(Live)
        BY <2>1, <3>1, <3>2, LargestExists
      <4> QED BY <3>1, <4>1
    <3>4. start > apps[L].end
      BY <1>2, <3>1 DEF OpensPeriod
    <3>5. /\ IsApplication(apps[m]) /\ IsApplication(apps[L])
          /\ L \in DOMAIN apps
      BY <3>3 DEF Live, TypeOK
    <3> HIDE DEF L
    <3>6. /\ apps[m].end \in Int
          /\ apps[L].start \in Int /\ apps[L].end \in Int
          /\ apps[L].start <= apps[L].end
      BY <3>5, AmountsAreIntegers DEF IsApplication
    <3>7. m # L => apps[m].end < apps[L].start
      BY <2>1, <3>3, <3>5 DEF PeriodsNeverOverlap
    <3>8. start \in Int
      BY AmountsAreIntegers
    <3> QED BY <3>4, <3>6, <3>7, <3>8
  <2>3. /\ DOMAIN apps' = 1..(Len(apps) + 1)
        /\ apps'[Len(apps) + 1].start = start
        /\ \A m \in DOMAIN apps : apps'[m] = apps[m]
    BY <1>2, OpenedRows, OpenedRow
  <2> QED BY <2>1, <2>2, <2>3 DEF PeriodsNeverOverlap, NeverVoided
<1>3. ASSUME NEW n \in DOMAIN apps, NEW b, apps' = [apps EXCEPT ![n] = b],
             RowStep(n, apps[n], b)
      PROVE  PeriodsNeverOverlap'
  <2>1. \A m \in DOMAIN apps : /\ apps'[m].start = apps[m].start
                               /\ apps'[m].end = apps[m].end
                               /\ apps[m].voidNoted => apps'[m].voidNoted
    BY <1>3, RewrittenRows DEF RowStep
  <2> QED BY <1>3, <2>1, RewrittenRows DEF PeriodsNeverOverlap, NeverVoided
<1> QED BY <1>1, <1>2, <1>3, StepShapes

\* Behind a closed, never voided application the next one finds exactly it.
LEMMA NewestIsPrevious ==
    ASSUME TypeOK, VoidIsNoted, NEW k \in DOMAIN apps,
           ~IsEditable(apps[k]), NeverVoided(k)
    PROVE  IssuedBefore(k + 1) # {} /\ Largest(IssuedBefore(k + 1)) = k
<1>1. DOMAIN apps = 1..Len(apps) /\ Len(apps) \in Nat
  BY RowSequence DEF TypeOK, IsRowSequence
<1>2. k + 1 \in Nat
  BY <1>1
<1>3. IsIssued(apps[k])
  BY DEF TypeOK, IsApplication, Statuses, VoidIsNoted, NeverVoided, IsEditable, IsIssued
<1>4. k \in IssuedBefore(k + 1)
  BY <1>1, <1>3 DEF IssuedBefore
<1>5. /\ Largest(IssuedBefore(k + 1)) \in IssuedBefore(k + 1)
      /\ k <= Largest(IssuedBefore(k + 1))
  BY <1>2, <1>4, PreviousIssued
<1>6. \A m \in IssuedBefore(k + 1) : m \in Nat /\ m <= k
  BY <1>1 DEF IssuedBefore
<1>7. Largest(IssuedBefore(k + 1)) \in Nat /\ Largest(IssuedBefore(k + 1)) <= k
  BY <1>5, <1>6
<1> QED BY <1>1, <1>4, <1>5, <1>7

\* A step that rewrites a row leaves every earlier row's figures alone, and the
\* certificate of a row that had one.
LEMMA EarlierRowsKeep ==
    ASSUME TypeOK, OnlyNewestIsOpen,
           NEW n \in DOMAIN apps, NEW b, apps' = [apps EXCEPT ![n] = b],
           RowStep(n, apps[n], b),
           NEW m \in DOMAIN apps, m + 1 \in DOMAIN apps
    PROVE  /\ ~IsEditable(apps[m])
           /\ apps'[m].columns = apps[m].columns /\ apps'[m].sheet = apps[m].sheet
           /\ \/ apps'[m].certificate = apps[m].certificate
              \/ apps[m].status = "submitted"
           /\ ~apps'[m].voidNoted => ~apps[m].voidNoted
<1>1. m # Len(apps)
  BY RewrittenRows
<1>2. ~IsEditable(apps[m])
  BY <1>1 DEF OnlyNewestIsOpen
<1>3. CASE m = n
  BY <1>2, <1>3, RewrittenRows DEF RowStep
<1>4. CASE m # n
  BY <1>2, <1>4, RewrittenRows
<1> QED BY <1>3, <1>4

\* Every step keeps column D carried.
LEMMA ColumnDStep ==
    ASSUME TypeOK, VoidIsNoted, OnlyNewestIsOpen, ColumnDCarriesForward, [Next]_vars
    PROVE  ColumnDCarriesForward'
<1> DEFINE Follows(rows, k) ==
               ~rows[k].voidNoted =>
                   \A i \in DOMAIN rows[k + 1].columns \cap DOMAIN rows[k].columns :
                       rows[k + 1].columns[i].d = CarryForward(rows[k].columns, i)
<1>1. Len(apps) \in Nat /\ DOMAIN apps = 1..Len(apps)
  BY RowSequence DEF TypeOK, IsRowSequence
<1>2. \A k \in DOMAIN apps : k + 1 \in DOMAIN apps => Follows(apps, k)
  <2> SUFFICES ASSUME NEW k \in DOMAIN apps, k + 1 \in DOMAIN apps
               PROVE  Follows(apps, k)
    OBVIOUS
  <2>1. k + 1 > 1 /\ (k + 1) - 1 = k
    BY <1>1
  <2> QED BY <2>1 DEF ColumnDCarriesForward, NeverVoided, CarryForward
<1>3. CASE apps' = apps
  BY <1>3 DEF ColumnDCarriesForward, NeverVoided
<1>4. ASSUME NEW start \in Days, NEW end \in Days, OpensPeriod(start, end),
             NEW k \in DOMAIN apps', k + 1 \in DOMAIN apps', ~apps'[k].voidNoted
      PROVE  Follows(apps', k)
  <2>1. /\ k \in DOMAIN apps /\ apps'[k] = apps[k]
        /\ k + 1 \in DOMAIN apps => apps'[k + 1] = apps[k + 1]
        /\ k + 1 \notin DOMAIN apps => k + 1 = Len(apps) + 1
    BY <1>1, <1>4, OpenedRows
  <2>2. CASE k + 1 \in DOMAIN apps
    BY <1>2, <2>1, <2>2
  <2>3. CASE k + 1 \notin DOMAIN apps
    <3>1. ~IsEditable(apps[k]) /\ NeverVoided(k)
      BY <1>4, <2>1 DEF OpensPeriod, NeverVoided
    <3>2. IssuedBefore(k + 1) # {} /\ Largest(IssuedBefore(k + 1)) = k
      BY <2>1, <3>1, NewestIsPrevious
    <3>3. \A i \in DOMAIN apps'[k + 1].columns : apps'[k + 1].columns[i].d = Carried(k + 1, i)
      BY <1>4, <2>1, <2>3, OpenedRow
    <3> QED BY <2>1, <3>2, <3>3 DEF Carried
  <2> QED BY <2>2, <2>3
<1>5. ASSUME NEW n \in DOMAIN apps, NEW b, apps' = [apps EXCEPT ![n] = b],
             RowStep(n, apps[n], b),
             NEW k \in DOMAIN apps', k + 1 \in DOMAIN apps', ~apps'[k].voidNoted
      PROVE  Follows(apps', k)
  <2>1. /\ k \in DOMAIN apps /\ k + 1 \in DOMAIN apps
        /\ DOMAIN apps'[k + 1].columns = DOMAIN apps[k + 1].columns
        /\ \A i \in DOMAIN apps[k + 1].columns :
              apps'[k + 1].columns[i].d = apps[k + 1].columns[i].d
    BY <1>5, RewrittenRows DEF RowStep
  <2>2. apps'[k].columns = apps[k].columns /\ ~apps[k].voidNoted
    BY <1>5, <2>1, EarlierRowsKeep
  <2> QED BY <1>2, <2>1, <2>2
<1>6. CASE apps' # apps
  <2>1. DOMAIN apps' = 1..Len(apps')
    BY RowsStayTyped, RowSequence DEF IsRowSequence
  <2>2. Len(apps') \in Nat
    BY RowsStayTyped, RowSequence DEF IsRowSequence
  <2>3. \A k \in DOMAIN apps' : k + 1 \in DOMAIN apps' => Follows(apps', k)
    BY <1>4, <1>5, <1>6, StepShapes
  <2>4. SUFFICES ASSUME NEW n \in DOMAIN apps', n > 1, ~apps'[n - 1].voidNoted,
                        NEW i \in DOMAIN apps'[n].columns \cap DOMAIN apps'[n - 1].columns
                 PROVE  apps'[n].columns[i].d = CarryForward(apps'[n - 1].columns, i)
    BY DEF ColumnDCarriesForward, NeverVoided, CarryForward
  <2>5. n - 1 \in DOMAIN apps' /\ (n - 1) + 1 = n
    BY <2>1, <2>2, <2>4
  <2> QED BY <2>3, <2>4, <2>5
<1> QED BY <1>3, <1>6

\* Line 7 of the row after p, from what p says.
LineSeven(p) ==
    p.sheet.line7 + (IF HasCertificate(p) THEN p.certificate[1] ELSE p.sheet.line8)

\* The newest application that was never voided is what line 7 continues.
LEMMA PreviousContinues ==
    ASSUME TypeOK, VoidIsNoted, NEW k \in DOMAIN apps,
           ~IsEditable(apps[k]), NeverVoided(k)
    PROVE  PreviousCertificates(k + 1) = LineSeven(apps[k])
<1>1. IssuedBefore(k + 1) # {} /\ Largest(IssuedBefore(k + 1)) = k
  BY NewestIsPrevious
<1>2. PreviousCertificates(k + 1) = apps[k].sheet.line7 + CertifiedPayment(apps[k])
  BY <1>1 DEF PreviousCertificates, CertifiedOrRequested
<1> QED BY <1>2 DEF CertifiedPayment, LineSeven

\* Every step keeps issued rows at their snapshots.
LEMMA SnapshotStep ==
    ASSUME TypeOK, VoidIsNoted, IssuedMatchesSnapshot, [Next]_vars
    PROVE  IssuedMatchesSnapshot'
<1>1. CASE apps' = apps
  BY <1>1 DEF IssuedMatchesSnapshot, NeverVoided
<1>2. ASSUME NEW start \in Days, NEW end \in Days, OpensPeriod(start, end)
      PROVE  IssuedMatchesSnapshot'
  <2>1. DOMAIN apps' = DOMAIN apps \cup {Len(apps) + 1}
    BY <1>2, OpenedRows
  <2>2. /\ \A m \in DOMAIN apps : apps'[m] = apps[m]
        /\ ~IsIssued(apps'[Len(apps) + 1])
    BY <1>2, OpenedRows, OpenedRow DEF IsIssued
  <2> QED BY <2>1, <2>2 DEF IssuedMatchesSnapshot, NeverVoided
<1>3. ASSUME NEW n \in DOMAIN apps, NEW b, apps' = [apps EXCEPT ![n] = b],
             RowStep(n, apps[n], b)
      PROVE  IssuedMatchesSnapshot'
  <2>1. ASSUME IsIssued(b), ~b.voidNoted
        PROVE  b.snapshot = <<Fingerprint(b)>>
    <3>1. ~apps[n].voidNoted /\ apps[n].status # "void"
      BY <1>3, <2>1 DEF RowStep, VoidIsNoted
    <3>2. CASE IsIssued(apps[n])
      <4>1. ~IsEditable(apps[n]) /\ apps[n].snapshot = <<Fingerprint(apps[n])>>
        BY <3>1, <3>2 DEF IssuedMatchesSnapshot, NeverVoided, IsIssued, IsEditable
      <4> QED BY <1>3, <4>1 DEF RowStep, Fingerprint
    <3> QED BY <1>3, <2>1, <3>1, <3>2 DEF RowStep
  <2> QED BY <1>3, <2>1, RewrittenRows DEF IssuedMatchesSnapshot, NeverVoided
<1> QED BY <1>1, <1>2, <1>3, StepShapes

\* What a submission ties out stays as it was tied out.
LEMMA TiesStep ==
    ASSUME TypeOK, VoidIsNoted, IssuedTiesOut, [Next]_vars
    PROVE  IssuedTiesOut'
<1>0. /\ IssuedTiesOut <=>
            \A n \in DOMAIN apps : IsIssued(apps[n]) /\ ~apps[n].voidNoted => Ties(apps[n])
      /\ IssuedTiesOut' <=>
            \A n \in DOMAIN apps' : IsIssued(apps'[n]) /\ ~apps'[n].voidNoted => Ties(apps'[n])
  BY DEF IssuedTiesOut, NeverVoided, Ties
<1>1. CASE apps' = apps
  BY <1>0, <1>1
<1>2. ASSUME NEW start \in Days, NEW end \in Days, OpensPeriod(start, end)
      PROVE  IssuedTiesOut'
  <2>1. DOMAIN apps' = DOMAIN apps \cup {Len(apps) + 1}
    BY <1>2, OpenedRows
  <2>2. /\ \A m \in DOMAIN apps : apps'[m] = apps[m]
        /\ ~IsIssued(apps'[Len(apps) + 1])
    BY <1>2, OpenedRows, OpenedRow DEF IsIssued
  <2> QED BY <1>0, <2>1, <2>2
<1>3. ASSUME NEW n \in DOMAIN apps, NEW b, apps' = [apps EXCEPT ![n] = b],
             RowStep(n, apps[n], b)
      PROVE  IssuedTiesOut'
  <2>1. ASSUME IsIssued(b), ~b.voidNoted
        PROVE  Ties(b)
    <3>1. ~apps[n].voidNoted /\ apps[n].status # "void"
      BY <1>3, <2>1 DEF RowStep, VoidIsNoted
    <3>2. CASE IsIssued(apps[n])
      <4>1. ~IsEditable(apps[n]) /\ Ties(apps[n])
        BY <1>0, <3>1, <3>2 DEF IsIssued, IsEditable
      <4>2. b.columns = apps[n].columns /\ b.sheet = apps[n].sheet /\ b.box = apps[n].box
        BY <1>3, <4>1 DEF RowStep
      <4> QED BY <4>1, <4>2, TiesOfTheSameFigures
    <3> QED BY <1>3, <2>1, <3>1, <3>2 DEF RowStep
  <2> QED BY <1>0, <1>3, <2>1, RewrittenRows
<1> QED BY <1>1, <1>2, <1>3, StepShapes

-----------------------------------------------------------------------------
(* The theorems                                                             *)

\* The inductive invariant: the properties, and the two facts they rest on.
BillingInvariant ==
    /\ TypeOK
    /\ VoidIsNoted
    /\ CertificateFollowsSubmission
    /\ OnlyNewestIsOpen
    /\ PeriodsNeverOverlap
    /\ ColumnDCarriesForward
    /\ IssuedMatchesSnapshot
    /\ IssuedTiesOut

\* The invariant holds in every reachable state of the period engine
\* (services/application.py and services/payments.py, one request at a time).
THEOREM BillingInvariantHolds == Spec => []BillingInvariant
<1>1. Init => BillingInvariant
  BY InitHolds DEF BillingInvariant
<1>2. BillingInvariant /\ [Next]_vars => BillingInvariant'
  BY TypeStep, VoidIsNotedStep, CertificateStep, OnlyNewestStep, PeriodsStep,
     ColumnDStep, SnapshotStep, TiesStep DEF BillingInvariant
<1> QED BY <1>1, <1>2, PTL DEF Spec

\* Applications keep their shape, with periods that end on or after their start.
THEOREM ApplicationsAreWellFormed == Spec => []TypeOK
<1>1. BillingInvariant => TypeOK
  BY DEF BillingInvariant
<1> QED BY <1>1, BillingInvariantHolds, PTL

\* open_period's check for an open application is enough: whatever is voided or
\* paid later, only the newest application is ever open.
THEOREM OnePeriodIsOpen == Spec => []OnlyNewestIsOpen
<1>1. BillingInvariant => OnlyNewestIsOpen
  BY DEF BillingInvariant
<1> QED BY <1>1, BillingInvariantHolds, PTL

\* Comparing a new period with the newest live application alone (_latest_live)
\* keeps all never voided periods disjoint.
THEOREM PeriodsAreDisjoint == Spec => []PeriodsNeverOverlap
<1>1. BillingInvariant => PeriodsNeverOverlap
  BY DEF BillingInvariant
<1> QED BY <1>1, BillingInvariantHolds, PTL

\* Column D, written once when a period opens, stays D + E of the period before,
\* although that row is not locked and is read only once.
THEOREM ColumnDIsCarried == Spec => []ColumnDCarriesForward
<1>1. BillingInvariant => ColumnDCarriesForward
  BY DEF BillingInvariant
<1> QED BY <1>1, BillingInvariantHolds, PTL

\* An issued, never voided application equals the snapshot taken at submission.
THEOREM SnapshotsNeverDrift == Spec => []IssuedMatchesSnapshot
<1>1. BillingInvariant => IssuedMatchesSnapshot
  BY DEF BillingInvariant
<1> QED BY <1>1, BillingInvariantHolds, PTL

\* Submit checks the stored figures and does not recompute them: they tie out for
\* as long as the application stands, whatever moves under it.
THEOREM IssuedStaysTied == Spec => []IssuedTiesOut
<1>1. BillingInvariant => IssuedTiesOut
  BY DEF BillingInvariant
<1> QED BY <1>1, BillingInvariantHolds, PTL

\* A closed application never reopens; its figures and certificate never change.
THEOREM ClosedStaysClosed == Spec => ClosedIsFinal
<1>1. ASSUME BillingInvariant, [Next]_vars
      PROVE  \A n \in DOMAIN apps :
                ~IsEditable(apps[n]) =>
                    /\ n \in DOMAIN apps'
                    /\ ~IsEditable(apps'[n])
                    /\ Fingerprint(apps'[n]) = Fingerprint(apps[n])
                    /\ HasCertificate(apps[n]) => apps'[n].certificate = apps[n].certificate
  <2>0. TypeOK /\ VoidIsNoted /\ CertificateFollowsSubmission
    BY <1>1 DEF BillingInvariant
  <2>1. CASE apps' = apps
    BY <2>1
  <2>2. ASSUME NEW start \in Days, NEW end \in Days, OpensPeriod(start, end),
               NEW n \in DOMAIN apps
        PROVE  n \in DOMAIN apps' /\ apps'[n] = apps[n]
    BY <2>0, <2>2, OpenedRows
  <2>3. ASSUME NEW n \in DOMAIN apps, NEW b, apps' = [apps EXCEPT ![n] = b],
               RowStep(n, apps[n], b), NEW m \in DOMAIN apps, ~IsEditable(apps[m])
        PROVE  /\ m \in DOMAIN apps'
               /\ ~IsEditable(apps'[m])
               /\ Fingerprint(apps'[m]) = Fingerprint(apps[m])
               /\ HasCertificate(apps[m]) => apps'[m].certificate = apps[m].certificate
    <3>1. CASE m # n
      BY <2>0, <2>3, <3>1, RewrittenRows
    <3>2. CASE m = n
      <4>1. m \in DOMAIN apps' /\ apps'[m] = b
        BY <2>0, <2>3, <3>2, RewrittenRows
      <4>2. HasCertificate(apps[m]) => b.certificate = apps[m].certificate
        BY <2>0, <2>3, <3>2 DEF RowStep, HasCertificate, CertificateFollowsSubmission
      <4> QED BY <2>3, <3>2, <4>1, <4>2 DEF RowStep, Fingerprint
    <3> QED BY <3>1, <3>2
  <2> QED BY <1>1, <2>0, <2>1, <2>2, <2>3, StepShapes
<1> QED BY <1>1, BillingInvariantHolds, PTL DEF Spec, ClosedIsFinal

\* Nothing after open_period writes columns C and D.
THEOREM ColumnsCAndDAreFixed == Spec => ColumnsCAndDWrittenOnce
<1>1. ASSUME BillingInvariant, [Next]_vars
      PROVE  \A n \in DOMAIN apps :
                \A i \in DOMAIN apps[n].columns :
                    /\ apps'[n].columns[i].c = apps[n].columns[i].c
                    /\ apps'[n].columns[i].d = apps[n].columns[i].d
  <2>0. TypeOK /\ VoidIsNoted
    BY <1>1 DEF BillingInvariant
  <2>1. CASE apps' = apps
    BY <2>1
  <2>2. ASSUME NEW start \in Days, NEW end \in Days, OpensPeriod(start, end)
        PROVE  \A n \in DOMAIN apps : apps'[n] = apps[n]
    BY <2>0, <2>2, OpenedRows
  <2>3. ASSUME NEW n \in DOMAIN apps, NEW b, apps' = [apps EXCEPT ![n] = b],
               RowStep(n, apps[n], b), NEW m \in DOMAIN apps, NEW i \in DOMAIN apps[m].columns
        PROVE  /\ apps'[m].columns[i].c = apps[m].columns[i].c
               /\ apps'[m].columns[i].d = apps[m].columns[i].d
    BY <2>0, <2>3, RewrittenRows DEF RowStep
  <2> QED BY <1>1, <2>0, <2>1, <2>2, <2>3, StepShapes
<1> QED BY <1>1, BillingInvariantHolds, PTL DEF Spec, ColumnsCAndDWrittenOnce

\* What passes the tie-out carries the certificate of the period before it, or
\* its request while there is none, however long ago the draft was computed.
THEOREM SubmittedOnWhatWasCertified == Spec => SubmittedLine7FollowsCertificate
<1>1. ASSUME BillingInvariant, [Next]_vars, NEW n \in DOMAIN apps,
             n > 1, NeverVoided(n - 1), IsEditable(apps[n]), IsIssued(apps'[n])
      PROVE  apps'[n].sheet.line7 = LineSeven(apps[n - 1])
  <2>0. TypeOK /\ VoidIsNoted /\ OnlyNewestIsOpen
    BY <1>1 DEF BillingInvariant
  <2>1. /\ n - 1 \in DOMAIN apps /\ (n - 1) + 1 = n /\ n # n - 1
        /\ ~IsEditable(apps[n - 1])
    <3>1. DOMAIN apps = 1..Len(apps) /\ Len(apps) \in Nat
      BY <2>0, RowSequence DEF TypeOK, IsRowSequence
    <3>2. n = Len(apps)
      BY <1>1, <2>0 DEF OnlyNewestIsOpen
    <3>3. \A N \in Nat : \A k \in 1..N : k > 1 => k - 1 \in 1..N /\ (k - 1) + 1 = k /\ k - 1 # k
      OBVIOUS
    <3>4. n - 1 \in DOMAIN apps /\ (n - 1) + 1 = n /\ n - 1 # n
      BY <1>1, <3>1, <3>3
    <3> QED BY <2>0, <3>2, <3>4 DEF OnlyNewestIsOpen
  <2>2. PreviousCertificates(n) = LineSeven(apps[n - 1])
    BY <1>1, <2>0, <2>1, PreviousContinues
  <2>3. ~IsIssued(apps[n])
    BY <1>1 DEF IsEditable, IsIssued
  <2>4. CASE apps' = apps
    BY <1>1, <2>3, <2>4
  <2>5. ASSUME NEW start \in Days, NEW end \in Days, OpensPeriod(start, end)
        PROVE  apps'[n] = apps[n]
    BY <2>0, <2>5, OpenedRows
  <2>6. ASSUME NEW m \in DOMAIN apps, NEW b, apps' = [apps EXCEPT ![m] = b],
               RowStep(m, apps[m], b)
        PROVE  apps'[n] = apps[n] \/ apps'[n].sheet.line7 = PreviousCertificates(n)
    <3>1. CASE m # n
      BY <2>0, <2>6, <3>1, RewrittenRows
    <3>2. CASE m = n
      BY <1>1, <2>0, <2>6, <3>2, RewrittenRows DEF RowStep
    <3> QED BY <3>1, <3>2
  <2>7. apps'[n] # apps[n]
    BY <1>1, <2>3
  <2> QED BY <1>1, <2>0, <2>2, <2>4, <2>5, <2>6, <2>7, StepShapes
<1>2. ASSUME BillingInvariant, [Next]_vars
      PROVE  \A n \in DOMAIN apps :
                n > 1 /\ NeverVoided(n - 1) /\ IsEditable(apps[n]) /\ IsIssued(apps'[n]) =>
                    LET p == apps[n - 1]
                    IN  apps'[n].sheet.line7 =
                            p.sheet.line7
                            + (IF HasCertificate(p) THEN p.certificate[1] ELSE p.sheet.line8)
  BY <1>1, <1>2 DEF LineSeven
<1> QED BY <1>2, BillingInvariantHolds, PTL DEF Spec, SubmittedLine7FollowsCertificate
=============================================================================
