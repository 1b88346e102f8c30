--------------------------- MODULE PaperworkProofs ---------------------------
(***************************************************************************)
(* The papers of a project besides its applications.  Subcontracts: what is *)
(* approved follows from the rows, for any number of subcontracts and       *)
(* billings, any amounts and any order of the decisions.  Statutory: what   *)
(* is waived and when something is due follows from what was entered, for   *)
(* any seed data, wordings, rules and calendar.  The two have no name in    *)
(* common, so one module can extend both.                                   *)
(***************************************************************************)
EXTENDS Subcontracts, Statutory, DataTheorems

-----------------------------------------------------------------------------
(* The invariant                                                            *)

\* The fields of a billing and of a subcontract.
IsBilling(b) ==
    /\ b = [total |-> b.total, retained |-> b.retained, previous |-> b.previous,
            due |-> b.due, approved |-> b.approved, status |-> b.status,
            overtook |-> b.overtook]
    /\ b.total \in Int /\ b.retained \in Int /\ b.previous \in Int
    /\ b.due \in Int /\ b.approved \in Int
    /\ b.status \in BillingStatuses

IsSub(sub) ==
    /\ sub = [status |-> sub.status, amount |-> sub.amount, rate |-> sub.rate,
              lines |-> sub.lines, billings |-> sub.billings]
    /\ sub.status \in SubStatuses
    /\ sub.amount \in Int /\ sub.amount > 0
    /\ sub.rate \in RetainageRates \cup {PrimeRate}
    /\ IsSequence(sub.billings)

\* What is due on a billing: the work within the subcontract's value, less the
\* subcontract's retainage unless it is released, less what was paid before.
\* No more than that is approved.
DueFollows(b, sub) ==
    /\ IsBilling(b)
    /\ b.due = b.total - b.retained - b.previous
    /\ b.total <= sub.amount
    /\ b.retained \in {0, ApplyBp(b.total, sub.rate)}
    /\ b.status = "approved" => b.approved <= b.due

\* A billing that overtook none came after the decision of every lower one, and
\* what it counts as paid is what they were approved for: then, and still.
InTurn(billings, n) ==
    ~billings[n].overtook =>
        /\ \A m \in DOMAIN billings : m < n => billings[m].status # "received"
        /\ billings[n].previous = ApprovedBefore(billings, n)

SubHolds(sub) ==
    /\ IsSub(sub)
    /\ \A n \in DOMAIN sub.billings : DueFollows(sub.billings[n], sub)
    /\ \A n \in DOMAIN sub.billings : InTurn(sub.billings, n)

BillingsInvariant == \A number \in DOMAIN subs : SubHolds(subs[number])

-----------------------------------------------------------------------------
(* What is paid on lower numbers                                            *)

\* It depends on the lower rows only.
LEMMA PaidBelowIsSettled ==
    ASSUME NEW s, NEW u, NEW n,
           \A m \in DOMAIN s \cup DOMAIN u :
              m < n => m \in DOMAIN s /\ m \in DOMAIN u /\ s[m] = u[m]
    PROVE  ApprovedBefore(u, n) = ApprovedBefore(s, n)
<1> DEFINE S == {k \in DOMAIN s : k < n /\ s[k].status = "approved"}
           U == {k \in DOMAIN u : k < n /\ u[k].status = "approved"}
<1>1. U = S
  OBVIOUS
<1>2. \A m \in S : s[m].approved = u[m].approved
  OBVIOUS
<1>3. [m \in U |-> u[m].approved] = [m \in S |-> s[m].approved]
  BY <1>1, <1>2
<1>4. /\ ApprovedBefore(u, n) = SumOver([m \in U |-> u[m].approved])
      /\ ApprovedBefore(s, n) = SumOver([m \in S |-> s[m].approved])
  BY DEF ApprovedBefore
<1> HIDE DEF S, U
<1> QED BY <1>3, <1>4

\* Sums of amounts are amounts.
LEMMA PaidBelowIsWhole ==
    ASSUME NEW s, IsSequence(s), NEW n, \A m \in DOMAIN s : s[m].approved \in Int
    PROVE  ApprovedBefore(s, n) \in Int
<1> DEFINE below == {k \in DOMAIN s : k < n /\ s[k].status = "approved"}
           f == [m \in below |-> s[m].approved]
<1>1. IsFiniteSet(below)
  <2>1. DOMAIN s = 1..Len(s) /\ IsFiniteSet(1..Len(s))
    BY SequenceFacts, FS_Interval
  <2> QED BY <2>1, FS_Subset
<1>2. DOMAIN f = below /\ IntegersOn(f, below)
  BY DEF IntegersOn
<1>3. ApprovedBefore(s, n) = SumOver(f)
  BY DEF ApprovedBefore
<1> HIDE DEF below, f
<1> QED BY <1>1, <1>2, <1>3, SumOverIs, SumSplits

\* What is approved up to a row is what was approved below it, and its own.
LEMMA PaidUpTo ==
    ASSUME NEW s, IsSequence(s), NEW n \in DOMAIN s, NEW last \in DOMAIN s, n <= last,
           s[n].status = "approved",
           \A m \in DOMAIN s : s[m].approved \in Int,
           \A m \in DOMAIN s : n < m /\ m <= last => s[m].status # "approved"
    PROVE  /\ ApprovedUpTo(s, last) = ApprovedBefore(s, n) + s[n].approved
           /\ ApprovedBefore(s, n) \in Int
<1> DEFINE below == {k \in DOMAIN s : k < n /\ s[k].status = "approved"}
           upTo == {m \in 1..last : s[m].status = "approved"}
           f == [m \in below |-> s[m].approved]
           g == [m \in upTo |-> s[m].approved]
           a == [m \in DOMAIN s |-> s[m].approved]
<1>1. Len(s) \in Nat /\ DOMAIN s = 1..Len(s)
  BY SequenceFacts
<1>2. upTo = below \cup {n} /\ n \notin below /\ upTo \subseteq DOMAIN s
  <2>1. n \in 1..Len(s) /\ last \in 1..Len(s) /\ 1..last \subseteq 1..Len(s)
    BY <1>1
  <2>2. \A m \in 1..Len(s) : m \in upTo <=> (m \in below \/ m = n)
    BY <1>1, <2>1
  <2> QED BY <1>1, <2>1, <2>2
<1>3. IsFiniteSet(below) /\ IsFiniteSet(upTo)
  <2>1. IsFiniteSet(1..Len(s))
    BY <1>1, FS_Interval
  <2>2. below \in SUBSET (1..Len(s)) /\ upTo \in SUBSET (1..Len(s))
    BY <1>1, <1>2
  <2> HIDE DEF below, upTo
  <2> QED BY <2>1, <2>2, FS_Subset
<1>4. /\ DOMAIN f = below /\ DOMAIN g = upTo
      /\ \A m \in below : f[m] = a[m]
      /\ \A m \in upTo : g[m] = a[m]
      /\ a[n] = s[n].approved
      /\ \A m \in upTo : a[m] \in Int
  BY <1>2
<1>5. /\ ApprovedUpTo(s, last) = SumOver(g)
      /\ ApprovedBefore(s, n) = SumOver(f)
  BY DEF ApprovedUpTo, ApprovedBefore
<1> HIDE DEF below, upTo, f, g, a
<1>6. IntegersOn(a, below \cup {n}) /\ IntegersOn(a, below) /\ IntegersOn(a, upTo)
  BY <1>2, <1>4 DEF IntegersOn
<1>7. SumOver(g) = SumFunctionOnSet(a, upTo)
  BY <1>3, <1>4, <1>6, SumOfEquals, SumOverIs
<1>8. SumOver(f) = SumFunctionOnSet(a, below)
  BY <1>3, <1>4, <1>6, SumOfEquals, SumOverIs
<1>9. SumFunctionOnSet(a, below \cup {n}) = SumFunctionOnSet(a, below) + a[n]
  BY <1>2, <1>3, <1>6, SumWithOneMore
<1>10. SumFunctionOnSet(a, below) \in Int
  BY <1>3, <1>6, SumSplits
<1> QED BY <1>2, <1>4, <1>5, <1>7, <1>8, <1>9, <1>10

-----------------------------------------------------------------------------
(* The steps                                                                *)

\* A subcontract whose billings are replaced keeps its terms.
LEMMA TermsStay ==
    ASSUME NEW sub, IsSub(sub), NEW u, IsSequence(u)
    PROVE  LET after == [sub EXCEPT !.billings = u]
           IN  /\ IsSub(after) /\ after.billings = u
               /\ \A b : DueFollows(b, sub) => DueFollows(b, after)
<1> DEFINE after == [sub EXCEPT !.billings = u]
<1>1. /\ after = [status |-> sub.status, amount |-> sub.amount, rate |-> sub.rate,
                  lines |-> sub.lines, billings |-> u]
  BY DEF IsSub
<1> HIDE DEF after
<1>2. /\ after.status = sub.status /\ after.amount = sub.amount /\ after.rate = sub.rate
      /\ after.lines = sub.lines /\ after.billings = u
  BY <1>1
<1>3. IsSub(after)
  BY <1>1, <1>2 DEF IsSub
<1>4. \A b : DueFollows(b, sub) => DueFollows(b, after)
  BY <1>2 DEF DueFollows
<1> QED BY <1>2, <1>3, <1>4 DEF after

\* Deciding a received billing disturbs no other: those below were decided
\* before or are not looked at, and those above that overtook it promise nothing.
LEMMA DecidedRow ==
    ASSUME NEW sub, SubHolds(sub), NEW n \in DOMAIN sub.billings,
           sub.billings[n].status = "received",
           NEW b, DueFollows(b, sub),
           b.overtook = sub.billings[n].overtook,
           b.previous = sub.billings[n].previous
    PROVE  SubHolds([sub EXCEPT !.billings = [sub.billings EXCEPT ![n] = b]])
<1> DEFINE s == sub.billings
           u == [sub.billings EXCEPT ![n] = b]
           after == [sub EXCEPT !.billings = u]
<1>1. IsSub(sub) /\ IsSequence(s)
  BY DEF SubHolds, IsSub
<1>2. Len(s) \in Nat /\ DOMAIN s = 1..Len(s)
  BY <1>1, SequenceFacts
<1>3. Replaces(u, s, n, b)
  BY <1>1, ReplacedElement
<1> HIDE DEF u
<1>4. /\ IsSequence(u) /\ DOMAIN u = DOMAIN s /\ u[n] = b
      /\ \A m \in DOMAIN s : m # n => u[m] = s[m]
  BY <1>3 DEF Replaces
<1>5. /\ IsSub(after) /\ after.billings = u
      /\ \A c : DueFollows(c, sub) => DueFollows(c, after)
  BY <1>1, <1>4, TermsStay
<1> HIDE DEF after
<1>6. \A k \in DOMAIN u : DueFollows(u[k], after)
  <2>1. \A k \in DOMAIN s : DueFollows(s[k], sub)
    BY DEF SubHolds
  <2> QED BY <1>4, <1>5, <2>1
<1>7. ASSUME NEW k \in DOMAIN u PROVE InTurn(u, k)
  <2> SUFFICES ASSUME ~u[k].overtook
               PROVE  /\ \A m \in DOMAIN u : m < k => u[m].status # "received"
                      /\ u[k].previous = ApprovedBefore(u, k)
    BY DEF InTurn
  <2>1. u[k].overtook = s[k].overtook /\ u[k].previous = s[k].previous
    BY <1>4
  <2>2. InTurn(s, k)
    BY <1>4 DEF SubHolds
  <2>3. /\ \A m \in DOMAIN s : m < k => s[m].status # "received"
        /\ s[k].previous = ApprovedBefore(s, k)
    BY <2>1, <2>2 DEF InTurn
  <2>4. \A m \in DOMAIN s : m < k => m # n
    BY <2>3
  <2>5. \A m \in DOMAIN s : m < k => u[m] = s[m]
    BY <1>4, <2>4
  <2>6. \A m \in DOMAIN s \cup DOMAIN u :
            m < k => m \in DOMAIN s /\ m \in DOMAIN u /\ s[m] = u[m]
    BY <1>4, <2>5
  <2>7. ApprovedBefore(u, k) = ApprovedBefore(s, k)
    BY <2>6, PaidBelowIsSettled
  <2> QED BY <1>4, <2>1, <2>3, <2>5, <2>7
<1> QED BY <1>5, <1>6, <1>7 DEF SubHolds, u, after

\* A billing received counts what is approved at that moment.
LEMMA ReceivedRow ==
    ASSUME NEW sub, SubHolds(sub), NEW b, DueFollows(b, sub),
           ~b.overtook => \A m \in DOMAIN sub.billings : sub.billings[m].status # "received",
           b.previous = ApprovedBefore(sub.billings, Len(sub.billings) + 1)
    PROVE  SubHolds([sub EXCEPT !.billings = Append(sub.billings, b)])
<1> DEFINE s == sub.billings
           n == Len(s) + 1
           u == Append(s, b)
           after == [sub EXCEPT !.billings = u]
<1>1. IsSub(sub) /\ IsSequence(s)
  BY DEF SubHolds, IsSub
<1>2. Extends(u, s, b)
  BY <1>1, AppendedElement
<1> HIDE DEF u
<1>3. /\ IsSequence(u) /\ DOMAIN s = 1..Len(s) /\ DOMAIN u = 1..n /\ Len(s) \in Nat
      /\ u[n] = b /\ \A m \in DOMAIN s : u[m] = s[m]
  BY <1>2 DEF Extends
<1>4. /\ IsSub(after) /\ after.billings = u
      /\ \A c : DueFollows(c, sub) => DueFollows(c, after)
  BY <1>1, <1>3, TermsStay
<1>5. \A k \in DOMAIN u : k \in DOMAIN s \/ k = n
  BY <1>3
<1> HIDE DEF after
<1>6. \A k \in DOMAIN u : DueFollows(u[k], after)
  <2>1. \A k \in DOMAIN s : DueFollows(s[k], sub)
    BY DEF SubHolds
  <2> QED BY <1>3, <1>4, <1>5, <2>1
<1>7. ASSUME NEW k \in DOMAIN u PROVE InTurn(u, k)
  <2> SUFFICES ASSUME ~u[k].overtook
               PROVE  /\ \A m \in DOMAIN u : m < k => u[m].status # "received"
                      /\ u[k].previous = ApprovedBefore(u, k)
    BY DEF InTurn
  <2>1. k \in 1..n
    BY <1>3
  <2>2. \A m \in DOMAIN s \cup DOMAIN u : m < k => m \in DOMAIN s /\ m \in DOMAIN u
    BY <1>3, <2>1
  <2>3. ApprovedBefore(u, k) = ApprovedBefore(s, k)
    BY <1>3, <2>2, PaidBelowIsSettled
  <2>4. \A m \in DOMAIN u : m < k => m \in DOMAIN s /\ u[m] = s[m]
    BY <1>3, <2>2
  <2>5. CASE k = n
    <3>1. \A m \in DOMAIN s : s[m].status # "received"
      BY <1>3, <2>5
    <3> QED BY <1>3, <2>3, <2>4, <2>5, <3>1
  <2>6. CASE k # n
    <3>1. k \in DOMAIN s /\ u[k] = s[k] /\ InTurn(s, k)
      BY <1>3, <1>5, <2>6 DEF SubHolds
    <3> QED BY <2>3, <2>4, <3>1 DEF InTurn
  <2> QED BY <2>5, <2>6
<1> QED BY <1>4, <1>6, <1>7 DEF SubHolds, u, after

\* One subcontract changes and the others stay.
LEMMA OneSubChanges ==
    ASSUME BillingsInvariant, NEW number \in DOMAIN subs, NEW after, SubHolds(after),
           subs' = [subs EXCEPT ![number] = after]
    PROVE  BillingsInvariant'
<1>1. /\ DOMAIN subs' = DOMAIN subs /\ subs'[number] = after
      /\ \A m \in DOMAIN subs : m # number => subs'[m] = subs[m]
  OBVIOUS
<1>2. \A m \in DOMAIN subs' : SubHolds(subs'[m])
  BY <1>1 DEF BillingsInvariant
<1> QED BY <1>2 DEF BillingsInvariant

\* A subcontract with the same terms and billings.
LEMMA SameBillings ==
    ASSUME NEW sub, SubHolds(sub), NEW after, IsSub(after),
           after.amount = sub.amount, after.rate = sub.rate, after.billings = sub.billings
    PROVE  SubHolds(after)
BY DEF SubHolds, DueFollows

\* A rate of nothing withholds nothing.
LEMMA NothingWithheld == \A total \in Int : ApplyBp(total, 0) = 0
BY DEF ApplyBp

\* A new subcontract has no billings.
LEMMA CreateStep ==
    ASSUME BillingsInvariant, NEW number \in Numbers, NEW amount \in SubcontractAmounts,
           NEW typed \in RetainageRates \cup {Blank}, CreateRequest(number, amount, typed)
    PROVE  BillingsInvariant'
<1> DEFINE rate == IF typed = Blank THEN PrimeRate ELSE typed
           sub == [status |-> "draft", amount |-> amount, rate |-> rate,
                   lines |-> 0, billings |-> <<>>]
<1>1. /\ amount > 0
      /\ subs' = [n \in DOMAIN subs \cup {number} |-> IF n \in DOMAIN subs THEN subs[n] ELSE sub]
  BY DEF CreateRequest, Create
<1>2. SubHolds(sub)
  <2>1. rate \in RetainageRates \cup {PrimeRate} /\ amount \in Int
    BY AmountsAreIntegers
  <2>2. IsSequence(<<>>) /\ DOMAIN <<>> = {}
    BY DEF IsSequence
  <2>3. IsSub(sub)
    BY <1>1, <2>1, <2>2 DEF IsSub, SubStatuses
  <2>4. DOMAIN sub.billings = {}
    BY <2>2
  <2> HIDE DEF sub
  <2> QED BY <2>3, <2>4 DEF SubHolds
<1> HIDE DEF sub
<1>3. \A m \in DOMAIN subs' : SubHolds(subs'[m])
  BY <1>1, <1>2 DEF BillingsInvariant
<1> QED BY <1>3 DEF BillingsInvariant

\* Signing a subcontract, and adding a line to its schedule.
LEMMA SheetStep ==
    ASSUME BillingsInvariant, NEW number \in DOMAIN subs, Execute(number) \/ AddSubcontractLine(number)
    PROVE  BillingsInvariant'
<1> DEFINE sub == subs[number]
<1>1. SubHolds(sub) /\ IsSub(sub)
  BY DEF BillingsInvariant, SubHolds
<1>2. CASE Execute(number)
  <2> DEFINE after == [sub EXCEPT !.status = "executed"]
  <2>1. subs' = [subs EXCEPT ![number] = after]
    BY <1>2 DEF Execute
  <2>2. after = [status |-> "executed", amount |-> sub.amount, rate |-> sub.rate,
                 lines |-> sub.lines, billings |-> sub.billings]
    BY <1>1 DEF IsSub
  <2> HIDE DEF after, sub
  <2>3. IsSub(after) /\ after.amount = sub.amount /\ after.rate = sub.rate
        /\ after.billings = sub.billings
    BY <1>1, <2>2 DEF IsSub, SubStatuses
  <2>4. SubHolds(after)
    BY <1>1, <2>3, SameBillings
  <2> QED BY <2>1, <2>4, OneSubChanges
<1>3. CASE AddSubcontractLine(number)
  <2> DEFINE after == [sub EXCEPT !.lines = @ + 1]
  <2>1. subs' = [subs EXCEPT ![number] = after]
    BY <1>3 DEF AddSubcontractLine
  <2>2. after = [status |-> sub.status, amount |-> sub.amount, rate |-> sub.rate,
                 lines |-> sub.lines + 1, billings |-> sub.billings]
    BY <1>1 DEF IsSub
  <2> HIDE DEF after, sub
  <2>3. IsSub(after) /\ after.amount = sub.amount /\ after.rate = sub.rate
        /\ after.billings = sub.billings
    BY <1>1, <2>2 DEF IsSub
  <2>4. SubHolds(after)
    BY <1>1, <2>3, SameBillings
  <2> QED BY <2>1, <2>4, OneSubChanges
<1> QED BY <1>2, <1>3

\* What is due on a billing follows from the subcontract and its rows.
LEMMA ReceiveStep ==
    ASSUME BillingsInvariant, NEW number \in DOMAIN subs, NEW claim \in Int, NEW stored \in Int,
           NEW isFinal \in BOOLEAN, NEW start, NEW end,
           Receive(number, claim, stored, isFinal, start, end)
    PROVE  BillingsInvariant'
<1> DEFINE sub == subs[number]
           total == claim + stored
           b == Billing(sub, total, isFinal)
           after == [sub EXCEPT !.billings = Append(sub.billings, b)]
<1>1. SubHolds(sub) /\ IsSub(sub)
  BY DEF BillingsInvariant, SubHolds
<1>2. total <= sub.amount /\ subs' = [subs EXCEPT ![number] = after]
  BY DEF Receive
<1>3. total \in Int
  OBVIOUS
<1> HIDE DEF sub, total
<1>4. sub.rate \in Nat
  BY <1>1, AmountsAreIntegers DEF IsSub
<1> DEFINE n == Len(sub.billings) + 1
           retained == Withheld(sub, total, isFinal)
           previous == ApprovedBefore(sub.billings, n)
<1>5. retained \in {0, ApplyBp(total, sub.rate)} /\ retained \in Int
  <2> DEFINE r == sub.rate
  <2>1. ApplyBp(total, r) \in Int
    <3>1. total \in Int /\ r \in Int
      BY <1>3, <1>4
    <3> HIDE DEF r
    <3> QED BY <3>1, ApplyBpIsWhole
  <2> QED BY <1>3, <2>1, NothingWithheld DEF Withheld
<1>6. previous \in Int
  <2>1. IsSequence(sub.billings) /\ \A m \in DOMAIN sub.billings : sub.billings[m].approved \in Int
    BY <1>1 DEF SubHolds, IsSub, DueFollows, IsBilling
  <2> QED BY <2>1, PaidBelowIsWhole
<1>7. /\ b.total = total /\ b.retained = retained /\ b.previous = previous
      /\ b.due = total - retained - previous /\ b.approved = 0 /\ b.status = "received"
      /\ b.overtook = (\E m \in DOMAIN sub.billings : sub.billings[m].status = "received")
      /\ b = [total |-> b.total, retained |-> b.retained, previous |-> b.previous,
              due |-> b.due, approved |-> b.approved, status |-> b.status,
              overtook |-> b.overtook]
  BY DEF Billing
<1> HIDE DEF b, retained
<1>8. DueFollows(b, sub)
  <2> HIDE DEF previous
  <2>1. IsBilling(b)
    BY <1>3, <1>5, <1>6, <1>7 DEF IsBilling, BillingStatuses
  <2> QED BY <1>2, <1>3, <1>5, <1>6, <1>7, <2>1 DEF DueFollows
<1>9. SubHolds(after)
  BY <1>1, <1>7, <1>8, ReceivedRow
<1> HIDE DEF after
<1> QED BY <1>2, <1>9, OneSubChanges DEF sub

\* A decision is within what is due, and made once.
LEMMA DecisionStep ==
    ASSUME BillingsInvariant, NEW number \in DOMAIN subs,
           NEW n \in DOMAIN subs[number].billings,
           \/ Reject(number, n)
           \/ \E cut \in Cuts : Approve(number, n, subs[number].billings[n].due - cut)
    PROVE  BillingsInvariant'
<1> DEFINE sub == subs[number]
           old == sub.billings[n]
<1>1. SubHolds(sub) /\ DueFollows(old, sub) /\ IsBilling(old)
  BY DEF BillingsInvariant, SubHolds, DueFollows
<1>2. ASSUME Reject(number, n) PROVE BillingsInvariant'
  <2> DEFINE b == [old EXCEPT !.status = "rejected"]
             after == [sub EXCEPT !.billings = [sub.billings EXCEPT ![n] = b]]
  <2>1. old.status = "received" /\ subs' = [subs EXCEPT ![number] = after]
    BY <1>2 DEF Reject
  <2>2. b = [total |-> old.total, retained |-> old.retained, previous |-> old.previous,
             due |-> old.due, approved |-> old.approved, status |-> "rejected",
             overtook |-> old.overtook]
    BY <1>1 DEF IsBilling
  <2> HIDE DEF b, old
  <2>3. DueFollows(b, sub) /\ b.overtook = old.overtook /\ b.previous = old.previous
    BY <1>1, <2>2 DEF DueFollows, IsBilling, BillingStatuses
  <2>4. SubHolds(after)
    BY <1>1, <2>1, <2>3, DecidedRow DEF old
  <2> HIDE DEF after, sub
  <2> QED BY <2>1, <2>4, OneSubChanges DEF sub
<1>3. ASSUME NEW cut \in Cuts, Approve(number, n, old.due - cut) PROVE BillingsInvariant'
  <2> DEFINE amount == old.due - cut
             b == [old EXCEPT !.status = "approved", !.approved = amount]
             after == [sub EXCEPT !.billings = [sub.billings EXCEPT ![n] = b]]
  <2>1. old.status = "received" /\ amount <= old.due /\ subs' = [subs EXCEPT ![number] = after]
    BY <1>3 DEF Approve
  <2> HIDE DEF amount, old, sub
  <2>2. b = [total |-> old.total, retained |-> old.retained, previous |-> old.previous,
             due |-> old.due, approved |-> amount, status |-> "approved",
             overtook |-> old.overtook]
    <3> DEFINE decided == [old EXCEPT !.status = "approved"]
    <3>1. b = [decided EXCEPT !.approved = amount]
      OBVIOUS
    <3>2. decided = [total |-> old.total, retained |-> old.retained,
                     previous |-> old.previous, due |-> old.due,
                     approved |-> old.approved, status |-> "approved",
                     overtook |-> old.overtook]
      BY <1>1 DEF IsBilling
    <3> HIDE DEF decided, b
    <3> QED BY <3>1, <3>2
  <2>3. amount \in Int
    BY <1>1, AmountsAreIntegers DEF IsBilling, amount
  <2> HIDE DEF b
  <2>4. DueFollows(b, sub) /\ b.overtook = old.overtook /\ b.previous = old.previous
    BY <1>1, <2>1, <2>2, <2>3 DEF DueFollows, IsBilling, BillingStatuses
  <2>5. SubHolds(after)
    BY <1>1, <2>1, <2>4, DecidedRow DEF old, sub
  <2> HIDE DEF after, sub
  <2> QED BY <2>1, <2>5, OneSubChanges DEF sub
<1> QED BY <1>2, <1>3

\* Every billing's due follows from the claim, the retainage and what was paid
\* before it, and the billings that wait their turn see settled rows.
THEOREM BillingsInvariantHolds == Spec => []BillingsInvariant
<1>1. Init => BillingsInvariant
  BY DEF Init, BillingsInvariant
<1>2. BillingsInvariant /\ [Next]_subs => BillingsInvariant'
  <2> SUFFICES ASSUME BillingsInvariant, [Next]_subs PROVE BillingsInvariant'
    OBVIOUS
  <2>1. CASE UNCHANGED subs
    BY <2>1 DEF BillingsInvariant
  <2>2. ASSUME NEW number \in Numbers, NEW amount \in SubcontractAmounts,
               NEW typed \in RetainageRates \cup {Blank}, CreateRequest(number, amount, typed)
        PROVE  BillingsInvariant'
    BY <2>2, CreateStep
  <2>3. ASSUME NEW number \in DOMAIN subs, Execute(number) \/ AddSubcontractLine(number)
        PROVE  BillingsInvariant'
    BY <2>3, SheetStep
  <2>4. ASSUME NEW number \in DOMAIN subs, NEW claim \in Claims, NEW stored \in Claims,
               NEW isFinal \in BOOLEAN, NEW start \in Days, NEW end \in Days,
               Receive(number, claim, stored, isFinal, start, end)
        PROVE  BillingsInvariant'
    <3>1. claim \in Int /\ stored \in Int
      BY AmountsAreIntegers
    <3> QED BY <2>4, <3>1, ReceiveStep
  <2>5. ASSUME NEW number \in DOMAIN subs, NEW typed \in Claims, NEW end \in Days,
               ReceiveRequest(number, typed, end)
        PROVE  BillingsInvariant'
    <3>1. typed \in Int /\ 0 \in Int
      BY AmountsAreIntegers
    <3>2. Receive(number, typed, 0, FALSE, 1, end)
      BY <2>5 DEF ReceiveRequest
    <3> QED BY <3>1, <3>2, ReceiveStep
  <2>6. ASSUME NEW number \in DOMAIN subs, NEW n \in DOMAIN subs[number].billings,
               \/ Reject(number, n)
               \/ \E cut \in Cuts : Approve(number, n, subs[number].billings[n].due - cut)
        PROVE  BillingsInvariant'
    BY <2>6, DecisionStep
  <2> QED BY <2>1, <2>2, <2>3, <2>4, <2>5, <2>6 DEF Next
<1> QED BY <1>1, <1>2, PTL DEF Spec

-----------------------------------------------------------------------------
(* The properties                                                           *)

\* In turn, what is approved up to a billing is what it leaves after retainage
\* at most, and exactly that when it is approved in full.
LEMMA PaidInTurn ==
    ASSUME BillingsInvariant, NEW number \in DOMAIN subs, DecidedInTurn(number),
           NEW n \in DOMAIN subs[number].billings,
           NEW last \in DOMAIN subs[number].billings, n <= last,
           subs[number].billings[n].status = "approved",
           \A m \in DOMAIN subs[number].billings :
              n < m /\ m <= last => subs[number].billings[m].status # "approved"
    PROVE  LET b == subs[number].billings[n]
               paid == ApprovedUpTo(subs[number].billings, last)
           IN  /\ paid \in Int /\ paid <= b.total - b.retained
               /\ b.approved = b.due => paid = b.total - b.retained
<1> DEFINE sub == subs[number]
           s == sub.billings
           b == s[n]
<1>1. /\ SubHolds(sub) /\ IsSequence(s) /\ DueFollows(b, sub) /\ InTurn(s, n)
      /\ \A m \in DOMAIN s : s[m].approved \in Int
  BY DEF BillingsInvariant, SubHolds, IsSub, DueFollows, IsBilling
<1>2. ~b.overtook
  BY DEF DecidedInTurn
<1>3. b.previous = ApprovedBefore(s, n)
  BY <1>1, <1>2 DEF InTurn
<1>4. ApprovedUpTo(s, last) = ApprovedBefore(s, n) + b.approved
  BY <1>1, PaidUpTo
<1>5. /\ b.due = b.total - b.retained - b.previous /\ b.approved <= b.due
      /\ b.total \in Int /\ b.retained \in Int /\ b.previous \in Int
      /\ b.due \in Int /\ b.approved \in Int
  BY <1>1 DEF DueFollows, IsBilling
<1> HIDE DEF b, s
<1>6. LET paid == ApprovedUpTo(s, last)
      IN  /\ paid \in Int /\ paid <= b.total - b.retained
          /\ b.approved = b.due => paid = b.total - b.retained
  BY <1>3, <1>4, <1>5
<1> QED BY <1>6 DEF b, s

\* A final billing approved in full and in turn pays out the work to date.
THEOREM FinalsSettle == Spec => []FinalBillingSettlesUp
<1>1. BillingsInvariant => FinalBillingSettlesUp
  <2> SUFFICES ASSUME BillingsInvariant, NEW number \in DOMAIN subs,
                      NEW n \in DOMAIN subs[number].billings, DecidedInTurn(number),
                      subs[number].billings[n].status = "approved",
                      subs[number].billings[n].retained = 0,
                      subs[number].billings[n].approved = subs[number].billings[n].due
               PROVE  ApprovedUpTo(subs[number].billings, n) = subs[number].billings[n].total
    BY DEF FinalBillingSettlesUp
  <2>1. n \in Int /\ subs[number].billings[n].total \in Int
    <3>1. /\ IsSequence(subs[number].billings)
          /\ subs[number].billings[n].total \in Int
      BY DEF BillingsInvariant, SubHolds, IsSub, DueFollows, IsBilling
    <3>2. DOMAIN subs[number].billings = 1..Len(subs[number].billings)
          /\ Len(subs[number].billings) \in Nat
      BY <3>1, SequenceFacts
    <3> QED BY <3>1, <3>2
  <2>2. n <= n /\ \A m \in DOMAIN subs[number].billings :
            n < m /\ m <= n => subs[number].billings[m].status # "approved"
    <3>1. DOMAIN subs[number].billings = 1..Len(subs[number].billings)
          /\ Len(subs[number].billings) \in Nat
      BY SequenceFacts DEF BillingsInvariant, SubHolds, IsSub
    <3> QED BY <2>1, <3>1
  <2>3. ApprovedUpTo(subs[number].billings, n)
            = subs[number].billings[n].total - subs[number].billings[n].retained
    BY <2>2, PaidInTurn
  <2> QED BY <2>1, <2>3
<1> QED BY <1>1, BillingsInvariantHolds, PTL

\* A rate of at most 100 % leaves no more than the value of the subcontract, of a
\* claim within it: of a negative one too, which the code does not exclude.
LEMMA LeavesNoMoreThanTheValue ==
    ASSUME NEW total \in Int, NEW value \in Int, value > 0, total <= value,
           NEW rate \in 0..BpScale, NEW retained \in {0, ApplyBp(total, rate)}
    PROVE  total - retained <= value
<1>1. rate \in Nat
  BY ScaleIsPositive
<1>2. CASE total >= 0
  <2>1. total \in Nat
    BY <1>2
  <2>2. ApplyBp(total, rate) \in Nat
    BY <1>1, <2>1, ApplyBpOfNats
  <2> QED BY <2>1, <2>2
<1>3. CASE total < 0
  <2> DEFINE owed == -total
  <2>1. owed \in Nat /\ total = -owed
    BY <1>3
  <2> HIDE DEF owed
  <2>2. 0 - ApplyBp(0, rate) <= owed - ApplyBp(owed, rate) /\ ApplyBp(0, rate) = 0
    BY <2>1, EarnedIsMonotone DEF ApplyBp
  <2>3. ApplyBp(owed, rate) \in Nat
    BY <1>1, <2>1, ApplyBpOfNats
  <2>4. ApplyBp(-owed, rate) = -ApplyBp(owed, rate)
    BY <1>1, <2>1, ApplyBpIsOdd
  <2> QED BY <1>3, <2>1, <2>2, <2>3, <2>4
<1> QED BY <1>2, <1>3

\* Retainage is a share of the claim.  (The forms do not check a rate.)
RatesAreShares == RetainageRates \subseteq 0..BpScale /\ PrimeRate \in 0..BpScale

\* Decided in turn, a subcontract pays neither more than its newest approved
\* billing leaves after retainage nor more than its value.
THEOREM PaysWhatIsEarned ==
    ASSUME RatesAreShares
    PROVE  Spec => []PaysNoMoreThanEarned
<1>1. BillingsInvariant => PaysNoMoreThanEarned
  <2> SUFFICES ASSUME BillingsInvariant, NEW number \in DOMAIN subs, DecidedInTurn(number)
               PROVE  /\ ApprovedToDate(number) <= subs[number].amount
                      /\ LET approved == {n \in DOMAIN subs[number].billings :
                                            subs[number].billings[n].status = "approved"}
                         IN  \A n \in approved :
                                (\A m \in approved : m <= n) =>
                                    ApprovedToDate(number)
                                      <= subs[number].billings[n].total
                                           - subs[number].billings[n].retained
    BY DEF PaysNoMoreThanEarned
  <2> DEFINE sub == subs[number]
             s == sub.billings
             approved == {n \in DOMAIN s : s[n].status = "approved"}
             last == Len(s)
  <2>1. SubHolds(sub) /\ IsSub(sub) /\ IsSequence(s)
    BY DEF BillingsInvariant, SubHolds, IsSub
  <2>2. Len(s) \in Nat /\ DOMAIN s = 1..Len(s)
    BY <2>1, SequenceFacts
  <2>3. ASSUME NEW n \in approved, \A m \in approved : m <= n
        PROVE  /\ ApprovedToDate(number) <= s[n].total - s[n].retained
               /\ ApprovedToDate(number) \in Int
    <3>1. n \in DOMAIN s /\ s[n].status = "approved" /\ last \in DOMAIN s /\ n <= last
      BY <2>2
    <3>2. \A m \in DOMAIN s : n < m /\ m <= last => s[m].status # "approved"
      BY <2>2, <2>3, <3>1
    <3>3. ApprovedToDate(number) = ApprovedUpTo(s, last)
      BY DEF ApprovedToDate
    <3> HIDE DEF approved
    <3> QED BY <3>1, <3>2, <3>3, PaidInTurn
  <2>4. ApprovedToDate(number) <= sub.amount
    <3>1. CASE approved = {}
      <4>1. {m \in 1..last : s[m].status = "approved"} = {}
        BY <2>2, <3>1
      <4> DEFINE f == [m \in {k \in 1..last : s[k].status = "approved"} |-> s[m].approved]
      <4>2. DOMAIN f = {}
        BY <4>1
      <4>3. ApprovedToDate(number) = SumOver(f)
        BY DEF ApprovedToDate, ApprovedUpTo
      <4> HIDE DEF f
      <4>4. SumOver(f) = 0
        BY <4>2, SumOverIs, SumOfNone
      <4> QED BY <2>1, <4>3, <4>4 DEF IsSub
    <3>2. CASE approved # {}
      <4>1. PICK n \in approved : \A m \in approved : m <= n
        <5>1. approved \in SUBSET (1..last) /\ IsFiniteSet(1..last)
          BY <2>2, FS_Interval
        <5>2. 1..last \subseteq Int
          OBVIOUS
        <5> HIDE DEF approved, last
        <5>3. IsFiniteSet(approved)
          BY <5>1, FS_Subset
        <5>4. approved \subseteq Int
          BY <5>1, <5>2
        <5> QED BY <3>2, <5>3, <5>4, LargestNumber
      <4>2. DueFollows(s[n], sub)
        BY <2>1 DEF SubHolds
      <4>3. /\ s[n].total \in Int /\ s[n].total <= sub.amount
            /\ s[n].retained \in {0, ApplyBp(s[n].total, sub.rate)} /\ s[n].retained \in Int
            /\ sub.amount \in Int /\ sub.amount > 0 /\ sub.rate \in 0..BpScale
        BY <2>1, <4>2 DEF DueFollows, IsBilling, IsSub, RatesAreShares
      <4>4. /\ ApprovedToDate(number) <= s[n].total - s[n].retained
            /\ ApprovedToDate(number) \in Int
        BY <2>3, <4>1
      <4> DEFINE total == s[n].total
                 retained == s[n].retained
                 value == sub.amount
                 rate == sub.rate
      <4>5. /\ total \in Int /\ value \in Int /\ value > 0 /\ total <= value
            /\ rate \in 0..BpScale /\ retained \in {0, ApplyBp(total, rate)} /\ retained \in Int
        BY <4>3
      <4> HIDE DEF total, retained, value, rate
      <4>6. total - retained <= value
        BY <4>5, LeavesNoMoreThanTheValue
      <4>7. ApprovedToDate(number) <= value
        BY <4>4, <4>5, <4>6 DEF total, retained
      <4> QED BY <4>7 DEF value
    <3> QED BY <3>1, <3>2
  <2> QED BY <2>3, <2>4
<1> QED BY <1>1, BillingsInvariantHolds, PTL

-----------------------------------------------------------------------------
(* Statutory: the inductive invariant                                       *)

\* A form on file is of the seed data, and one that prescribes a wording counts
\* as verified only with a text somebody entered for it.
AreForms(fs, texts) ==
    /\ DOMAIN fs \subseteq DOMAIN texts
    /\ \A f \in DOMAIN fs :
          fs[f].verified /\ IsStatutory(f) => fs[f].body \in texts[f]

\* A verified rule has a number of days, counted one way or the other.
AreRules(ks) ==
    \A k \in DOMAIN ks :
        /\ ks[k] = [days |-> ks[k].days, basis |-> ks[k].basis, verified |-> ks[k].verified]
        /\ ks[k].verified \in BOOLEAN
        /\ ks[k].basis \in {"calendar", "business"}
        /\ ks[k].verified => ks[k].days \in Nat

\* The forms that bind a waiver, among those on file when it was asked for.
BindingForms(w) ==
    {f \in w.known : /\ f.state = w.project.state /\ f.type = w.type
                     /\ f.effective <= w.on
                     /\ f.residentialOnly => w.project.residential}

\* What PrescribedWordingOnly says of one waiver.
ReadsAsPrescribed(w, texts) ==
    /\ \A f \in BindingForms(w) :
          /\ w.form \in BindingForms(w)
          /\ f.effective <= w.form.effective
          /\ w.body.text \in texts[w.form]
    /\ BindingForms(w) = {} => w.form.state = General

\* No waiver is bound by a form outside the seed data.
AreWaivers(ws, texts) ==
    /\ IsSequence(ws)
    /\ \A n \in DOMAIN ws :
          /\ ws[n].known \subseteq DOMAIN texts
          /\ ReadsAsPrescribed(ws[n], texts)
          /\ ws[n].project \in Projects

ContentInvariant ==
    /\ edition \in 1..Len(Editions)
    /\ DOMAIN entered = UNION {Editions[e] : e \in DOMAIN Editions}
    /\ entered = [f \in DOMAIN entered |-> entered[f]]
    /\ AreForms(forms, entered)
    /\ AreRules(rules)
    /\ AreWaivers(waivers, entered)
    /\ furnished \in [Projects -> Dates \cup {None}]

-----------------------------------------------------------------------------
(* Waivers                                                                  *)

\* Each form keeps the texts that were entered for it, and may get more.
Grow(before, after) ==
    /\ DOMAIN after = DOMAIN before
    /\ \A f \in DOMAIN before : before[f] \subseteq after[f]

\* Verifying later changes nothing about the waivers on file.
LEMMA WaiversOutlastTexts ==
    ASSUME NEW ws, NEW texts, NEW more, AreWaivers(ws, texts), Grow(texts, more)
    PROVE  AreWaivers(ws, more)
<1> SUFFICES ASSUME NEW n \in DOMAIN ws PROVE ReadsAsPrescribed(ws[n], more)
  BY DEF AreWaivers, Grow
<1>1. ReadsAsPrescribed(ws[n], texts) /\ ws[n].known \subseteq DOMAIN texts
  BY DEF AreWaivers
<1>2. BindingForms(ws[n]) \subseteq DOMAIN texts
  BY <1>1 DEF BindingForms
<1> QED BY <1>1, <1>2 DEF ReadsAsPrescribed, Grow

\* A waiver that is asked for reads as its state prescribes (template_for and
\* render_body).
LEMMA RequestedAsPrescribed ==
    ASSUME NEW p \in Projects, NEW type, NEW on, AreForms(forms, entered),
           NEW f \in TemplateFor(p, type, on), NEW body \in RenderBody(f, on)
    PROVE  LET w == Requested(p, type, on, f, body)
           IN  /\ w.known \subseteq DOMAIN entered /\ w.project \in Projects
               /\ ReadsAsPrescribed(w, entered)
<1> DEFINE w == Requested(p, type, on, f, body)
<1> SUFFICES /\ w.known \subseteq DOMAIN entered /\ w.project \in Projects
             /\ ReadsAsPrescribed(w, entered)
  OBVIOUS
<1>1. /\ w.known = DOMAIN forms /\ w.project = p /\ w.form = f /\ w.body = body
      /\ w.type = type /\ w.on = on
  BY DEF Requested
<1>2. BindingForms(w) = Prescribed(p, type, on)
  BY <1>1 DEF BindingForms, Prescribed, InForce, Covers
<1> HIDE DEF w
<1>3. p.state # General
  BY CalendarIsNumbered DEF CalendarIsNumbered
<1>4. CASE Prescribed(p, type, on) # {}
  <2>1. /\ f \in Prescribed(p, type, on)
        /\ \A g \in Prescribed(p, type, on) : g.effective <= f.effective
    BY <1>4 DEF TemplateFor, Newest
  <2>2. f \in DOMAIN forms /\ IsStatutory(f)
    BY <1>3, <2>1 DEF Prescribed, InForce, IsStatutory
  <2>3. IsUsable(f) /\ body.text = forms[f].body
    BY DEF RenderBody
  <2>4. body.text \in entered[f]
    BY <2>2, <2>3 DEF IsUsable, AreForms
  <2> QED BY <1>1, <1>2, <1>4, <2>1, <2>4 DEF ReadsAsPrescribed, AreForms
<1>5. CASE Prescribed(p, type, on) = {}
  <2>1. f.state = General
    BY <1>5 DEF TemplateFor, Newest
  <2> QED BY <1>1, <1>2, <1>5, <2>1 DEF ReadsAsPrescribed, AreForms
<1> QED BY <1>4, <1>5

-----------------------------------------------------------------------------
(* The invariant is inductive                                               *)

\* A new organization has no content.
LEMMA ContentAtFirst == StatutoryInit => ContentInvariant
<1> SUFFICES ASSUME StatutoryInit PROVE ContentInvariant
  OBVIOUS
<1>1. IsSequence(waivers) /\ DOMAIN waivers = {}
  BY DEF StatutoryInit, IsSequence
<1>2. DOMAIN forms = {} /\ DOMAIN rules = {}
  BY DEF StatutoryInit
<1>3. edition \in 1..Len(Editions)
  BY CalendarIsNumbered DEF StatutoryInit, CalendarIsNumbered
<1> QED BY <1>1, <1>2, <1>3 DEF StatutoryInit, ContentInvariant, AreForms, AreRules, AreWaivers

\* Seeding adds only unverified forms of the release that is installed.
LEMMA SeedKeeps ==
    ASSUME ContentInvariant, Seed
    PROVE  ContentInvariant'
<1>1. Missing \subseteq DOMAIN entered
  BY CalendarIsNumbered DEF ContentInvariant, CalendarIsNumbered, Missing
<1>2. AreForms(forms, entered)'
  <2> SUFFICES ASSUME NEW f \in DOMAIN forms'
               PROVE  /\ f \in DOMAIN entered'
                      /\ forms'[f].verified /\ IsStatutory(f) => forms'[f].body \in entered'[f]
    BY DEF AreForms
  <2>1. CASE f \in DOMAIN forms
    BY <2>1 DEF Seed, ContentInvariant, AreForms
  <2>2. CASE f \notin DOMAIN forms
    BY <1>1, <2>2 DEF Seed, SeededForm
  <2> QED BY <2>1, <2>2
<1>3. AreRules(rules)'
  <2> SUFFICES ASSUME NEW k \in RuleKeys
               PROVE  /\ rules'[k] = [days |-> rules'[k].days, basis |-> rules'[k].basis,
                                      verified |-> rules'[k].verified]
                      /\ rules'[k].verified \in BOOLEAN
                      /\ rules'[k].basis \in {"calendar", "business"}
                      /\ rules'[k].verified => rules'[k].days \in Nat
    BY DEF AreRules, Seed
  <2>1. CASE k \in DOMAIN rules
    BY <2>1 DEF Seed, ContentInvariant, AreRules
  <2>2. CASE k \notin DOMAIN rules
    BY <2>2 DEF Seed, SeededRule
  <2> QED BY <2>1, <2>2
<1> QED BY <1>2, <1>3 DEF ContentInvariant, Seed, AreWaivers, AreRules

\* Rules change to verified rows with a number that may be one.
LEMMA VerifiedRuleIsRule ==
    ASSUME NEW days \in DayCounts, MayVerifyRule(days), NEW basis \in {"calendar", "business"}
    PROVE  LET row == WithDays(days, basis)
           IN  /\ row = [days |-> row.days, basis |-> row.basis, verified |-> row.verified]
               /\ row.verified \in BOOLEAN
               /\ row.basis \in {"calendar", "business"}
               /\ row.verified => row.days \in Nat
<1>1. days \in Nat
  BY CalendarIsNumbered DEF CalendarIsNumbered, MayVerifyRule
<1> QED BY <1>1 DEF WithDays

\* verify_template notes the text it writes.
LEMMA VerifyFormKeeps ==
    ASSUME ContentInvariant, NEW f \in DOMAIN forms, NEW text, VerifyForm(f, text)
    PROVE  ContentInvariant'
<1>1. f \in DOMAIN entered
  BY DEF ContentInvariant, AreForms
<1>2. /\ DOMAIN entered' = DOMAIN entered /\ entered'[f] = entered[f] \cup {text}
      /\ \A g \in DOMAIN entered : g # f => entered'[g] = entered[g]
      /\ entered' = [g \in DOMAIN entered' |-> entered'[g]]
  BY <1>1 DEF VerifyForm, ContentInvariant
<1>3. /\ DOMAIN forms' = DOMAIN forms /\ forms'[f] = WithText(text)
      /\ \A g \in DOMAIN forms : g # f => forms'[g] = forms[g]
  BY DEF VerifyForm
<1>4. AreForms(forms, entered)'
  BY <1>2, <1>3 DEF ContentInvariant, AreForms, WithText
<1>5. AreWaivers(waivers, entered)'
  <2>1. Grow(entered, entered')
    BY <1>2 DEF Grow
  <2>2. AreWaivers(waivers, entered')
    BY <2>1, WaiversOutlastTexts DEF ContentInvariant
  <2> QED BY <2>2 DEF VerifyForm
<1> QED BY <1>2, <1>4, <1>5 DEF ContentInvariant, VerifyForm

\* verify_rule refuses a negative number.
LEMMA VerifyRuleKeeps ==
    ASSUME ContentInvariant, NEW k \in DOMAIN rules, NEW days \in DayCounts,
           NEW basis \in {"calendar", "business"}, VerifyRule(k, days, basis)
    PROVE  ContentInvariant'
<1>1. /\ DOMAIN rules' = DOMAIN rules /\ rules'[k] = WithDays(days, basis)
      /\ \A j \in DOMAIN rules : j # k => rules'[j] = rules[j]
  BY DEF VerifyRule
<1>2. AreRules(rules)'
  <2>1. MayVerifyRule(days)
    BY DEF VerifyRule
  <2> QED BY <1>1, <2>1, VerifiedRuleIsRule DEF ContentInvariant, AreRules
<1> QED BY <1>2 DEF ContentInvariant, VerifyRule

\* A worksheet, however old, writes and notes the texts of its rows alike.
LEMMA ImportKeeps ==
    ASSUME ContentInvariant, NEW rows, NEW text, NEW days \in DayCounts,
           Import(rows, text, days)
    PROVE  ContentInvariant'
<1> DEFINE fs == rows \cap DOMAIN forms
           ks == {k \in rows \cap DOMAIN rules : MayVerifyRule(days)}
<1>1. /\ forms' = [f \in DOMAIN forms |-> IF f \in fs THEN WithText(text) ELSE forms[f]]
      /\ entered' = [f \in DOMAIN entered |->
                       IF f \in fs THEN entered[f] \cup {text} ELSE entered[f]]
      /\ rules' = [k \in DOMAIN rules |->
                     IF k \in ks THEN WithDays(days, rules[k].basis) ELSE rules[k]]
      /\ UNCHANGED <<edition, waivers, furnished>>
  BY DEF Import, ImportRows
<1>2. AreForms(forms, entered)'
  BY <1>1 DEF ContentInvariant, AreForms, WithText
<1>3. AreRules(rules)'
  <2> SUFFICES ASSUME NEW k \in DOMAIN rules
               PROVE  /\ rules'[k] = [days |-> rules'[k].days, basis |-> rules'[k].basis,
                                      verified |-> rules'[k].verified]
                      /\ rules'[k].verified \in BOOLEAN
                      /\ rules'[k].basis \in {"calendar", "business"}
                      /\ rules'[k].verified => rules'[k].days \in Nat
    BY <1>1 DEF AreRules
  <2>1. CASE k \in ks
    <3>1. rules[k].basis \in {"calendar", "business"} /\ MayVerifyRule(days)
      BY <2>1 DEF ContentInvariant, AreRules
    <3>2. rules'[k] = WithDays(days, rules[k].basis)
      BY <1>1, <2>1
    <3> QED BY <3>1, <3>2, VerifiedRuleIsRule
  <2>2. CASE k \notin ks
    BY <1>1, <2>2 DEF ContentInvariant, AreRules
  <2> QED BY <2>1, <2>2
<1>4. AreWaivers(waivers, entered)'
  <2>1. Grow(entered, entered')
    BY <1>1 DEF Grow
  <2>2. AreWaivers(waivers, entered')
    BY <2>1, WaiversOutlastTexts DEF ContentInvariant
  <2> QED BY <1>1, <2>2
<1> QED BY <1>1, <1>2, <1>3, <1>4 DEF ContentInvariant

\* request stores a waiver that reads as prescribed.
LEMMA RequestKeeps ==
    ASSUME ContentInvariant, NEW p \in Projects, NEW type, NEW on, Request(p, type, on)
    PROVE  ContentInvariant'
<1>1. PICK f \in TemplateFor(p, type, on) : \E body \in RenderBody(f, on) :
          waivers' = Append(waivers, Requested(p, type, on, f, body))
  BY DEF Request
<1>2. PICK body \in RenderBody(f, on) :
          waivers' = Append(waivers, Requested(p, type, on, f, body))
  BY <1>1
<1> DEFINE w == Requested(p, type, on, f, body)
<1>3. w.known \subseteq DOMAIN entered /\ w.project \in Projects /\ ReadsAsPrescribed(w, entered)
  BY RequestedAsPrescribed DEF ContentInvariant
<1> HIDE DEF w
<1>4. Extends(waivers', waivers, w)
  BY <1>2, AppendedElement DEF ContentInvariant, AreWaivers, w
<1>5. UNCHANGED <<edition, forms, rules, entered, furnished>>
  BY DEF Request, content
<1>6. AreWaivers(waivers, entered)'
  BY <1>3, <1>4, <1>5 DEF ContentInvariant, AreWaivers, Extends
<1> QED BY <1>5, <1>6 DEF ContentInvariant

\* Signing and notarizing leave what the waiver says as it is.
LEMMA SignKeeps ==
    ASSUME ContentInvariant, NEW n \in DOMAIN waivers, Sign(n) \/ Notarize(n)
    PROVE  ContentInvariant'
<1>1. PICK w : /\ waivers' = [waivers EXCEPT ![n] = w]
               /\ w.known = waivers[n].known /\ w.project = waivers[n].project
               /\ w.type = waivers[n].type /\ w.on = waivers[n].on
               /\ w.form = waivers[n].form /\ w.body = waivers[n].body
  <2>1. CASE Sign(n)
    <3> DEFINE w == Signed(waivers[n])
    <3>1. waivers' = [waivers EXCEPT ![n] = w]
      BY <2>1 DEF Sign
    <3>2. /\ w.known = waivers[n].known /\ w.project = waivers[n].project
          /\ w.type = waivers[n].type /\ w.on = waivers[n].on
          /\ w.form = waivers[n].form /\ w.body = waivers[n].body
      BY DEF Signed
    <3> QED BY <3>1, <3>2
  <2>2. CASE Notarize(n)
    <3> DEFINE w == [waivers[n] EXCEPT !.status = "notarized"]
    <3>1. waivers' = [waivers EXCEPT ![n] = w]
      BY <2>2 DEF Notarize
    <3>2. /\ w.known = waivers[n].known /\ w.project = waivers[n].project
          /\ w.type = waivers[n].type /\ w.on = waivers[n].on
          /\ w.form = waivers[n].form /\ w.body = waivers[n].body
      OBVIOUS
    <3> QED BY <3>1, <3>2
  <2> QED BY <2>1, <2>2
<1>2. Replaces(waivers', waivers, n, w)
  BY <1>1, ReplacedElement DEF ContentInvariant, AreWaivers
<1>3. UNCHANGED <<edition, forms, rules, entered, furnished>>
  BY DEF Sign, Notarize, content
<1>4. BindingForms(w) = BindingForms(waivers[n])
  BY <1>1 DEF BindingForms
<1>5. ReadsAsPrescribed(w, entered)
  BY <1>1, <1>4 DEF ContentInvariant, AreWaivers, ReadsAsPrescribed
<1>6. AreWaivers(waivers, entered)'
  BY <1>1, <1>2, <1>3, <1>5 DEF ContentInvariant, AreWaivers, Replaces
<1> QED BY <1>3, <1>6 DEF ContentInvariant

\* Every step of the organization keeps the invariant.
LEMMA ContentStep == ContentInvariant /\ [StatutoryNext]_statutoryVars => ContentInvariant'
<1> SUFFICES ASSUME ContentInvariant, [StatutoryNext]_statutoryVars PROVE ContentInvariant'
  OBVIOUS
<1>1. CASE Upgrade
  <2>1. edition' \in 1..Len(Editions)
    BY <1>1, CalendarIsNumbered DEF Upgrade, ContentInvariant, CalendarIsNumbered
  <2> QED BY <1>1, <2>1 DEF Upgrade, ContentInvariant
<1>2. CASE Seed
  BY <1>2, SeedKeeps
<1>3. CASE \E f \in DOMAIN forms, text \in Texts : VerifyForm(f, text)
  BY <1>3, VerifyFormKeeps
<1>4. CASE \E k \in DOMAIN rules, days \in DayCounts, basis \in {"calendar", "business"} :
             VerifyRule(k, days, basis)
  BY <1>4, VerifyRuleKeeps
<1>5. CASE Export
  BY <1>5 DEF Export, ContentInvariant
<1>6. CASE \E rows \in SUBSET worksheet, text \in Texts, days \in DayCounts :
             Import(rows, text, days)
  BY <1>6, ImportKeeps
<1>7. ASSUME NEW p \in Projects, NEW type \in WaiverTypes, NEW on \in Dates,
             Request(p, type, on)
      PROVE  ContentInvariant'
  BY <1>7, RequestKeeps
<1>8. ASSUME NEW p \in Projects, NEW date \in Dates, RecordDate(p, date)
      PROVE  ContentInvariant'
  BY <1>8 DEF RecordDate, ContentInvariant
<1>9. CASE \E n \in DOMAIN waivers : Sign(n) \/ Notarize(n)
  BY <1>9, SignKeeps
<1>10. CASE UNCHANGED statutoryVars
  BY <1>10 DEF statutoryVars, content, ContentInvariant
<1> QED
  BY <1>1, <1>2, <1>3, <1>4, <1>5, <1>6, <1>7, <1>8, <1>9, <1>10 DEF StatutoryNext

\* Whatever is seeded, verified, imported or signed, and in whatever order, the
\* waivers and the rules of an organization keep this invariant.
THEOREM ContentInvariantHolds == StatutorySpec => []ContentInvariant
BY ContentAtFirst, ContentStep, PTL DEF StatutorySpec

\* No waiver reads other than its state prescribed when it was asked for.
THEOREM WaiversReadAsPrescribed == StatutorySpec => []PrescribedWordingOnly
<1>1. ContentInvariant => PrescribedWordingOnly
  <2> SUFFICES ASSUME ContentInvariant, NEW n \in DOMAIN waivers
               PROVE  ReadsAsPrescribed(waivers[n], entered)
    BY DEF PrescribedWordingOnly, ReadsAsPrescribed, BindingForms
  <2> QED BY DEF ContentInvariant, AreWaivers
<1> QED BY <1>1, ContentInvariantHolds, PTL

-----------------------------------------------------------------------------
(* Counting days                                                            *)

\* The first weekday after a day, and n weekdays after it as a function of n.
WeekdayAfter(d) ==
    CHOOSE w \in d + 1..d + 3 : IsWeekday(w) /\ \A e \in d + 1..w - 1 : ~IsWeekday(e)

Moves(g, start, n) ==
    g = [k \in 0..n |-> IF k = 0 THEN start ELSE WeekdayAfter(g[k - 1])]

\* After any day there is a weekday within three.
LEMMA WeekdayFollows ==
    ASSUME NEW d \in Nat
    PROVE  /\ WeekdayAfter(d) \in d + 1..d + 3
           /\ IsWeekday(WeekdayAfter(d))
           /\ \A e \in d + 1..WeekdayAfter(d) - 1 : ~IsWeekday(e)
<1> DEFINE First(w) == IsWeekday(w) /\ \A e \in d + 1..w - 1 : ~IsWeekday(e)
<1>1. \E w \in d + 1..d + 3 : First(w)
  <2>1. CASE IsWeekday(d + 1)
    BY <2>1
  <2>2. CASE ~IsWeekday(d + 1) /\ IsWeekday(d + 2)
    <3>1. \A e \in d + 1..(d + 2) - 1 : e = d + 1
      OBVIOUS
    <3> QED BY <2>2, <3>1
  <2>3. CASE ~IsWeekday(d + 1) /\ ~IsWeekday(d + 2)
    <3>1. \A e \in d + 1..(d + 3) - 1 : e = d + 1 \/ e = d + 2
      OBVIOUS
    <3>2. IsWeekday(d + 3)
      BY <2>3 DEF IsWeekday
    <3> QED BY <2>3, <3>1, <3>2
  <2> QED BY <2>1, <2>2, <2>3
<1>2. First(WeekdayAfter(d)) /\ WeekdayAfter(d) \in d + 1..d + 3
  BY <1>1 DEF WeekdayAfter
<1> QED BY <1>2

\* The recursive definition of add_days denotes a function.
LEMMA MovesExist ==
    ASSUME NEW start, NEW days \in Nat
    PROVE  \E g : Moves(g, start, days)
<1> DEFINE N == {n \in Nat : \E g : Moves(g, start, n)}
<1>1. 0 \in N
  <2> DEFINE g == [k \in 0..0 |-> start]
  <2>1. \A k \in 0..0 : k = 0
    OBVIOUS
  <2>2. Moves(g, start, 0)
    BY <2>1 DEF Moves
  <2> QED BY <2>2
<1>2. ASSUME NEW n \in Nat, n \in N PROVE n + 1 \in N
  <2>1. PICK g : Moves(g, start, n)
    BY <1>2
  <2> DEFINE h == [k \in 0..(n + 1) |-> IF k <= n THEN g[k] ELSE WeekdayAfter(g[n])]
  <2>2. ASSUME NEW k \in 0..(n + 1)
        PROVE  h[k] = IF k = 0 THEN start ELSE WeekdayAfter(h[k - 1])
    <3>1. CASE k = n + 1
      <4>1. n \in 0..(n + 1) /\ k # 0 /\ k - 1 = n /\ ~(k <= n)
        BY <3>1
      <4> QED BY <4>1
    <3>2. CASE k # n + 1
      <4>1. k \in 0..n /\ k <= n
        BY <3>2
      <4>2. g[k] = IF k = 0 THEN start ELSE WeekdayAfter(g[k - 1])
        BY <2>1, <4>1 DEF Moves
      <4>3. k # 0 => k - 1 \in 0..(n + 1) /\ k - 1 <= n
        BY <4>1
      <4> QED BY <4>1, <4>2, <4>3
    <3> QED BY <3>1, <3>2
  <2>3. Moves(h, start, n + 1)
    BY <2>2 DEF Moves
  <2> QED BY <2>3
<1> HIDE DEF N
<1>3. days \in N
  BY <1>1, <1>2, NumberInduction
<1> QED BY <1>3 DEF N

\* The weekdays after a day, up to another one.
WeekdaysPassed(start, d) == {e \in start + 1..d : IsWeekday(e)}

\* n steps from weekday to weekday pass n weekdays.
LEMMA MovesCount ==
    ASSUME NEW start \in Nat, NEW days \in Nat, NEW g, Moves(g, start, days)
    PROVE  /\ g[days] \in Nat /\ start <= g[days]
           /\ Cardinality(WeekdaysPassed(start, g[days])) = days
           /\ g[days] # start => g[days] \in WeekdaysPassed(start, g[days])
<1> DEFINE Counted(n) == /\ g[n] \in Nat /\ start <= g[n]
                         /\ Cardinality(WeekdaysPassed(start, g[n])) = n
                         /\ g[n] # start => g[n] \in WeekdaysPassed(start, g[n])
           N == {n \in Nat : n <= days => Counted(n)}
<1>1. 0 \in N
  <2>1. g[0] = start
    BY DEF Moves
  <2>2. WeekdaysPassed(start, start) = {}
    BY DEF WeekdaysPassed
  <2>3. Cardinality({}) = 0
    BY FS_EmptySet
  <2> QED BY <2>1, <2>2, <2>3
<1>2. ASSUME NEW n \in Nat, n \in N PROVE n + 1 \in N
  <2> SUFFICES ASSUME n + 1 <= days PROVE Counted(n + 1)
    OBVIOUS
  <2> DEFINE w == WeekdayAfter(g[n])
  <2>1. Counted(n)
    BY <1>2
  <2>2. g[n + 1] = w
    <3>1. n + 1 \in 0..days /\ n + 1 # 0 /\ (n + 1) - 1 = n
      OBVIOUS
    <3> QED BY <3>1 DEF Moves
  <2> HIDE DEF Counted
  <2>3. g[n] \in Nat /\ start <= g[n]
    BY <2>1 DEF Counted
  <2>4. /\ w \in g[n] + 1..g[n] + 3 /\ IsWeekday(w)
        /\ \A e \in g[n] + 1..w - 1 : ~IsWeekday(e)
    BY <2>3, WeekdayFollows
  <2> HIDE DEF w
  <2>5. WeekdaysPassed(start, w) = WeekdaysPassed(start, g[n]) \cup {w}
    <3>1. \A e \in start + 1..w : e \in start + 1..g[n] \/ e \in g[n] + 1..w - 1 \/ e = w
      BY <2>3, <2>4
    <3>2. start + 1..g[n] \subseteq start + 1..w /\ w \in start + 1..w
      BY <2>3, <2>4
    <3> QED BY <2>4, <3>1, <3>2 DEF WeekdaysPassed
  <2>6. w \notin WeekdaysPassed(start, g[n])
    BY <2>3, <2>4 DEF WeekdaysPassed
  <2>7. IsFiniteSet(WeekdaysPassed(start, g[n]))
    <3>1. \A a, b \in Int : IsFiniteSet(a..b)
      BY FS_Interval
    <3>2. WeekdaysPassed(start, g[n]) \subseteq start + 1..g[n]
      BY DEF WeekdaysPassed
    <3>3. start + 1 \in Int /\ g[n] \in Int
      BY <2>3
    <3> QED BY <3>1, <3>2, <3>3, FS_Subset
  <2>8. Cardinality(WeekdaysPassed(start, w)) = n + 1
    <3>1. Cardinality(WeekdaysPassed(start, g[n])) = n
      BY <2>1 DEF Counted
    <3> QED BY <2>5, <2>6, <2>7, <3>1, FS_AddElement
  <2>9. w \in Nat /\ start <= w /\ w \in WeekdaysPassed(start, w)
    BY <2>3, <2>4, <2>5
  <2> QED BY <2>2, <2>8, <2>9 DEF Counted
<1> HIDE DEF N
<1>3. days \in N
  BY <1>1, <1>2, NumberInduction
<1> QED BY <1>3 DEF N

\* A date lies that many days of a kind after another one, and is such a day.
LiesAfter(due, start, days, basis) ==
    LET passed == {d \in start + 1..due : basis = "business" => IsWeekday(d)}
    IN  /\ Cardinality(passed) = days
        /\ due # start => due \in passed

\* add_days passes as many days of the rule's kind as the rule says, and ends
\* on such a day.
LEMMA AddDaysCounts ==
    ASSUME NEW start \in Nat, NEW days \in Nat, NEW basis \in {"calendar", "business"}
    PROVE  /\ AddDays(start, days, basis) \in Nat
           /\ LiesAfter(AddDays(start, days, basis), start, days, basis)
<1>1. CASE basis = "calendar"
  <2>1. AddDays(start, days, basis) = start + days
    BY <1>1 DEF AddDays
  <2>2. {d \in start + 1..start + days : basis = "business" => IsWeekday(d)}
            = start + 1..start + days
    BY <1>1
  <2>3. Cardinality(start + 1..start + days) = days
    <3>1. CASE days = 0
      <4>1. start + 1..start + days = {}
        BY <3>1
      <4> QED BY <3>1, <4>1, FS_EmptySet
    <3>2. CASE days # 0
      <4>1. Cardinality(start + 1..start + days) = (start + days) - (start + 1) + 1
        BY <3>2, FS_Interval
      <4> QED BY <4>1
    <3> QED BY <3>1, <3>2
  <2>4. start + days \in Nat /\ (start + days # start => start + days \in start + 1..start + days)
    OBVIOUS
  <2> QED BY <2>1, <2>2, <2>3, <2>4 DEF LiesAfter
<1>2. CASE basis = "business"
  <2> DEFINE g == CHOOSE h : Moves(h, start, days)
  <2>1. AddDays(start, days, basis) = g[days]
    BY <1>2 DEF AddDays, Moves, WeekdayAfter
  <2>2. Moves(g, start, days)
    BY MovesExist
  <2> HIDE DEF g
  <2>3. /\ g[days] \in Nat
        /\ Cardinality(WeekdaysPassed(start, g[days])) = days
        /\ g[days] # start => g[days] \in WeekdaysPassed(start, g[days])
    BY <2>2, MovesCount
  <2>4. {d \in start + 1..g[days] : basis = "business" => IsWeekday(d)}
            = WeekdaysPassed(start, g[days])
    BY <1>2 DEF WeekdaysPassed
  <2> QED BY <2>1, <2>3, <2>4 DEF LiesAfter
<1> QED BY <1>1, <1>2

-----------------------------------------------------------------------------
(* Deadlines                                                                *)

\* A date that is shown was counted from a verified number of days.
LEMMA DueIsCounted ==
    ASSUME ContentInvariant, NEW p \in Projects, NEW k \in DOMAIN rules,
           Obligation(p, k).due # None
    PROVE  /\ rules[k].verified
           /\ Obligation(p, k).due \in Nat
           /\ LiesAfter(Obligation(p, k).due, furnished[p], rules[k].days, rules[k].basis)
<1>1. /\ RuleIsUsable(k) /\ furnished[p] # None
      /\ Obligation(p, k).due = AddDays(furnished[p], rules[k].days, rules[k].basis)
  BY DEF Obligation
<1>2. rules[k].verified /\ rules[k].days \in Nat /\ rules[k].basis \in {"calendar", "business"}
  BY <1>1 DEF ContentInvariant, AreRules, RuleIsUsable
<1>3. furnished[p] \in Nat
  BY <1>1, CalendarIsNumbered DEF ContentInvariant, CalendarIsNumbered
<1> QED BY <1>1, <1>2, <1>3, AddDaysCounts

\* Every date shown lies as many days after the recorded date as were entered.
THEOREM DatesAreCounted == StatutorySpec => []DueDatesAreCounted
<1>1. ContentInvariant => DueDatesAreCounted
  <2> SUFFICES ASSUME ContentInvariant, NEW p \in Projects, NEW k \in DOMAIN rules,
                      k.state = p.state
               PROVE  \E o \in Compute(p, k.role) :
                        /\ o.rule = k
                        /\ o.due # None =>
                            LET passed == {d \in (furnished[p] + 1)..o.due :
                                             rules[k].basis = "business" => IsWeekday(d)}
                            IN  /\ rules[k].verified
                                /\ Cardinality(passed) = rules[k].days
                                /\ o.due # furnished[p] => o.due \in passed
    BY DEF DueDatesAreCounted
  <2> DEFINE o == Obligation(p, k)
  <2>1. o \in Compute(p, k.role) /\ o.rule = k
    BY DEF Compute, Obligation
  <2> HIDE DEF o
  <2>2. CASE o.due = None
    BY <2>1, <2>2
  <2>3. CASE o.due # None
    <3>1. rules[k].verified /\ LiesAfter(o.due, furnished[p], rules[k].days, rules[k].basis)
      BY <2>3, DueIsCounted DEF o
    <3> QED BY <2>1, <3>1 DEF LiesAfter
  <2> QED BY <2>2, <2>3
<1> QED BY <1>1, ContentInvariantHolds, PTL

\* What the tie-out of a period that ends on a day says of one obligation.
Says(o, end, warning) ==
    IF RuleIsUsable(o.rule)
    THEN /\ o.due # None
         /\ \/ warning = "passed" /\ DaysRemaining(o, end) < 0
            \/ warning = "near" /\ ~(DaysRemaining(o, end) < 0) /\ IsUrgent(o, end)
    ELSE warning = "unverified"

\* The findings of a period, obligation by obligation.
LEMMA FindingsAre ==
    ASSUME ContentInvariant, NEW p \in Projects, NEW end
    PROVE  \A k, warning : <<k, warning>> \in DeadlineFindings(p, end) <=>
              \E o \in Compute(p, "general_contractor") : o.rule = k /\ Says(o, end, warning)
<1> DEFINE obligations == Compute(p, "general_contractor")
<1>1. ASSUME NEW o \in obligations PROVE o.due # None => RuleIsUsable(o.rule)
  BY DEF Compute, Obligation
<1> HIDE DEF obligations
<1> SUFFICES ASSUME NEW k, NEW warning
             PROVE  <<k, warning>> \in DeadlineFindings(p, end) <=>
                      \E o \in obligations : o.rule = k /\ Says(o, end, warning)
  BY DEF obligations
<1>2. <<k, warning>> \in DeadlineFindings(p, end) <=>
        \E o \in obligations :
           /\ o.rule = k
           /\ \/ ~RuleIsUsable(o.rule) /\ warning = "unverified"
              \/ o.due # None /\ DaysRemaining(o, end) < 0 /\ warning = "passed"
              \/ o.due # None /\ ~(DaysRemaining(o, end) < 0) /\ IsUrgent(o, end)
                    /\ warning = "near"
  BY DEF DeadlineFindings, obligations
<1> QED BY <1>1, <1>2 DEF Says

\* As the periods go by, one obligation keeps its warning or comes closer, and
\* it is not passed before it was near.
LEMMA WarningsComeCloser ==
    ASSUME ContentInvariant, NEW p \in Projects, NEW e \in PeriodEnds, NEW f \in PeriodEnds,
           e < f, NEW o \in Compute(p, "general_contractor")
    PROVE  /\ Says(o, e, "unverified") => Says(o, f, "unverified")
           /\ Says(o, e, "passed") => Says(o, f, "passed")
           /\ Says(o, e, "near") => Says(o, f, "near") \/ Says(o, f, "passed")
           /\ f - e <= WarnWithin + 1 /\ Says(o, f, "passed") =>
                 Says(o, e, "near") \/ Says(o, e, "passed")
<1>1. e \in Nat /\ f \in Nat /\ WarnWithin \in Nat
  BY CalendarIsNumbered DEF CalendarIsNumbered
<1>2. PICK k \in DOMAIN rules : o = Obligation(p, k)
  BY DEF Compute
<1>3. o.rule = k
  BY <1>2 DEF Obligation
<1>4. CASE o.due = None
  BY <1>3, <1>4 DEF Says
<1>5. CASE o.due # None
  <2>1. o.due \in Nat
    BY <1>2, <1>5, DueIsCounted
  <2> QED BY <1>1, <2>1 DEF Says, DaysRemaining, IsUrgent
<1> QED BY <1>4, <1>5

\* The warning of a deadline never lapses as the billing periods go by.
THEOREM WarningsStay == StatutorySpec => []DeadlineWarningsNeverLapse
<1>1. ContentInvariant => DeadlineWarningsNeverLapse
  <2> SUFFICES ASSUME ContentInvariant, NEW p \in Projects,
                      NEW e \in PeriodEnds, NEW f \in {x \in PeriodEnds : e < x}
               PROVE  LET before == DeadlineFindings(p, e)
                          after == DeadlineFindings(p, f)
                          warns(findings) == {x[1] : x \in findings}
                      IN  /\ warns(before) \subseteq warns(after)
                          /\ {x \in before : x[2] # "near"} \subseteq after
                          /\ f - e <= WarnWithin + 1 =>
                                warns({y \in after : y[2] = "passed"}) \subseteq warns(before)
                          /\ \A k \in UnverifiedRules :
                                k.state = p.state /\ k.role = "general_contractor" =>
                                    <<k, "unverified">> \in before
    BY DEF DeadlineWarningsNeverLapse
  <2> DEFINE before == DeadlineFindings(p, e)
             after == DeadlineFindings(p, f)
             obligations == Compute(p, "general_contractor")
  <2>1. \A x \in before : x = <<x[1], x[2]>> /\ x[2] \in {"unverified", "passed", "near"}
    BY DEF DeadlineFindings
  <2>2. \A x \in after : x = <<x[1], x[2]>>
    BY DEF DeadlineFindings
  <2>3. \A k, warning : <<k, warning>> \in before <=>
           \E o \in obligations : o.rule = k /\ Says(o, e, warning)
    BY FindingsAre
  <2>4. \A k, warning : <<k, warning>> \in after <=>
           \E o \in obligations : o.rule = k /\ Says(o, f, warning)
    BY FindingsAre
  <2>5. \A o \in obligations :
           /\ Says(o, e, "unverified") => Says(o, f, "unverified")
           /\ Says(o, e, "passed") => Says(o, f, "passed")
           /\ Says(o, e, "near") => Says(o, f, "near") \/ Says(o, f, "passed")
           /\ f - e <= WarnWithin + 1 /\ Says(o, f, "passed") =>
                 Says(o, e, "near") \/ Says(o, e, "passed")
    BY WarningsComeCloser
  <2>6. \A k \in UnverifiedRules :
           k.state = p.state /\ k.role = "general_contractor" => <<k, "unverified">> \in before
    <3> SUFFICES ASSUME NEW k \in UnverifiedRules,
                        k.state = p.state, k.role = "general_contractor"
                 PROVE  \E o \in obligations : o.rule = k /\ Says(o, e, "unverified")
      BY <2>3
    <3>1. Obligation(p, k) \in obligations /\ Obligation(p, k).rule = k
      BY DEF UnverifiedRules, Compute, Obligation
    <3>2. ~RuleIsUsable(k)
      BY DEF UnverifiedRules, RuleIsUsable
    <3> QED BY <3>1, <3>2 DEF Says
  <2> HIDE DEF before, after, obligations
  <2>7. ASSUME NEW x \in before
        PROVE  /\ \E w : <<x[1], w>> \in after
               /\ x[2] # "near" => x \in after
    <3>1. PICK o \in obligations : o.rule = x[1] /\ Says(o, e, x[2])
      BY <2>1, <2>3
    <3>2. CASE x[2] = "near"
      <4>1. Says(o, f, "near") \/ Says(o, f, "passed")
        BY <2>5, <3>1, <3>2
      <4>2. <<x[1], "near">> \in after \/ <<x[1], "passed">> \in after
        BY <2>4, <3>1, <4>1
      <4> QED BY <3>2, <4>2
    <3>3. CASE x[2] # "near"
      <4>1. Says(o, f, x[2])
        BY <2>1, <2>5, <3>1, <3>3
      <4>2. <<x[1], x[2]>> \in after
        BY <2>4, <3>1, <4>1
      <4>3. x = <<x[1], x[2]>>
        BY <2>1
      <4>4. x \in after
        BY <4>2, <4>3
      <4> QED BY <4>2, <4>4
    <3> QED BY <3>2, <3>3
  <2>8. ASSUME f - e <= WarnWithin + 1, NEW y \in after, y[2] = "passed"
        PROVE  \E w : <<y[1], w>> \in before
    <3>1. PICK o \in obligations : o.rule = y[1] /\ Says(o, f, "passed")
      BY <2>2, <2>4, <2>8
    <3> QED BY <2>3, <2>5, <2>8, <3>1
  <2>9. \A k, w : <<k, w>>[1] = k
    OBVIOUS
  <2>10. {x[1] : x \in before} \subseteq {x[1] : x \in after}
    BY <2>7, <2>9
  <2>11. {x \in before : x[2] # "near"} \subseteq after
    BY <2>7
  <2>12. f - e <= WarnWithin + 1 =>
           {y[1] : y \in {z \in after : z[2] = "passed"}} \subseteq {x[1] : x \in before}
    BY <2>8, <2>9
  <2> QED BY <2>6, <2>10, <2>11, <2>12 DEF before, after
<1> QED BY <1>1, ContentInvariantHolds, PTL
=============================================================================
