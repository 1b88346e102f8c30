----------------------- MODULE ScheduleOfValuesProofs -----------------------
(***************************************************************************)
(* Theorems about ScheduleOfValues, for any amounts, any number of          *)
(* revisions, lines and change orders.                                      *)
(***************************************************************************)
EXTENDS ScheduleOfValues, DataTheorems

-----------------------------------------------------------------------------
(* The inductive invariant                                                  *)

\* A line's scheduled value is derived, and a created line names an order.
IsLine(line, approved) ==
    /\ line \in Line
    /\ line.current = line.base + line.adjustment
    /\ line.fromOrder \in {0} \cup approved

\* The lines of a revision: finitely many, each known by a positive number.
AreLines(lines, approved) ==
    /\ IsFiniteSet(DOMAIN lines)
    /\ DOMAIN lines \subseteq Nat \ {0}
    /\ lines = [id \in DOMAIN lines |-> lines[id]]
    /\ \A id \in DOMAIN lines : IsLine(lines[id], approved)

\* Revisions, of which all but the newest are superseded.
IsRevision(revision, approved) ==
    /\ revision = [status |-> revision.status, lines |-> revision.lines]
    /\ revision.status \in {"draft", "approved", "superseded"}
    /\ AreLines(revision.lines, approved)

AreRevisions(revs, approved) ==
    /\ IsSequence(revs)
    /\ \A r \in DOMAIN revs : IsRevision(revs[r], approved)
    /\ \A r \in DOMAIN revs : revs[r].status = "superseded" <=> r < Len(revs)

\* A line of an order creates a line with an item number of its own, or names a
\* line of a revision that is there and is no draft.
IsOrderLine(orderLine, revs) ==
    /\ orderLine.amount \in Int
    /\ CreatesLine(orderLine) => orderLine.item \in ItemNumbers
    /\ ~CreatesLine(orderLine) =>
          \E r \in DOMAIN revs : orderLine.target[1] = r /\ revs[r].status # "draft"

\* An order amounts to its lines.
LinesTotal(lines) == SumFunctionOnSet([j \in DOMAIN lines |-> lines[j].amount], DOMAIN lines)

IsOrder(order, revs) ==
    /\ order = [status |-> order.status, lines |-> order.lines, amount |-> order.amount]
    /\ order.status \in {"draft", "approved"}
    /\ order.amount \in Int
    /\ order.amount = LinesTotal(order.lines)
    /\ IsSequence(order.lines)
    /\ \A j \in DOMAIN order.lines : IsOrderLine(order.lines[j], revs)

AreOrders(os, revs) ==
    /\ IsSequence(os)
    /\ \A k \in DOMAIN os : IsOrder(os[k], revs)

\* Every adjustment among these lines is on a line that an order created.
AdjustsOnlyCreated(lines) ==
    \A id \in DOMAIN lines : lines[id].fromOrder = 0 => lines[id].adjustment = 0

\* What the approved orders create.
CreatingLines(order) == {j \in DOMAIN order.lines : CreatesLine(order.lines[j])}

CreatedBy(order) == SumFunction([j \in CreatingLines(order) |-> order.lines[j].amount])

\* And what they adjust.
AdjustingLines(order) == {j \in DOMAIN order.lines : ~CreatesLine(order.lines[j])}

AdjustedIn(order) == SumFunction([j \in AdjustingLines(order) |-> order.lines[j].amount])

CreatedTotal(os) == SumFunction([k \in Approved(os) |-> CreatedBy(os[k])])

\* The inductive invariant.  Adjusting lines name frozen revisions, so the copy
\* an order is landed on is never adjusted, and removing a line, which no order
\* may have created, takes no adjustment away.
ScheduleInvariant ==
    /\ AreRevisions(revisions, Approved(orders))
    /\ AreOrders(orders, revisions)
    /\ revisions = <<>> => Approved(orders) = {}
    /\ revisions # <<>> =>
          /\ AdjustsOnlyCreated(Current.lines)
          /\ AdjustmentTotal(Current.lines) = CreatedTotal(orders)
    /\ contractSum \in ContractSums

\* What a step leaves of the revisions that are no draft: FrozenLinesKeepTheirBase.
KeepsFrozen(before, after) ==
    \A r \in DOMAIN before :
       before[r].status # "draft" =>
           /\ after[r].status # "draft"
           /\ DOMAIN after[r].lines = DOMAIN before[r].lines
           /\ \A id \in DOMAIN before[r].lines :
                 /\ after[r].lines[id].item = before[r].lines[id].item
                 /\ after[r].lines[id].base = before[r].lines[id].base

-----------------------------------------------------------------------------
(* Lines and totals                                                         *)

\* There is always a number for one more line.
LEMMA UnusedNumber ==
    ASSUME NEW lines, NEW approved, AreLines(lines, approved)
    PROVE  Unused(lines) \in Nat \ {0} /\ Unused(lines) \notin DOMAIN lines
<1> DEFINE c == Cardinality(DOMAIN lines)
<1>1. c \in Nat /\ IsFiniteSet(DOMAIN lines)
  BY FS_CardinalityType DEF AreLines
<1>2. Cardinality(1..c + 1) = c + 1
  BY <1>1, FS_Interval
<1>3. \E n \in 1..c + 1 : n \notin DOMAIN lines
  <2> SUFFICES ASSUME 1..c + 1 \in SUBSET DOMAIN lines PROVE FALSE
    OBVIOUS
  <2>1. Cardinality(1..c + 1) <= c
    BY <1>1, FS_Subset
  <2> HIDE DEF c
  <2> QED BY <1>1, <1>2, <2>1
<1> QED BY <1>1, <1>3 DEF Unused

\* The highest number of a line.
LEMMA TopNumber ==
    ASSUME NEW lines, NEW approved, AreLines(lines, approved)
    PROVE  Top(lines) \in Nat /\ \A id \in DOMAIN lines : id <= Top(lines)
<1>1. CASE DOMAIN lines = {}
  BY <1>1 DEF Top
<1>2. CASE DOMAIN lines # {}
  <2>1. IsFiniteSet(DOMAIN lines) /\ DOMAIN lines \subseteq Int
    BY DEF AreLines
  <2>2. \E n \in DOMAIN lines : \A m \in DOMAIN lines : m <= n
    BY <1>2, <2>1, LargestNumber
  <2> QED BY <1>2, <2>1, <2>2 DEF Top, AreLines
<1> QED BY <1>1, <1>2

\* The adjustments of lines are a sum of integers over a finite set.
LEMMA TotalIsSum ==
    ASSUME NEW lines, NEW approved, AreLines(lines, approved)
    PROVE  LET f == [id \in DOMAIN lines |-> lines[id].adjustment]
           IN  /\ AdjustmentTotal(lines) = SumFunctionOnSet(f, DOMAIN lines)
               /\ IntegersOn(f, DOMAIN lines)
               /\ IsFiniteSet(DOMAIN lines)
               /\ AdjustmentTotal(lines) \in Int
<1> DEFINE f == [id \in DOMAIN lines |-> lines[id].adjustment]
<1>1. AdjustmentTotal(lines) = SumFunctionOnSet(f, DOMAIN lines)
  BY DEF AdjustmentTotal, SumFunction
<1>2. \A id \in DOMAIN lines : lines[id].adjustment \in Int
  BY DEF AreLines, IsLine, Line
<1>3. IntegersOn(f, DOMAIN lines)
  BY <1>2 DEF IntegersOn
<1>4. IsFiniteSet(DOMAIN lines)
  BY DEF AreLines
<1> HIDE DEF f
<1>5. SumFunctionOnSet(f, DOMAIN lines) \in Int
  BY <1>3, <1>4, SumSplits
<1> QED BY <1>1, <1>3, <1>4, <1>5 DEF f

\* Lines added to a revision add their adjustments.
LEMMA TotalWithLines ==
    ASSUME NEW a, NEW b, NEW A, NEW B, AreLines(a, A), AreLines(b, B),
           NEW N, IsFiniteSet(N), DOMAIN b = DOMAIN a \cup N, DOMAIN a \cap N = {},
           \A id \in DOMAIN a : b[id].adjustment = a[id].adjustment,
           NEW g, \A id \in N : g[id] = b[id].adjustment
    PROVE  AdjustmentTotal(b) = AdjustmentTotal(a) + SumFunctionOnSet(g, N)
<1> DEFINE f == [id \in DOMAIN a |-> a[id].adjustment]
           h == [id \in DOMAIN b |-> b[id].adjustment]
<1>1. AdjustmentTotal(a) = SumFunctionOnSet(f, DOMAIN a) /\ IntegersOn(f, DOMAIN a)
      /\ IsFiniteSet(DOMAIN a)
  BY TotalIsSum
<1>2. AdjustmentTotal(b) = SumFunctionOnSet(h, DOMAIN b) /\ IntegersOn(h, DOMAIN b)
  BY TotalIsSum
<1>3. /\ \A id \in DOMAIN a : h[id] = f[id]
      /\ \A id \in N : g[id] = h[id]
  OBVIOUS
<1>4. IntegersOn(h, DOMAIN a) /\ IntegersOn(h, N)
  BY <1>2 DEF IntegersOn
<1> HIDE DEF f, h
<1>5. SumFunctionOnSet(h, DOMAIN a \cup N) =
          SumFunctionOnSet(h, DOMAIN a) + SumFunctionOnSet(h, N)
  BY <1>1, <1>4, SumOfUnion
<1>6. SumFunctionOnSet(h, DOMAIN a) = SumFunctionOnSet(f, DOMAIN a)
  BY <1>1, <1>3, SumOfEquals
<1>7. SumFunctionOnSet(g, N) = SumFunctionOnSet(h, N)
  BY <1>3, <1>4, SumOfEquals
<1> QED BY <1>1, <1>2, <1>5, <1>6, <1>7
\* More orders approved, as good lines.
LEMMA LinesStayLines ==
    ASSUME NEW lines, NEW A, NEW B, AreLines(lines, A), A \subseteq B
    PROVE  AreLines(lines, B)
  BY DEF AreLines, IsLine

-----------------------------------------------------------------------------
(* What the edits of a draft make of its lines                              *)

\* The lines of the newest revision.
LEMMA CurrentLines ==
    ASSUME ScheduleInvariant, revisions # <<>>
    PROVE  /\ Len(revisions) \in Nat \ {0} /\ DOMAIN revisions = 1..Len(revisions)
           /\ Len(revisions) \in DOMAIN revisions
           /\ AreLines(Current.lines, Approved(orders))
           /\ Current.status \in {"draft", "approved"}
<1>1. IsSequence(revisions)
  BY DEF ScheduleInvariant, AreRevisions
<1>2. /\ Len(revisions) \in Nat /\ DOMAIN revisions = 1..Len(revisions)
      /\ revisions = [k \in 1..Len(revisions) |-> revisions[k]]
  BY <1>1, SequenceFacts
<1>3. Len(revisions) # 0
  BY <1>1, EmptySeq DEF IsSequence
<1>4. Len(revisions) \in DOMAIN revisions
  BY <1>2, <1>3
<1> QED BY <1>2, <1>3, <1>4 DEF ScheduleInvariant, AreRevisions, IsRevision, Current

\* add_line: a line with a number not in use and no adjustment.
LEMMA LinesWithOne ==
    ASSUME NEW A, NEW lines, AreLines(lines, A), AdjustsOnlyCreated(lines),
           NEW item \in ItemNumbers, NEW value \in Values,
           NEW after \in WithLine(lines, item, value)
    PROVE  /\ AreLines(after, A) /\ AdjustsOnlyCreated(after)
           /\ AdjustmentTotal(after) = AdjustmentTotal(lines)
<1> DEFINE new == Unused(lines)
           line == [item |-> item, base |-> value, adjustment |-> 0,
                    current |-> value, fromOrder |-> 0]
<1>1. new \in Nat \ {0} /\ new \notin DOMAIN lines
  BY UnusedNumber
<1>2. after = [id \in DOMAIN lines \cup {new} |-> IF id = new THEN line ELSE lines[id]]
  BY DEF WithLine
<1>3. IsLine(line, A) /\ line.fromOrder = 0 /\ line.adjustment = 0
  BY ValuesAreIntegers DEF IsLine, Line
<1> HIDE DEF new, line
<1>4. /\ DOMAIN after = DOMAIN lines \cup {new}
      /\ after[new] = line
      /\ \A id \in DOMAIN lines : after[id] = lines[id]
      /\ after = [id \in DOMAIN after |-> after[id]]
  BY <1>1, <1>2
<1>5. IsFiniteSet(DOMAIN lines \cup {new})
  BY FS_AddElement DEF AreLines
<1>6. AreLines(after, A)
  BY <1>1, <1>3, <1>4, <1>5 DEF AreLines
<1>7. AdjustsOnlyCreated(after)
  BY <1>3, <1>4 DEF AdjustsOnlyCreated
<1>8. AdjustmentTotal(after) = AdjustmentTotal(lines)
  <2> DEFINE zero == [id \in {new} |-> 0]
  <2>1. SumFunctionOnSet(zero, {new}) = 0 /\ IsFiniteSet({new})
    <3>1. IsFiniteSet({new})
      BY FS_Singleton
    <3>2. \A id \in {new} : zero[id] = 0
      OBVIOUS
    <3> HIDE DEF zero
    <3> QED BY <3>1, <3>2, SumOfZeros
  <2>2. /\ \A id \in {new} : zero[id] = after[id].adjustment
        /\ \A id \in DOMAIN lines : after[id].adjustment = lines[id].adjustment
        /\ DOMAIN lines \cap {new} = {}
    BY <1>1, <1>3, <1>4
  <2> HIDE DEF zero
  <2>3. AdjustmentTotal(after) = AdjustmentTotal(lines) + SumFunctionOnSet(zero, {new})
    BY <1>4, <1>6, <2>1, <2>2, TotalWithLines
  <2>4. AdjustmentTotal(lines) \in Int
    BY TotalIsSum
  <2> QED BY <2>1, <2>3, <2>4
<1> QED BY <1>6, <1>7, <1>8

\* Lines that differ in no adjustment have the same total.
LEMMA SameTotal ==
    ASSUME NEW a, NEW b, NEW A, AreLines(a, A), AreLines(b, A), DOMAIN b = DOMAIN a,
           \A id \in DOMAIN a : b[id].adjustment = a[id].adjustment
    PROVE  AdjustmentTotal(b) = AdjustmentTotal(a)
<1> DEFINE f == [id \in DOMAIN a |-> a[id].adjustment]
           h == [id \in DOMAIN b |-> b[id].adjustment]
<1>1. AdjustmentTotal(a) = SumFunctionOnSet(f, DOMAIN a)
  BY TotalIsSum
<1>2. AdjustmentTotal(b) = SumFunctionOnSet(h, DOMAIN b)
  BY TotalIsSum
<1>3. f = h
  OBVIOUS
<1> HIDE DEF f, h
<1> QED BY <1>1, <1>2, <1>3

\* update_line: another item number and base value, the same adjustment.
LEMMA LinesRetyped ==
    ASSUME NEW A, NEW lines, AreLines(lines, A), AdjustsOnlyCreated(lines),
           NEW id \in DOMAIN lines, NEW item \in ItemNumbers, NEW value \in Values,
           NEW after, after = [lines EXCEPT ![id] = Retyped(@, item, value)]
    PROVE  /\ AreLines(after, A) /\ AdjustsOnlyCreated(after)
           /\ AdjustmentTotal(after) = AdjustmentTotal(lines)
<1> DEFINE line == Retyped(lines[id], item, value)
<1>1. /\ IsLine(line, A)
      /\ line.adjustment = lines[id].adjustment /\ line.fromOrder = lines[id].fromOrder
  <2>1. IsLine(lines[id], A)
    BY DEF AreLines
  <2> DEFINE old == lines[id]
  <2>2. /\ old.adjustment \in Int /\ old.fromOrder \in Nat /\ old.fromOrder \in {0} \cup A
        /\ old = [item |-> old.item, base |-> old.base, adjustment |-> old.adjustment,
                  current |-> old.current, fromOrder |-> old.fromOrder]
    BY <2>1 DEF IsLine, Line
  <2>3. value \in Int /\ value + old.adjustment \in Int
    BY <2>2, ValuesAreIntegers
  <2> HIDE DEF old
  <2>4. line = [item |-> item, base |-> value, adjustment |-> old.adjustment,
                current |-> value + old.adjustment, fromOrder |-> old.fromOrder]
    <3>1. line = Retyped(old, item, value)
      BY DEF old
    <3> HIDE DEF line
    <3> QED BY <2>2, <3>1 DEF Retyped
  <2> HIDE DEF line
  <2> QED BY <2>2, <2>3, <2>4 DEF IsLine, Line, old
<1> HIDE DEF line
<1>2. /\ DOMAIN after = DOMAIN lines
      /\ after[id] = line
      /\ \A other \in DOMAIN lines : other # id => after[other] = lines[other]
      /\ after = [other \in DOMAIN after |-> after[other]]
  BY DEF line, AreLines
<1>3. AreLines(after, A)
  BY <1>1, <1>2 DEF AreLines
<1>4. \A other \in DOMAIN lines : /\ after[other].adjustment = lines[other].adjustment
                                 /\ after[other].fromOrder = lines[other].fromOrder
  BY <1>1, <1>2
<1>5. AdjustsOnlyCreated(after)
  BY <1>2, <1>4 DEF AdjustsOnlyCreated
<1>6. AdjustmentTotal(after) = AdjustmentTotal(lines)
  BY <1>2, <1>3, <1>4, SameTotal
<1> QED BY <1>3, <1>5, <1>6

\* remove_line: a line no order created, so one without adjustment.
LEMMA LinesWithout ==
    ASSUME NEW A, NEW lines, AreLines(lines, A), AdjustsOnlyCreated(lines),
           NEW id \in DOMAIN lines, IsRemovable(lines[id]),
           NEW after, after = Without(lines, id)
    PROVE  /\ AreLines(after, A) /\ AdjustsOnlyCreated(after)
           /\ AdjustmentTotal(after) = AdjustmentTotal(lines)
<1>1. /\ DOMAIN after = DOMAIN lines \ {id}
      /\ \A other \in DOMAIN after : after[other] = lines[other]
      /\ after = [other \in DOMAIN after |-> after[other]]
  BY DEF Without
<1>2. IsFiniteSet(DOMAIN lines \ {id})
  BY FS_RemoveElement DEF AreLines
<1>3. AreLines(after, A)
  BY <1>1, <1>2 DEF AreLines
<1>4. AdjustsOnlyCreated(after)
  BY <1>1 DEF AdjustsOnlyCreated
<1>5. AdjustmentTotal(after) = AdjustmentTotal(lines)
  <2> DEFINE zero == [other \in {id} |-> 0]
  <2>1. SumFunctionOnSet(zero, {id}) = 0 /\ IsFiniteSet({id})
    <3>1. IsFiniteSet({id})
      BY FS_Singleton
    <3>2. \A other \in {id} : zero[other] = 0
      OBVIOUS
    <3> HIDE DEF zero
    <3> QED BY <3>1, <3>2, SumOfZeros
  <2>2. \A other \in {id} : zero[other] = lines[other].adjustment
    BY DEF IsRemovable, AdjustsOnlyCreated
  <2>3. /\ DOMAIN lines = DOMAIN after \cup {id} /\ DOMAIN after \cap {id} = {}
        /\ \A other \in DOMAIN after : lines[other].adjustment = after[other].adjustment
    BY <1>1
  <2> HIDE DEF zero
  <2>4. AdjustmentTotal(lines) = AdjustmentTotal(after) + SumFunctionOnSet(zero, {id})
    BY <1>3, <2>1, <2>2, <2>3, TotalWithLines
  <2>5. AdjustmentTotal(after) \in Int
    BY <1>3, TotalIsSum
  <2> QED BY <2>1, <2>4, <2>5
<1> QED BY <1>3, <1>4, <1>5
\* A revision with other lines, or in another status.
LEMMA RevisedRecord ==
    ASSUME NEW r, r = [status |-> r.status, lines |-> r.lines], NEW lines, NEW status
    PROVE  /\ [r EXCEPT !.lines = lines] = [status |-> r.status, lines |-> lines]
           /\ [r EXCEPT !.status = status] = [status |-> status, lines |-> r.lines]
<1> DEFINE old == r.status
           was == r.lines
<1> HIDE DEF old, was
<1>1. r = [status |-> old, lines |-> was]
  BY DEF old, was
<1> QED BY <1>1 DEF old, was

\* An edit of the draft that leaves its lines lines, and their total, keeps the
\* invariant.
LEMMA EditKeepsSchedule ==
    ASSUME ScheduleInvariant, IsEditable, NEW lines,
           AreLines(lines, Approved(orders)), AdjustsOnlyCreated(lines),
           AdjustmentTotal(lines) = AdjustmentTotal(Current.lines),
           SetLines(lines), UNCHANGED <<orders, contractSum>>
    PROVE  ScheduleInvariant' /\ KeepsFrozen(revisions, revisions')
<1> DEFINE n == Len(revisions)
           b == [status |-> revisions[n].status, lines |-> lines]
<1>1. n \in DOMAIN revisions /\ Current = revisions[n]
  BY CurrentLines DEF IsEditable, Current
<1>2. revisions[n] = [status |-> revisions[n].status, lines |-> revisions[n].lines]
  BY <1>1 DEF ScheduleInvariant, AreRevisions, IsRevision
<1>3. revisions' = [revisions EXCEPT ![n] = b]
  <2>1. [revisions[n] EXCEPT !.lines = lines] = b
    BY <1>2, RevisedRecord
  <2>2. revisions' = [revisions EXCEPT ![n] = [revisions[n] EXCEPT !.lines = lines]]
    BY DEF SetLines
  <2> HIDE DEF n, b
  <2> QED BY <2>1, <2>2
<1> HIDE DEF n, b
<1>4. /\ IsSequence(revisions') /\ Len(revisions') = n /\ DOMAIN revisions' = DOMAIN revisions
      /\ revisions'[n] = b
      /\ \A r \in DOMAIN revisions : r # n => revisions'[r] = revisions[r]
  <2>1. IsSequence(revisions)
    BY DEF ScheduleInvariant, AreRevisions
  <2>2. Len(revisions) = n
    BY DEF n
  <2>3. Replaces(revisions', revisions, n, b)
    BY <1>1, <1>3, <2>1, ReplacedElement
  <2> QED BY <1>1, <2>2, <2>3 DEF Replaces
<1>5. b.status = revisions[n].status /\ b.lines = lines
      /\ b = [status |-> b.status, lines |-> b.lines]
  BY DEF b
<1>6. orders' = orders /\ contractSum' = contractSum /\ Approved(orders)' = Approved(orders)
  BY DEF Approved
<1>7. AreRevisions(revisions', Approved(orders))
  BY <1>1, <1>4, <1>5 DEF ScheduleInvariant, AreRevisions, IsRevision, n
<1>8. AreOrders(orders, revisions')
  <2>1. \A r \in DOMAIN revisions : revisions'[r].status = revisions[r].status
    BY <1>4, <1>5
  <2> QED BY <1>4, <2>1 DEF ScheduleInvariant, AreOrders, IsOrder, IsOrderLine
<1>9. Current'.lines = lines
  BY <1>4, <1>5 DEF Current
<1>10. CreatedTotal(orders') = CreatedTotal(orders)
  BY <1>6
<1>11. AdjustmentTotal(Current.lines) = CreatedTotal(orders)
  BY DEF ScheduleInvariant, IsEditable
<1>12. revisions' # <<>>
  BY <1>1, <1>4
<1>13. KeepsFrozen(revisions, revisions')
  <2>1. revisions[n].status = "draft"
    BY <1>1 DEF IsEditable
  <2> QED BY <1>4, <2>1 DEF KeepsFrozen
<1> QED BY <1>6, <1>7, <1>8, <1>9, <1>10, <1>11, <1>12, <1>13 DEF ScheduleInvariant
-----------------------------------------------------------------------------
(* Revisions                                                                *)

\* u is revs with the newest revision superseded and a draft of its lines.
Revises(u, revs, n) ==
    /\ n = Len(revs) /\ n \in Nat \ {0} /\ DOMAIN revs = 1..n
    /\ Len(u) = n + 1 /\ DOMAIN u = 1..(n + 1)
    /\ u[n].status = "superseded" /\ u[n].lines = revs[n].lines
    /\ u[n + 1].status = "draft" /\ u[n + 1].lines = revs[n].lines
    /\ \A r \in 1..n : r # n => u[r] = revs[r]

\* What create_revision makes of the revisions.
LEMMA RevisedRevisions ==
    ASSUME NEW A, NEW revs, AreRevisions(revs, A), revs # <<>>
    PROVE  /\ AreRevisions(Revised(revs), A)
           /\ Revises(Revised(revs), revs, Len(revs))
<1> DEFINE n == Len(revs)
           old == [status |-> "superseded", lines |-> revs[n].lines]
           new == [status |-> "draft", lines |-> revs[n].lines]
           v == [revs EXCEPT ![n] = old]
           u == Append(v, new)
<1>1. IsSequence(revs)
  BY DEF AreRevisions
<1>2. n \in Nat /\ n # 0 /\ DOMAIN revs = 1..n
  BY <1>1, SequenceFacts, EmptySeq DEF IsSequence
<1>3. n \in DOMAIN revs /\ revs[n] = [status |-> revs[n].status, lines |-> revs[n].lines]
  BY <1>2 DEF AreRevisions, IsRevision
<1>4. Revised(revs) = u
  <2>1. [revs[n] EXCEPT !.status = "superseded"] = old /\ [revs[n] EXCEPT !.status = "draft"] = new
    BY <1>3, RevisedRecord
  <2>2. Revised(revs) = Append([revs EXCEPT ![n] = [revs[n] EXCEPT !.status = "superseded"]],
                               [revs[n] EXCEPT !.status = "draft"])
    BY DEF Revised
  <2> HIDE DEF old, new
  <2> QED BY <2>1, <2>2
<1>5. /\ old = [status |-> old.status, lines |-> old.lines]
      /\ new = [status |-> new.status, lines |-> new.lines]
      /\ old.lines = revs[n].lines /\ new.lines = revs[n].lines
      /\ old.status = "superseded" /\ new.status = "draft"
  OBVIOUS
<1> HIDE DEF old, new
<1>6. Replaces(v, revs, n, old)
  BY <1>1, <1>3, ReplacedElement
<1>7. Extends(u, v, new)
  <2>1. IsSequence(v)
    BY <1>6 DEF Replaces
  <2> HIDE DEF v
  <2> QED BY <2>1, AppendedElement
<1> HIDE DEF v, u
<1>8. /\ Len(u) = n + 1 /\ DOMAIN u = 1..(n + 1) /\ IsSequence(u)
      /\ u[n] = old /\ u[n + 1] = new
      /\ \A r \in 1..n : r # n => u[r] = revs[r]
  BY <1>2, <1>3, <1>6, <1>7 DEF Replaces, Extends
<1>9. AreLines(revs[n].lines, A)
  BY <1>3 DEF AreRevisions, IsRevision
<1>10. AreRevisions(u, A)
  <2> DEFINE Good(r) == IsRevision(u[r], A) /\ (u[r].status = "superseded" <=> r < n + 1)
  <2>1. Good(n)
    BY <1>2, <1>5, <1>8, <1>9 DEF IsRevision
  <2>2. Good(n + 1)
    BY <1>2, <1>5, <1>8, <1>9 DEF IsRevision
  <2>3. ASSUME NEW r \in 1..n, r # n PROVE Good(r)
    <3>1. IsRevision(revs[r], A) /\ (revs[r].status = "superseded" <=> r < n)
      BY <1>2 DEF AreRevisions, n
    <3>2. r < n /\ r < n + 1 /\ u[r] = revs[r]
      <4> HIDE DEF n, Good
      <4> QED BY <1>2, <1>8, <2>3
    <3> QED BY <3>1, <3>2
  <2>4. \A r \in 1..(n + 1) : r = n \/ r = n + 1 \/ (r \in 1..n /\ r # n)
    <3> HIDE DEF n
    <3> QED BY <1>2
  <2> HIDE DEF Good
  <2>5. \A r \in 1..(n + 1) : Good(r)
    BY <2>1, <2>2, <2>3, <2>4
  <2> QED BY <1>8, <2>5 DEF AreRevisions, Good
<1>11. Revises(u, revs, n)
  BY <1>2, <1>5, <1>8 DEF Revises, n
<1> QED BY <1>4, <1>10, <1>11 DEF n

\* A line adjusted by x.
AdjustedBy(line, x) == [line EXCEPT !.adjustment = line.adjustment + x,
                                    !.current = line.base + (line.adjustment + x)]

\* An adjusted line is one again, and no adjustment leaves it as it was.
LEMMA AdjustedLine ==
    ASSUME NEW A, NEW line, IsLine(line, A), NEW x \in Int
    PROVE  /\ IsLine(AdjustedBy(line, x), A)
           /\ AdjustedBy(line, x).item = line.item
           /\ AdjustedBy(line, x).base = line.base
           /\ x = 0 => AdjustedBy(line, x) = line
<1> DEFINE after == AdjustedBy(line, x)
<1>1. /\ line.item \in ItemNumbers /\ line.base \in Int /\ line.adjustment \in Int
      /\ line.fromOrder \in Nat /\ line.fromOrder \in {0} \cup A
      /\ line.current = line.base + line.adjustment
      /\ line = [item |-> line.item, base |-> line.base, adjustment |-> line.adjustment,
                 current |-> line.current, fromOrder |-> line.fromOrder]
  BY DEF IsLine, Line
<1>2. after = [item |-> line.item, base |-> line.base, adjustment |-> line.adjustment + x,
               current |-> line.base + (line.adjustment + x), fromOrder |-> line.fromOrder]
  <2> DEFINE i == line.item
             b == line.base
             a == line.adjustment
             c == line.current
             o == line.fromOrder
  <2> HIDE DEF i, b, a, c, o
  <2>1. line = [item |-> i, base |-> b, adjustment |-> a, current |-> c, fromOrder |-> o]
    BY <1>1 DEF i, b, a, c, o
  <2>2. after = [item |-> i, base |-> b, adjustment |-> a + x, current |-> b + (a + x),
                 fromOrder |-> o]
    <3> DEFINE y == a + x
               z == b + y
    <3>1. after = [line EXCEPT !.adjustment = y, !.current = z]
      BY DEF AdjustedBy, a, b
    <3> HIDE DEF y, z, after
    <3> QED BY <2>1, <3>1 DEF y, z
  <2> QED BY <2>2 DEF i, b, a, o
<1> HIDE DEF after
<1>3. line.adjustment + x \in Int /\ line.base + (line.adjustment + x) \in Int
  BY <1>1
<1>4. IsLine(after, A)
  BY <1>1, <1>2, <1>3 DEF IsLine, Line
<1>5. x = 0 => after = line
  <2>1. x = 0 => line.adjustment + x = line.adjustment
                 /\ line.base + (line.adjustment + x) = line.current
    BY <1>1
  <2> QED BY <1>1, <1>2, <2>1
<1> QED BY <1>2, <1>4, <1>5 DEF after

\* What an order adjusts a line by is an integer, and nothing for a line that
\* none of its lines names.
LEMMA AdjustmentIsInteger ==
    ASSUME NEW revs, NEW order, IsOrder(order, revs), NEW r, NEW id
    PROVE  /\ AdjustmentOf(order, r, id) \in Int
           /\ (\A j \in DOMAIN order.lines : order.lines[j].target # <<r, id>>)
                 => AdjustmentOf(order, r, id) = 0
<1> DEFINE S == {j \in DOMAIN order.lines : order.lines[j].target = <<r, id>>}
           f == [j \in S |-> order.lines[j].amount]
<1>1. AdjustmentOf(order, r, id) = SumFunctionOnSet(f, S)
  BY DEF AdjustmentOf, SumFunction
<1>2. IsFiniteSet(DOMAIN order.lines)
  <2>1. Len(order.lines) \in Nat /\ DOMAIN order.lines = 1..Len(order.lines)
    BY SequenceFacts DEF IsOrder
  <2> QED BY <2>1, FS_Interval
<1>3. IsFiniteSet(S)
  BY <1>2, FS_Subset
<1>4. IntegersOn(f, S)
  BY DEF IntegersOn, IsOrder, IsOrderLine
<1>5. (\A j \in DOMAIN order.lines : order.lines[j].target # <<r, id>>) => S = {}
  OBVIOUS
<1> HIDE DEF f, S
<1> QED BY <1>1, <1>3, <1>4, <1>5, SumSplits, SumOfNone

\* v is revs with the lines an order names adjusted.
Adjusts(v, revs, order) ==
    /\ Len(v) = Len(revs) /\ DOMAIN v = DOMAIN revs
    /\ \A r \in DOMAIN revs :
          /\ v[r].status = revs[r].status
          /\ DOMAIN v[r].lines = DOMAIN revs[r].lines
          /\ \A id \in DOMAIN revs[r].lines :
                /\ v[r].lines[id].item = revs[r].lines[id].item
                /\ v[r].lines[id].base = revs[r].lines[id].base
          /\ (\A id : \A j \in DOMAIN order.lines : order.lines[j].target # <<r, id>>)
                => v[r] = revs[r]

\* The adjusting lines keep every revision's lines, their item numbers and base
\* values, and leave a revision that none of them names alone.
LEMMA AdjustedRevisions ==
    ASSUME NEW A, NEW revs, AreRevisions(revs, A), NEW before, NEW order, IsOrder(order, before)
    PROVE  /\ AreRevisions(Adjusted(revs, order), A)
           /\ Adjusts(Adjusted(revs, order), revs, order)
<1> DEFINE v == Adjusted(revs, order)
           x(r, id) == AdjustmentOf(order, r, id)
           linesOf(r) == [id \in DOMAIN revs[r].lines |-> AdjustedBy(revs[r].lines[id], x(r, id))]
<1>1. /\ IsSequence(revs) /\ Len(revs) \in Nat /\ DOMAIN revs = 1..Len(revs)
  BY SequenceFacts DEF AreRevisions
<1>2. ASSUME NEW r \in DOMAIN revs
      PROVE  v[r] = [status |-> revs[r].status, lines |-> linesOf(r)]
  <2>1. v[r] = [revs[r] EXCEPT !.lines = linesOf(r)]
    BY DEF Adjusted, AdjustedBy
  <2>2. revs[r] = [status |-> revs[r].status, lines |-> revs[r].lines]
    BY DEF AreRevisions, IsRevision
  <2> HIDE DEF linesOf, v
  <2> QED BY <2>1, <2>2, RevisedRecord
<1>3. DOMAIN v = DOMAIN revs /\ v = [r \in 1..Len(revs) |-> v[r]]
  BY <1>1 DEF Adjusted
<1> HIDE DEF v
<1>4. IsSequence(v) /\ Len(v) = Len(revs)
  BY <1>1, <1>3, SequenceFromFunction
<1>5. ASSUME NEW r \in DOMAIN revs, NEW id \in DOMAIN revs[r].lines
      PROVE  /\ linesOf(r)[id] = AdjustedBy(revs[r].lines[id], x(r, id))
             /\ IsLine(linesOf(r)[id], A)
             /\ linesOf(r)[id].item = revs[r].lines[id].item
             /\ linesOf(r)[id].base = revs[r].lines[id].base
             /\ x(r, id) = 0 => linesOf(r)[id] = revs[r].lines[id]
  <2>1. linesOf(r)[id] = AdjustedBy(revs[r].lines[id], x(r, id))
    OBVIOUS
  <2>2. x(r, id) \in Int
    BY AdjustmentIsInteger
  <2>3. IsLine(revs[r].lines[id], A)
    BY DEF AreRevisions, IsRevision, AreLines
  <2> HIDE DEF x, linesOf
  <2> QED BY <2>1, <2>2, <2>3, AdjustedLine
<1>6. \A r \in DOMAIN revs : /\ DOMAIN linesOf(r) = DOMAIN revs[r].lines
                             /\ linesOf(r) = [id \in DOMAIN linesOf(r) |-> linesOf(r)[id]]
  OBVIOUS
<1> HIDE DEF linesOf
<1>7. \A r \in DOMAIN revs : AreLines(linesOf(r), A)
  BY <1>5, <1>6 DEF AreRevisions, IsRevision, AreLines
<1>8. AreRevisions(v, A)
  <2>1. ASSUME NEW r \in DOMAIN revs
        PROVE  /\ v[r] = [status |-> v[r].status, lines |-> v[r].lines]
               /\ v[r].status = revs[r].status
               /\ v[r].lines = linesOf(r)
    <3> DEFINE s == revs[r].status
    <3>1. v[r] = [status |-> s, lines |-> linesOf(r)]
      BY <1>2
    <3> HIDE DEF s
    <3> QED BY <3>1 DEF s
  <2>2. \A r \in DOMAIN revs : IsRevision(v[r], A)
    BY <1>7, <2>1 DEF AreRevisions, IsRevision
  <2> QED BY <1>3, <1>4, <2>1, <2>2 DEF AreRevisions
<1>9. ASSUME NEW r \in DOMAIN revs,
             \A id : \A j \in DOMAIN order.lines : order.lines[j].target # <<r, id>>
      PROVE  v[r] = revs[r]
  <2>1. \A id : x(r, id) = 0
    BY <1>9, AdjustmentIsInteger
  <2>2. linesOf(r) = [id \in DOMAIN revs[r].lines |-> revs[r].lines[id]]
    BY <1>5, <1>6, <2>1
  <2>3. linesOf(r) = revs[r].lines
    BY <2>2 DEF AreRevisions, IsRevision, AreLines
  <2>4. revs[r] = [status |-> revs[r].status, lines |-> revs[r].lines]
    BY DEF AreRevisions, IsRevision
  <2> QED BY <1>2, <2>3, <2>4
<1>10. \A r \in DOMAIN revs :
          /\ v[r].status = revs[r].status
          /\ DOMAIN v[r].lines = DOMAIN revs[r].lines
          /\ \A id \in DOMAIN revs[r].lines :
                /\ v[r].lines[id].item = revs[r].lines[id].item
                /\ v[r].lines[id].base = revs[r].lines[id].base
  <2>1. ASSUME NEW r \in DOMAIN revs
        PROVE  v[r].status = revs[r].status /\ v[r].lines = linesOf(r)
    <3> DEFINE s == revs[r].status
    <3>1. v[r] = [status |-> s, lines |-> linesOf(r)]
      BY <1>2
    <3> HIDE DEF s
    <3> QED BY <3>1 DEF s
  <2> QED BY <1>5, <1>6, <2>1
<1>11. Adjusts(v, revs, order)
  BY <1>3, <1>4, <1>9, <1>10 DEF Adjusts
<1> QED BY <1>8, <1>11 DEF v
\* The lines of a revision with those that order k creates.
LandedOn(lines, order, k) ==
    LET top == Top(lines)
    IN  [id \in DOMAIN lines \cup {top + j : j \in CreatingLines(order)} |->
            IF id > top
            THEN [item |-> order.lines[id - top].item, base |-> 0,
                  adjustment |-> order.lines[id - top].amount,
                  current |-> order.lines[id - top].amount, fromOrder |-> k]
            ELSE lines[id]]

\* An order lands above all lines that are there, and adds what it creates.
LEMMA LandedLines ==
    ASSUME NEW A, NEW lines, AreLines(lines, A), AdjustsOnlyCreated(lines),
           NEW k \in Nat \ {0}, NEW before, NEW order, IsOrder(order, before)
    PROVE  LET after == LandedOn(lines, order, k)
           IN  /\ AreLines(after, A \cup {k})
               /\ AdjustsOnlyCreated(after)
               /\ AdjustmentTotal(after) = AdjustmentTotal(lines) + CreatedBy(order)
<1> DEFINE after == LandedOn(lines, order, k)
           top == Top(lines)
           new == CreatingLines(order)
           added == {top + j : j \in new}
           line(id) == [item |-> order.lines[id - top].item, base |-> 0,
                        adjustment |-> order.lines[id - top].amount,
                        current |-> order.lines[id - top].amount, fromOrder |-> k]
<1>1. top \in Nat /\ \A id \in DOMAIN lines : id <= top
  BY TopNumber
<1>2. /\ new \subseteq DOMAIN order.lines
      /\ DOMAIN order.lines = 1..Len(order.lines) /\ Len(order.lines) \in Nat
      /\ \A j \in new : /\ j \in Nat \ {0}
                        /\ order.lines[j].item \in ItemNumbers
                        /\ order.lines[j].amount \in Int
  <2>1. /\ Len(order.lines) \in Nat /\ DOMAIN order.lines = 1..Len(order.lines)
        /\ \A j \in DOMAIN order.lines : IsOrderLine(order.lines[j], before)
    BY SequenceFacts DEF IsOrder
  <2> QED BY <2>1 DEF CreatingLines, IsOrderLine
<1>3. IsFiniteSet(new)
  <2>1. IsFiniteSet(DOMAIN order.lines)
    BY <1>2, FS_Interval
  <2> QED BY <1>2, <2>1, FS_Subset
<1>4. /\ DOMAIN after = DOMAIN lines \cup added
      /\ after = [id \in DOMAIN after |-> after[id]]
      /\ \A id \in DOMAIN lines \cup added : after[id] = IF id > top THEN line(id) ELSE lines[id]
  BY DEF LandedOn
<1> DEFINE b == [j \in new |-> top + j]
<1> HIDE DEF top, new, after
<1>5. b \in Bijection(new, added)
  <2>1. \A j \in new : j \in Nat
    BY <1>2
  <2>2. b \in [new -> added] /\ \A y \in added : \E j \in new : b[j] = y
    OBVIOUS
  <2>3. \A i, j \in new : b[i] = b[j] => i = j
    BY <1>1, <2>1
  <2> HIDE DEF b, added
  <2> QED BY <2>2, <2>3 DEF Bijection, Injection, Surjection, IsInjective
<1>6. IsFiniteSet(added)
  <2> HIDE DEF b, added
  <2> QED BY <1>3, <1>5, FS_Bijection DEF ExistsBijection
<1>7. \A id \in added : id \in Nat \ {0} /\ id > top /\ id - top \in new
  <2> SUFFICES ASSUME NEW j \in new
               PROVE  top + j \in Nat \ {0} /\ top + j > top /\ (top + j) - top = j
    OBVIOUS
  <2> QED BY <1>1, <1>2
<1> HIDE DEF b
<1>8. ASSUME NEW id \in added PROVE after[id] = line(id) /\ IsLine(line(id), A \cup {k})
  <2>1. after[id] = line(id)
    BY <1>4, <1>7
  <2> DEFINE amount == order.lines[id - top].amount
             item == order.lines[id - top].item
  <2>2. amount \in Int /\ item \in ItemNumbers
    BY <1>2, <1>7
  <2> HIDE DEF amount, item, added
  <2>3. IsLine([item |-> item, base |-> 0, adjustment |-> amount,
                current |-> amount, fromOrder |-> k], A \cup {k})
    BY <2>2 DEF IsLine, Line
  <2> QED BY <2>1, <2>3 DEF amount, item
<1>9. ASSUME NEW id \in DOMAIN lines PROVE after[id] = lines[id] /\ id \notin added
  <2>1. id \in Nat /\ id <= top
    BY <1>1 DEF AreLines
  <2>2. ~(id > top)
    BY <1>1, <2>1
  <2> HIDE DEF line, added
  <2> QED BY <1>4, <1>7, <2>2
<1>10. \A id \in added : /\ after[id].fromOrder = k
                          /\ after[id].adjustment = order.lines[id - top].amount
  <2> SUFFICES ASSUME NEW id \in added
               PROVE  /\ after[id].fromOrder = k
                      /\ after[id].adjustment = order.lines[id - top].amount
    OBVIOUS
  <2>1. after[id] = line(id)
    BY <1>8
  <2> HIDE DEF added
  <2> QED BY <2>1
<1> HIDE DEF added, line
<1>11. AreLines(after, A \cup {k})
  <2>1. IsFiniteSet(DOMAIN lines \cup added)
    BY <1>6, FS_Union DEF AreLines
  <2>2. DOMAIN lines \subseteq Nat \ {0} /\ \A id \in DOMAIN lines : IsLine(lines[id], A \cup {k})
    BY LinesStayLines DEF AreLines
  <2> QED BY <1>4, <1>7, <1>8, <1>9, <2>1, <2>2 DEF AreLines
<1>12. AdjustsOnlyCreated(after)
  BY <1>4, <1>9, <1>10 DEF AdjustsOnlyCreated
<1>13. AdjustmentTotal(after) = AdjustmentTotal(lines) + CreatedBy(order)
  <2> DEFINE f == [j \in new |-> order.lines[j].amount]
             g == [id \in added |-> after[id].adjustment]
  <2>1. CreatedBy(order) = SumFunctionOnSet(f, new)
    BY DEF CreatedBy, SumFunction, new
  <2>2. IntegersOn(f, new)
    BY <1>2 DEF IntegersOn
  <2>3. \A j \in new : g[b[j]] = f[j]
    <3> SUFFICES ASSUME NEW j \in new PROVE g[b[j]] = order.lines[j].amount
      OBVIOUS
    <3>1. b[j] = top + j /\ b[j] \in added
      BY DEF b, added
    <3>2. b[j] - top = j
      BY <1>1, <1>2, <3>1
    <3> QED BY <1>10, <3>1, <3>2
  <2>4. \A id \in added : g[id] = after[id].adjustment
    OBVIOUS
  <2> HIDE DEF f, g
  <2>5. SumFunctionOnSet(g, added) = SumFunctionOnSet(f, new)
    BY <1>3, <1>5, <2>2, <2>3, SumReindexed
  <2>6. \A id \in DOMAIN lines : after[id].adjustment = lines[id].adjustment
    BY <1>9
  <2>7. DOMAIN lines \cap added = {}
    BY <1>9
  <2>8. AdjustmentTotal(after) = AdjustmentTotal(lines) + SumFunctionOnSet(g, added)
    BY <1>4, <1>6, <1>11, <2>4, <2>6, <2>7, TotalWithLines
  <2> QED BY <2>1, <2>5, <2>8
<1> QED BY <1>11, <1>12, <1>13 DEF after
-----------------------------------------------------------------------------
(* The invariant is preserved                                               *)

\* Order lines stay good when no frozen revision thaws.
LEMMA OrdersStayOrders ==
    ASSUME NEW os, NEW revs, NEW after, AreOrders(os, revs), DOMAIN revs \subseteq DOMAIN after,
           \A r \in DOMAIN revs : revs[r].status # "draft" => after[r].status # "draft"
    PROVE  AreOrders(os, after)
  BY DEF AreOrders, IsOrder, IsOrderLine

\* A request that touches no order, and adds no line to the newest revision.
LEMMA SameOrders ==
    ASSUME ScheduleInvariant, UNCHANGED <<orders, contractSum>>,
           AreRevisions(revisions', Approved(orders)),
           DOMAIN revisions \subseteq DOMAIN revisions',
           \A r \in DOMAIN revisions :
              revisions[r].status # "draft" => revisions'[r].status # "draft",
           revisions # <<>>, Current'.lines = Current.lines
    PROVE  ScheduleInvariant'
<1>1. orders' = orders /\ contractSum' = contractSum /\ Approved(orders') = Approved(orders)
      /\ CreatedTotal(orders') = CreatedTotal(orders)
  BY DEF Approved, CreatedTotal
<1>2. AreOrders(orders', revisions')
  BY <1>1, OrdersStayOrders DEF ScheduleInvariant
<1>3. revisions' # <<>>
  BY CurrentLines
<1> QED BY <1>1, <1>2, <1>3 DEF ScheduleInvariant

\* No revision and no order at first.
LEMMA InitSchedule == ScheduleInit => ScheduleInvariant
<1> SUFFICES ASSUME ScheduleInit PROVE ScheduleInvariant
  OBVIOUS
<1>1. IsSequence(<<>>) /\ DOMAIN <<>> = {}
  BY EmptySeq DEF IsSequence
<1>2. Approved(orders) = {} /\ DOMAIN revisions = {} /\ DOMAIN orders = {}
  BY <1>1 DEF ScheduleInit, Approved
<1>3. AreRevisions(revisions, {}) /\ AreOrders(orders, revisions)
  BY <1>1, <1>2 DEF ScheduleInit, AreRevisions, AreOrders
<1> QED BY <1>2, <1>3 DEF ScheduleInit, ScheduleInvariant

\* The first, empty revision.
LEMMA CreateKeepsSchedule ==
    ASSUME ScheduleInvariant, CreateSchedule
    PROVE  ScheduleInvariant'
<1>1. /\ FirstRevision.status = "draft" /\ FirstRevision.lines = <<>>
      /\ FirstRevision = [status |-> FirstRevision.status, lines |-> FirstRevision.lines]
  BY DEF FirstRevision
<1>2. /\ revisions' = <<FirstRevision>> /\ orders' = orders /\ contractSum' = contractSum
      /\ revisions = <<>>
  BY DEF CreateSchedule
<1>3. /\ revisions' = [r \in 1..1 |-> revisions'[r]] /\ DOMAIN revisions' = {1}
      /\ revisions'[1] = FirstRevision
  BY <1>2
<1>4. IsSequence(revisions') /\ Len(revisions') = 1
  BY <1>3, SequenceFromFunction
<1>5. DOMAIN <<>> = {} /\ <<>> = [id \in {} |-> <<>>[id]]
  OBVIOUS
<1>6. \A A : AreLines(<<>>, A)
  BY <1>5, FS_EmptySet DEF AreLines
<1>7. AreRevisions(revisions', Approved(orders))
  BY <1>1, <1>3, <1>4, <1>6 DEF AreRevisions, IsRevision
<1>8. Current' = FirstRevision
  BY <1>3, <1>4 DEF Current
<1>9. AdjustmentTotal(<<>>) = 0
  BY <1>5, SumOfNone DEF AdjustmentTotal, SumFunction
<1>10. Approved(orders') = {} /\ CreatedTotal(orders') = 0
  <2>1. Approved(orders) = {} /\ Approved(orders') = Approved(orders)
    BY <1>2 DEF ScheduleInvariant
  <2> QED BY <2>1, SumOfNone DEF CreatedTotal, SumFunction
<1>11. AreOrders(orders', revisions')
  <2>1. DOMAIN revisions = {}
    BY <1>2
  <2> QED BY <1>2, <2>1, OrdersStayOrders DEF ScheduleInvariant
<1>12. AdjustsOnlyCreated(<<>>)
  BY <1>5 DEF AdjustsOnlyCreated
<1> QED BY <1>1, <1>2, <1>7, <1>8, <1>9, <1>10, <1>11, <1>12 DEF ScheduleInvariant

\* approve: the draft becomes the approved revision, its lines as they were.
LEMMA ApproveKeepsSchedule ==
    ASSUME ScheduleInvariant, ApproveSchedule
    PROVE  ScheduleInvariant' /\ KeepsFrozen(revisions, revisions')
<1> DEFINE n == Len(revisions)
           b == [status |-> "approved", lines |-> revisions[n].lines]
<1>1. /\ n \in DOMAIN revisions /\ n \in Nat /\ revisions # <<>>
      /\ Current = revisions[n] /\ IsSequence(revisions)
  BY CurrentLines DEF ApproveSchedule, IsEditable, Current, ScheduleInvariant, AreRevisions
<1>2. IsRevision(revisions[n], Approved(orders))
  BY <1>1 DEF ScheduleInvariant, AreRevisions
<1>3. revisions' = [revisions EXCEPT ![n] = b]
  <2>1. [revisions[n] EXCEPT !.status = "approved"] = b
    BY <1>2, RevisedRecord DEF IsRevision
  <2>2. revisions' = [revisions EXCEPT ![n] = [revisions[n] EXCEPT !.status = "approved"]]
    BY DEF ApproveSchedule
  <2> HIDE DEF n, b
  <2> QED BY <2>1, <2>2
<1>4. IsRevision(b, Approved(orders)) /\ b.status = "approved" /\ b.lines = revisions[n].lines
  BY <1>2 DEF IsRevision
<1> HIDE DEF n, b
<1>5. Replaces(revisions', revisions, n, b)
  BY <1>1, <1>3, ReplacedElement
<1>6. AreRevisions(revisions', Approved(orders))
  BY <1>1, <1>4, <1>5 DEF ScheduleInvariant, AreRevisions, Replaces, n
<1>7. Current'.lines = Current.lines
  BY <1>1, <1>4, <1>5 DEF Current, Replaces, n
<1>8. \A r \in DOMAIN revisions :
         revisions[r].status # "draft" => revisions'[r].status # "draft"
  BY <1>4, <1>5 DEF Replaces
<1>9. UNCHANGED <<orders, contractSum>>
  BY DEF ApproveSchedule
<1>10. KeepsFrozen(revisions, revisions')
  BY <1>4, <1>5 DEF Replaces, KeepsFrozen
<1> QED BY <1>1, <1>5, <1>6, <1>7, <1>8, <1>9, <1>10, SameOrders DEF Replaces

\* create_revision: the lines go on in the draft.
LEMMA ReviseKeepsSchedule ==
    ASSUME ScheduleInvariant, Revise
    PROVE  ScheduleInvariant' /\ KeepsFrozen(revisions, revisions')
<1> DEFINE n == Len(revisions)
           A == Approved(orders)
<1>1. revisions # <<>> /\ AreRevisions(revisions, A) /\ revisions' = Revised(revisions)
  BY DEF Revise, HasApproved, ScheduleInvariant
<1>2. AreRevisions(revisions', A) /\ Revises(revisions', revisions, n)
  BY <1>1, RevisedRevisions
<1> HIDE DEF n
<1>3. Current'.lines = Current.lines
  BY <1>2 DEF Current, Revises
<1>4. \A r \in DOMAIN revisions :
         revisions[r].status # "draft" => revisions'[r].status # "draft"
  BY <1>2 DEF Revises
<1>5. DOMAIN revisions \subseteq DOMAIN revisions'
  BY <1>2 DEF Revises
<1>6. UNCHANGED <<orders, contractSum>>
  BY DEF Revise
<1>7. KeepsFrozen(revisions, revisions')
  BY <1>2 DEF Revises, KeepsFrozen
<1> QED BY <1>1, <1>2, <1>3, <1>4, <1>5, <1>6, <1>7, SameOrders
\* A change order that leaves the approved ones alone.
LEMMA DraftsStayDrafts ==
    ASSUME ScheduleInvariant, UNCHANGED <<revisions, contractSum>>,
           AreOrders(orders', revisions), Approved(orders') = Approved(orders),
           \A k \in Approved(orders) : orders'[k] = orders[k]
    PROVE  ScheduleInvariant'
<1>1. CreatedTotal(orders') = CreatedTotal(orders)
  BY DEF CreatedTotal
<1>2. revisions' = revisions /\ contractSum' = contractSum /\ Current' = Current
  BY DEF Current
<1> QED BY <1>1, <1>2 DEF ScheduleInvariant

\* A new order is a draft without lines.
LEMMA CreateOrderKeepsSchedule ==
    ASSUME ScheduleInvariant, CreateOrder
    PROVE  ScheduleInvariant'
<1>1. AreOrders(orders, revisions) /\ orders' = Append(orders, NewOrder)
      /\ UNCHANGED <<revisions, contractSum>>
  BY DEF CreateOrder, ScheduleInvariant
<1>2. Extends(orders', orders, NewOrder)
  BY <1>1, AppendedElement DEF AreOrders
<1>3. IsOrder(NewOrder, revisions) /\ NewOrder.status = "draft"
  <2>1. IsSequence(<<>>) /\ DOMAIN <<>> = {}
    BY EmptySeq DEF IsSequence
  <2>2. LinesTotal(<<>>) = 0
    BY <2>1, SumOfNone DEF LinesTotal
  <2> QED BY <2>1, <2>2 DEF IsOrder, NewOrder
<1>4. AreOrders(orders', revisions)
  BY <1>1, <1>2, <1>3 DEF AreOrders, Extends
<1>5. Approved(orders') = Approved(orders) /\ \A k \in Approved(orders) : orders'[k] = orders[k]
  BY <1>2, <1>3 DEF Approved, Extends
<1> QED BY <1>1, <1>4, <1>5, DraftsStayDrafts

\* A line the form offers: of the approved schedule, or with its own number.
LEMMA OfferedLine ==
    ASSUME ScheduleInvariant, NEW orderLine \in OrderLines
    PROVE  IsOrderLine(orderLine, revisions)
<1>1. orderLine.amount \in Int
  BY ValuesAreIntegers DEF OrderLines
<1>2. CASE orderLine \in [target: {<<>>}, item: ItemNumbers, amount: Amounts]
  BY <1>1, <1>2 DEF IsOrderLine, CreatesLine
<1>3. CASE /\ HasApproved
           /\ orderLine \in [target: {Len(revisions)} \X DOMAIN Current.lines,
                              item: {""}, amount: Amounts]
  <2>1. Len(revisions) \in DOMAIN revisions /\ revisions[Len(revisions)].status = "approved"
    <3>1. revisions # <<>> /\ Current.status = "approved"
      BY <1>3 DEF HasApproved
    <3> QED BY <3>1, CurrentLines DEF Current
  <2>2. orderLine.target \in {Len(revisions)} \X DOMAIN Current.lines
    BY <1>3
  <2>3. orderLine.target[1] = Len(revisions) /\ orderLine.target # <<>>
    <3>1. orderLine.target = <<orderLine.target[1], orderLine.target[2]>>
      BY <2>2
    <3>2. \A x, y : <<x, y>> # <<>>
      OBVIOUS
    <3> QED BY <2>2, <3>1, <3>2
  <2> QED BY <1>1, <2>1, <2>3 DEF IsOrderLine, CreatesLine
<1> QED BY <1>2, <1>3 DEF OrderLines

\* A line more is its amount more.
LEMMA OneMoreLine ==
    ASSUME NEW order, NEW revs, IsOrder(order, revs), NEW line, IsOrderLine(line, revs),
           NEW lines, Extends(lines, order.lines, line)
    PROVE  LinesTotal(lines) = LinesTotal(order.lines) + line.amount
<1> DEFINE n == Len(order.lines)
           f == [j \in DOMAIN order.lines |-> order.lines[j].amount]
           g == [j \in DOMAIN lines |-> lines[j].amount]
<1>1. /\ n \in Nat /\ DOMAIN order.lines = 1..n /\ IsFiniteSet(1..n)
      /\ \A j \in DOMAIN order.lines : order.lines[j].amount \in Int
  <2>1. n \in Nat /\ DOMAIN order.lines = 1..n
    BY SequenceFacts DEF IsOrder
  <2>2. \A j \in DOMAIN order.lines : order.lines[j].amount \in Int
    BY DEF IsOrder, IsOrderLine
  <2> HIDE DEF n
  <2>3. IsFiniteSet(1..n)
    BY <2>1, FS_Interval
  <2> QED BY <2>1, <2>2, <2>3
<1>2. /\ DOMAIN lines = 1..n \cup {n + 1} /\ n + 1 \notin 1..n
      /\ lines[n + 1] = line /\ \A j \in 1..n : lines[j] = order.lines[j]
  BY <1>1 DEF Extends
<1>3. g[n + 1] = line.amount /\ \A j \in 1..n : g[j] = f[j] /\ f[j] \in Int
  BY <1>1, <1>2
<1>4. LinesTotal(lines) = SumFunctionOnSet(g, 1..n \cup {n + 1})
      /\ LinesTotal(order.lines) = SumFunctionOnSet(f, 1..n)
  BY <1>1, <1>2 DEF LinesTotal
<1>5. line.amount \in Int
  BY DEF IsOrderLine
<1> HIDE DEF f, g, n
<1>6. IntegersOn(f, 1..n) /\ IntegersOn(g, 1..n \cup {n + 1})
  BY <1>3, <1>5 DEF IntegersOn
<1>7. SumFunctionOnSet(g, 1..n \cup {n + 1}) = SumFunctionOnSet(g, 1..n) + g[n + 1]
  BY <1>1, <1>2, <1>6, SumWithOneMore
<1>8. SumFunctionOnSet(g, 1..n) = SumFunctionOnSet(f, 1..n)
  BY <1>1, <1>3, <1>6, SumOfEquals
<1> QED BY <1>3, <1>4, <1>7, <1>8

\* add_line of a draft order.
LEMMA AddOrderLineKeepsSchedule ==
    ASSUME ScheduleInvariant, NEW k \in DOMAIN orders, NEW orderLine \in OrderLines,
           AddOrderLine(k, orderLine)
    PROVE  ScheduleInvariant'
<1> DEFINE old == orders[k]
           order == [status |-> "draft", lines |-> Append(old.lines, orderLine),
                     amount |-> old.amount + orderLine.amount]
<1>1. AreOrders(orders, revisions) /\ UNCHANGED <<revisions, contractSum>>
  BY DEF AddOrderLine, ScheduleInvariant
<1>2. IsOrder(old, revisions) /\ IsOrderLine(orderLine, revisions)
  BY <1>1, OfferedLine DEF AreOrders
<1>3. /\ old.status = "draft"
      /\ orders' = [orders EXCEPT ![k] =
                       [old EXCEPT !.lines = Append(old.lines, orderLine),
                                   !.amount = old.amount + orderLine.amount]]
  BY DEF AddOrderLine, WithOrderLine
<1> HIDE DEF old
<1>4. [old EXCEPT !.lines = Append(old.lines, orderLine),
                  !.amount = old.amount + orderLine.amount] = order
  <2> DEFINE l == old.lines
             a == old.amount
             lines == Append(l, orderLine)
             amount == a + orderLine.amount
  <2> HIDE DEF l, a, lines, amount, order
  <2>1. old = [status |-> "draft", lines |-> l, amount |-> a]
    BY <1>2, <1>3 DEF IsOrder, l, a
  <2>2. [old EXCEPT !.lines = lines, !.amount = amount] =
            [status |-> "draft", lines |-> lines, amount |-> amount]
    <3> DEFINE new == [old EXCEPT !.lines = lines, !.amount = amount]
    <3>1. new = [old EXCEPT !.lines = lines, !.amount = amount]
      OBVIOUS
    <3> HIDE DEF new
    <3>2. new = [status |-> "draft", lines |-> lines, amount |-> amount]
      BY <2>1, <3>1
    <3> QED BY <3>1, <3>2
  <2> QED BY <2>2 DEF l, a, lines, amount, order
<1>5. orders' = [orders EXCEPT ![k] = order]
  BY <1>3, <1>4
<1>6. IsOrder(order, revisions) /\ order.status = "draft"
  <2> DEFINE lines == Append(old.lines, orderLine)
             amount == old.amount + orderLine.amount
  <2>1. Extends(lines, old.lines, orderLine)
    BY <1>2, AppendedElement DEF IsOrder
  <2>2. amount \in Int
    BY <1>2 DEF IsOrder, IsOrderLine
  <2>3. amount = LinesTotal(lines)
    <3>1. old.amount = LinesTotal(old.lines)
      BY <1>2 DEF IsOrder
    <3> HIDE DEF lines
    <3> QED BY <1>2, <2>1, <3>1, OneMoreLine
  <2> HIDE DEF lines, amount
  <2>4. IsSequence(lines) /\ \A j \in DOMAIN lines : IsOrderLine(lines[j], revisions)
    BY <1>2, <2>1 DEF Extends, IsOrder
  <2>5. order = [status |-> "draft", lines |-> lines, amount |-> amount]
    BY DEF lines, amount
  <2> HIDE DEF order
  <2> QED BY <2>2, <2>3, <2>4, <2>5 DEF IsOrder
<1> HIDE DEF order
<1>7. Replaces(orders', orders, k, order)
  BY <1>1, <1>5, ReplacedElement DEF AreOrders
<1>8. AreOrders(orders', revisions)
  BY <1>1, <1>6, <1>7 DEF AreOrders, Replaces
<1>9. Approved(orders') = Approved(orders) /\ \A j \in Approved(orders) : orders'[j] = orders[j]
  BY <1>3, <1>6, <1>7 DEF Approved, Replaces, old
<1> QED BY <1>1, <1>8, <1>9, DraftsStayDrafts

\* What an order creates is an integer.
LEMMA CreatedIsInteger ==
    ASSUME NEW order, NEW revs, IsOrder(order, revs)
    PROVE  CreatedBy(order) \in Int
<1> DEFINE S == CreatingLines(order)
           f == [j \in S |-> order.lines[j].amount]
<1>1. CreatedBy(order) = SumFunctionOnSet(f, S)
  BY DEF CreatedBy, SumFunction
<1>2. IsFiniteSet(DOMAIN order.lines)
  <2>1. Len(order.lines) \in Nat /\ DOMAIN order.lines = 1..Len(order.lines)
    BY SequenceFacts DEF IsOrder
  <2> QED BY <2>1, FS_Interval
<1>3. IsFiniteSet(S)
  BY <1>2, FS_Subset DEF CreatingLines
<1>4. IntegersOn(f, S)
  BY DEF IntegersOn, IsOrder, IsOrderLine, CreatingLines
<1> HIDE DEF f, S
<1> QED BY <1>1, <1>3, <1>4, SumSplits

\* An approved order adds what it creates to the total.
LEMMA CreatedWithOrder ==
    ASSUME NEW os, NEW revs, AreOrders(os, revs), NEW k \in DOMAIN os, k \notin Approved(os),
           NEW after, DOMAIN after = DOMAIN os, Approved(after) = Approved(os) \cup {k},
           \A j \in DOMAIN os : j # k => after[j] = os[j],
           after[k].lines = os[k].lines
    PROVE  CreatedTotal(after) = CreatedTotal(os) + CreatedBy(os[k])
<1> DEFINE A == Approved(os)
           f == [j \in A |-> CreatedBy(os[j])]
           g == [j \in A \cup {k} |-> CreatedBy(after[j])]
<1>1. CreatedTotal(os) = SumFunctionOnSet(f, A) /\ CreatedTotal(after) = SumFunctionOnSet(g, A \cup {k})
  BY DEF CreatedTotal, SumFunction
<1>2. IsFiniteSet(A) /\ A \subseteq DOMAIN os
  <2>1. Len(os) \in Nat /\ DOMAIN os = 1..Len(os)
    BY SequenceFacts DEF AreOrders
  <2>2. IsFiniteSet(DOMAIN os)
    BY <2>1, FS_Interval
  <2> QED BY <2>2, FS_Subset DEF Approved
<1>3. \A j \in DOMAIN os : CreatedBy(os[j]) \in Int
  BY CreatedIsInteger DEF AreOrders
<1>4. CreatedBy(after[k]) = CreatedBy(os[k])
  BY DEF CreatedBy, CreatingLines
<1>5. \A j \in A : g[j] = f[j]
  BY <1>2
<1>6. g[k] = CreatedBy(os[k])
  BY <1>4
<1>7. IntegersOn(f, A)
  BY <1>2, <1>3 DEF IntegersOn
<1>8. IntegersOn(g, A \cup {k})
  BY <1>2, <1>3, <1>4, <1>5 DEF IntegersOn
<1> HIDE DEF A, f, g
<1>9. SumFunctionOnSet(g, A \cup {k}) = SumFunctionOnSet(g, A) + g[k]
  BY <1>2, <1>8, SumWithOneMore DEF A
<1>10. SumFunctionOnSet(g, A) = SumFunctionOnSet(f, A)
  BY <1>2, <1>5, <1>7, SumOfEquals
<1> QED BY <1>1, <1>6, <1>9, <1>10
\* The approval of an order: the revision it is landed on is a copy that none of
\* its lines names, so it carries what the last one did and what this order
\* creates.
LEMMA ApproveOrderKeepsSchedule ==
    ASSUME ScheduleInvariant, NEW k \in DOMAIN orders, ApproveOrder(k)
    PROVE  ScheduleInvariant' /\ KeepsFrozen(revisions, revisions')
<1> DEFINE n == Len(revisions)
           A == Approved(orders)
           order == orders[k]
           copied == Revised(revisions)
           adjusted == Adjusted(copied, order)
           landed == LandedOn(revisions[n].lines, order, k)
           b == [status |-> "approved", lines |-> landed]
<1>1. /\ revisions # <<>> /\ order.status = "draft" /\ contractSum' = contractSum
      /\ AreRevisions(revisions, A) /\ AreOrders(orders, revisions)
      /\ revisions' = [Landed(adjusted, k) EXCEPT ![Len(Landed(adjusted, k))].status = "approved"]
      /\ orders' = [orders EXCEPT ![k].status = "approved"]
  BY DEF ApproveOrder, HasApproved, ScheduleInvariant
<1>2. IsOrder(order, revisions)
  BY <1>1 DEF AreOrders
<1>3. AreRevisions(copied, A) /\ Revises(copied, revisions, n)
  BY <1>1, RevisedRevisions
<1> HIDE DEF copied
<1>4. AreRevisions(adjusted, A) /\ Adjusts(adjusted, copied, order)
  BY <1>2, <1>3, AdjustedRevisions
<1> HIDE DEF adjusted, A, n
<1>5. n \in Nat \ {0} /\ DOMAIN revisions = 1..n /\ Current = revisions[n]
      /\ DOMAIN adjusted = 1..(n + 1) /\ Len(adjusted) = n + 1 /\ IsSequence(adjusted)
  BY <1>3, <1>4 DEF Revises, Adjusts, AreRevisions, Current, n
<1>6. adjusted[n + 1].lines = revisions[n].lines /\ adjusted[n + 1].status = "draft"
  <2>1. \A id : \A j \in DOMAIN order.lines : order.lines[j].target # <<n + 1, id>>
    <3> SUFFICES ASSUME NEW id, NEW j \in DOMAIN order.lines,
                        order.lines[j].target = <<n + 1, id>>
                 PROVE  FALSE
      OBVIOUS
    <3>1. ~CreatesLine(order.lines[j]) /\ order.lines[j].target[1] = n + 1
      BY DEF CreatesLine
    <3>2. n + 1 \in 1..n
      BY <1>2, <1>5, <3>1 DEF IsOrder, IsOrderLine
    <3> QED BY <1>5, <3>2
  <2>2. n + 1 \in DOMAIN copied
    BY <1>3 DEF Revises
  <2>3. adjusted[n + 1] = copied[n + 1]
    BY <1>4, <2>1, <2>2 DEF Adjusts
  <2> QED BY <1>3, <2>3 DEF Revises
<1>7. IsRevision(adjusted[n + 1], A)
  BY <1>4, <1>5 DEF AreRevisions
<1>8. /\ AreLines(landed, A \cup {k}) /\ AdjustsOnlyCreated(landed)
      /\ AdjustmentTotal(landed) = AdjustmentTotal(Current.lines) + CreatedBy(order)
  <2>1. AreLines(Current.lines, A) /\ AdjustsOnlyCreated(Current.lines)
    BY <1>1, CurrentLines DEF ScheduleInvariant, A
  <2>2. k \in Nat \ {0}
    <3>1. DOMAIN orders = 1..Len(orders) /\ Len(orders) \in Nat
      BY <1>1, SequenceFacts DEF AreOrders
    <3> QED BY <3>1
  <2> HIDE DEF order
  <2> QED BY <1>2, <1>5, <2>1, <2>2, LandedLines
<1> HIDE DEF landed
<1>9. Replaces(revisions', adjusted, n + 1, b)
  <2> DEFINE draft == [status |-> "draft", lines |-> landed]
             with == [adjusted EXCEPT ![n + 1] = draft]
  <2>1. Landed(adjusted, k) = with
    <3>1. Landed(adjusted, k) =
              [adjusted EXCEPT ![Len(adjusted)] =
                  [adjusted[Len(adjusted)] EXCEPT !.lines =
                      LandedOn(adjusted[Len(adjusted)].lines, orders[k], k)]]
      BY DEF Landed, LandedOn, CreatingLines
    <3>2. LandedOn(adjusted[Len(adjusted)].lines, orders[k], k) = landed
      BY <1>5, <1>6 DEF landed
    <3>3. [adjusted[n + 1] EXCEPT !.lines = landed] = draft
      BY <1>6, <1>7, RevisedRecord DEF IsRevision
    <3> HIDE DEF draft
    <3> QED BY <1>5, <3>1, <3>2, <3>3
  <2>2. n + 1 \in DOMAIN adjusted
    BY <1>5
  <2>3. Replaces(with, adjusted, n + 1, draft)
    <3> HIDE DEF draft
    <3> QED BY <1>5, <2>2, ReplacedElement
  <2>4. [draft EXCEPT !.status = "approved"] = b
    OBVIOUS
  <2> HIDE DEF with, draft, b
  <2>5. Len(with) = n + 1 /\ with[n + 1] = draft /\ DOMAIN with = DOMAIN adjusted
    BY <1>5, <2>3 DEF Replaces
  <2>6. revisions' = [with EXCEPT ![n + 1] = b]
    <3>1. revisions' = [with EXCEPT ![Len(with)] = [with[Len(with)] EXCEPT !.status = "approved"]]
      BY <1>1, <2>1
    <3> QED BY <2>4, <2>5, <3>1
  <2>7. Replaces(revisions', with, n + 1, b)
    BY <2>2, <2>3, <2>5, <2>6, ReplacedElement DEF Replaces
  <2> QED BY <2>3, <2>7 DEF Replaces
<1>10. /\ DOMAIN orders' = DOMAIN orders /\ IsSequence(orders')
       /\ orders'[k] = [status |-> "approved", lines |-> order.lines, amount |-> order.amount]
       /\ \A j \in DOMAIN orders : j # k => orders'[j] = orders[j]
  <2> DEFINE s == [status |-> "approved", lines |-> order.lines, amount |-> order.amount]
             was == orders[k]
             l == was.lines
             a == was.amount
  <2> HIDE DEF s, was, l, a
  <2>1. was = [status |-> "draft", lines |-> l, amount |-> a]
    BY <1>1, <1>2 DEF IsOrder, was, l, a
  <2>2. orders' = [orders EXCEPT ![k] = [was EXCEPT !.status = "approved"]]
    BY <1>1 DEF was
  <2>3. [was EXCEPT !.status = "approved"] = [status |-> "approved", lines |-> l, amount |-> a]
    BY <2>1
  <2>4. orders' = [orders EXCEPT ![k] = s]
    BY <2>2, <2>3 DEF s, l, a, was
  <2>5. IsSequence(orders)
    BY <1>1 DEF AreOrders
  <2>6. Replaces(orders', orders, k, s)
    BY <2>4, <2>5, ReplacedElement
  <2> QED BY <2>6 DEF Replaces, s
<1> HIDE DEF b, order
<1>11. orders'[k].status = "approved" /\ orders'[k].lines = orders[k].lines
       /\ orders'[k].amount = orders[k].amount
  BY <1>10 DEF order
<1>12. Approved(orders') = A \cup {k} /\ k \notin A
  BY <1>1, <1>10, <1>11 DEF Approved, A, order
<1>13. AreOrders(orders', revisions)
  <2>1. IsOrder(orders'[k], revisions)
    BY <1>2, <1>10, <1>11 DEF IsOrder, order
  <2> QED BY <1>1, <1>10, <2>1 DEF AreOrders
<1>14. b.status = "approved" /\ b.lines = landed /\ IsRevision(b, A \cup {k})
  BY <1>8 DEF b, IsRevision
<1>15. AreRevisions(revisions', A \cup {k})
  <2>1. \A r \in DOMAIN adjusted : IsRevision(adjusted[r], A \cup {k})
    BY <1>4, LinesStayLines DEF AreRevisions, IsRevision
  <2>2. \A r \in DOMAIN revisions' : IsRevision(revisions'[r], A \cup {k})
    BY <1>9, <1>14, <2>1 DEF Replaces
  <2>3. \A r \in DOMAIN revisions' :
          revisions'[r].status = "superseded" <=> r < Len(revisions')
    BY <1>4, <1>5, <1>6, <1>9, <1>14 DEF Replaces, AreRevisions
  <2>4. IsSequence(revisions')
    BY <1>9 DEF Replaces
  <2> QED BY <2>2, <2>3, <2>4 DEF AreRevisions
<1>16. AreOrders(orders', revisions')
  <2>1. DOMAIN revisions \subseteq DOMAIN revisions'
    BY <1>5, <1>9 DEF Replaces
  <2>2. ASSUME NEW r \in DOMAIN revisions, revisions[r].status # "draft"
        PROVE  revisions'[r].status # "draft"
    <3>1. r \in 1..n /\ r # n + 1
      BY <1>5
    <3>2. revisions'[r] = adjusted[r] /\ adjusted[r].status = copied[r].status
      BY <1>3, <1>4, <1>5, <1>9, <3>1 DEF Replaces, Adjusts, Revises
    <3> QED BY <1>3, <2>2, <3>1, <3>2 DEF Revises
  <2> QED BY <1>13, <2>1, <2>2, OrdersStayOrders
<1>17. Current'.lines = landed /\ revisions' # <<>>
  BY <1>5, <1>9, <1>14 DEF Current, Replaces
<1>18. CreatedTotal(orders') = CreatedTotal(orders) + CreatedBy(order)
  <2>1. Approved(orders') = Approved(orders) \cup {k} /\ k \notin Approved(orders)
    BY <1>12 DEF A
  <2>2. AreOrders(orders, revisions) /\ DOMAIN orders' = DOMAIN orders
        /\ \A j \in DOMAIN orders : j # k => orders'[j] = orders[j]
    BY <1>1, <1>10
  <2>3. orders'[k].lines = orders[k].lines
    BY <1>11
  <2>4. ASSUME NEW os, os = orders'
        PROVE  CreatedTotal(os) = CreatedTotal(orders) + CreatedBy(orders[k])
    BY <2>1, <2>2, <2>3, <2>4, CreatedWithOrder
  <2> QED BY <2>4 DEF order
<1>19. AdjustmentTotal(Current.lines) = CreatedTotal(orders)
  BY <1>1 DEF ScheduleInvariant
<1>20. KeepsFrozen(revisions, revisions')
  <2> SUFFICES ASSUME NEW r \in DOMAIN revisions, revisions[r].status # "draft"
               PROVE  /\ revisions'[r].status # "draft"
                      /\ DOMAIN revisions'[r].lines = DOMAIN revisions[r].lines
                      /\ \A id \in DOMAIN revisions[r].lines :
                            /\ revisions'[r].lines[id].item = revisions[r].lines[id].item
                            /\ revisions'[r].lines[id].base = revisions[r].lines[id].base
    BY DEF KeepsFrozen
  <2>1. r \in 1..n /\ r # n + 1 /\ r \in DOMAIN adjusted /\ r \in DOMAIN copied
    BY <1>3, <1>5 DEF Revises
  <2>2. revisions'[r] = adjusted[r]
    BY <1>9, <2>1 DEF Replaces
  <2>3. copied[r].status # "draft" /\ copied[r].lines = revisions[r].lines
    BY <1>3, <2>1 DEF Revises
  <2>4. /\ adjusted[r].status = copied[r].status
        /\ DOMAIN adjusted[r].lines = DOMAIN copied[r].lines
        /\ \A id \in DOMAIN copied[r].lines :
              /\ adjusted[r].lines[id].item = copied[r].lines[id].item
              /\ adjusted[r].lines[id].base = copied[r].lines[id].base
    BY <1>4, <2>1 DEF Adjusts
  <2> QED BY <2>2, <2>3, <2>4
<1> QED BY <1>1, <1>8, <1>12, <1>15, <1>16, <1>17, <1>18, <1>19, <1>20 DEF ScheduleInvariant

-----------------------------------------------------------------------------
(* The theorems                                                             *)

\* Every step keeps the invariant and the frozen revisions.
LEMMA NextKeepsSchedule ==
    ASSUME ScheduleInvariant, [ScheduleNext]_scheduleVars
    PROVE  ScheduleInvariant' /\ KeepsFrozen(revisions, revisions')
<1>1. \A revs : KeepsFrozen(revs, revs)
  BY DEF KeepsFrozen
<1>2. ASSUME NEW sum \in ContractSums, EditContractSum(sum)
      PROVE  ScheduleInvariant' /\ KeepsFrozen(revisions, revisions')
  BY <1>1, <1>2 DEF EditContractSum, ScheduleInvariant, Current
<1>3. CASE CreateSchedule
  <2>1. KeepsFrozen(revisions, revisions')
    BY <1>3 DEF CreateSchedule, KeepsFrozen
  <2> QED BY <1>3, <2>1, CreateKeepsSchedule
<1>4. ASSUME NEW item \in ItemNumbers, NEW value \in Values, AddLine(item, value)
      PROVE  ScheduleInvariant' /\ KeepsFrozen(revisions, revisions')
  <2>1. IsEditable /\ UNCHANGED <<orders, contractSum>>
    BY <1>4 DEF AddLine
  <2>2. PICK lines \in WithLine(Current.lines, item, value) : SetLines(lines)
    BY <1>4 DEF AddLine
  <2>3. AreLines(Current.lines, Approved(orders)) /\ AdjustsOnlyCreated(Current.lines)
    BY <2>1, CurrentLines DEF IsEditable, ScheduleInvariant
  <2>4. /\ AreLines(lines, Approved(orders)) /\ AdjustsOnlyCreated(lines)
        /\ AdjustmentTotal(lines) = AdjustmentTotal(Current.lines)
    BY <2>3, LinesWithOne
  <2> QED BY <2>1, <2>2, <2>4, EditKeepsSchedule
<1>5. ASSUME revisions # <<>>, NEW id \in DOMAIN Current.lines,
             NEW item \in ItemNumbers, NEW value \in Values, UpdateLine(id, item, value)
      PROVE  ScheduleInvariant' /\ KeepsFrozen(revisions, revisions')
  <2> DEFINE lines == [Current.lines EXCEPT ![id] = Retyped(@, item, value)]
  <2>1. IsEditable /\ UNCHANGED <<orders, contractSum>> /\ SetLines(lines)
    BY <1>5 DEF UpdateLine
  <2>2. AreLines(Current.lines, Approved(orders)) /\ AdjustsOnlyCreated(Current.lines)
    BY <1>5, CurrentLines DEF ScheduleInvariant
  <2>3. /\ AreLines(lines, Approved(orders)) /\ AdjustsOnlyCreated(lines)
        /\ AdjustmentTotal(lines) = AdjustmentTotal(Current.lines)
    BY <2>2, LinesRetyped
  <2> HIDE DEF lines
  <2> QED BY <2>1, <2>3, EditKeepsSchedule
<1>6. ASSUME revisions # <<>>, NEW id \in DOMAIN Current.lines, RemoveLine(id)
      PROVE  ScheduleInvariant' /\ KeepsFrozen(revisions, revisions')
  <2> DEFINE lines == Without(Current.lines, id)
  <2>1. IsEditable /\ UNCHANGED <<orders, contractSum>> /\ SetLines(lines)
        /\ IsRemovable(Current.lines[id])
    BY <1>6 DEF RemoveLine
  <2>2. AreLines(Current.lines, Approved(orders)) /\ AdjustsOnlyCreated(Current.lines)
    BY <1>6, CurrentLines DEF ScheduleInvariant
  <2>3. /\ AreLines(lines, Approved(orders)) /\ AdjustsOnlyCreated(lines)
        /\ AdjustmentTotal(lines) = AdjustmentTotal(Current.lines)
    BY <2>1, <2>2, LinesWithout
  <2> HIDE DEF lines
  <2> QED BY <2>1, <2>3, EditKeepsSchedule
<1>7. CASE ApproveSchedule
  BY <1>7, ApproveKeepsSchedule
<1>8. CASE Revise
  BY <1>8, ReviseKeepsSchedule
<1>9. CASE CreateOrder
  BY <1>1, <1>9, CreateOrderKeepsSchedule DEF CreateOrder
<1>10. ASSUME NEW k \in DOMAIN orders, NEW orderLine \in OrderLines, AddOrderLine(k, orderLine)
       PROVE  ScheduleInvariant' /\ KeepsFrozen(revisions, revisions')
  BY <1>1, <1>10, AddOrderLineKeepsSchedule DEF AddOrderLine
<1>11. ASSUME NEW k \in DOMAIN orders, ApproveOrder(k)
       PROVE  ScheduleInvariant' /\ KeepsFrozen(revisions, revisions')
  BY <1>11, ApproveOrderKeepsSchedule
<1>12. CASE UNCHANGED scheduleVars
  BY <1>1, <1>12 DEF scheduleVars, ScheduleInvariant, Current
<1> QED BY <1>2, <1>3, <1>4, <1>5, <1>6, <1>7, <1>8, <1>9, <1>10, <1>11, <1>12 DEF ScheduleNext

\* The inductive invariant holds in every state: the lines of every revision,
\* the one live revision, the orders, and the total of the adjustments that the
\* newest revision carries.
THEOREM ScheduleInvariantHolds == ScheduleSpec => []ScheduleInvariant
<1>1. ScheduleInit => ScheduleInvariant
  BY InitSchedule
<1>2. ScheduleInvariant /\ [ScheduleNext]_scheduleVars => ScheduleInvariant'
  BY NextKeepsSchedule
<1> QED BY <1>1, <1>2, PTL DEF ScheduleSpec

\* Every line is derived: its scheduled value is its base value plus what change
\* orders adjusted, and a line an order created names an approved one.
THEOREM LinesAreDerived == ScheduleSpec => []TypeOK
<1>1. ScheduleInvariant => TypeOK
  BY DEF ScheduleInvariant, TypeOK, AreRevisions, IsRevision, AreLines, IsLine, AreOrders, IsOrder
<1> QED BY <1>1, ScheduleInvariantHolds, PTL

\* A contract has one live revision of its schedule, the newest.
THEOREM OneRevisionIsLive == ScheduleSpec => []OneLiveRevision
<1>1. ScheduleInvariant => OneLiveRevision
  BY DEF ScheduleInvariant, OneLiveRevision, AreRevisions
<1> QED BY <1>1, ScheduleInvariantHolds, PTL

\* An order amounts to what its lines create and what they adjust.
LEMMA AmountOfOrder ==
    ASSUME NEW order, NEW revs, IsOrder(order, revs)
    PROVE  /\ order.amount = CreatedBy(order) + AdjustedIn(order)
           /\ CreatedBy(order) \in Int /\ AdjustedIn(order) \in Int
<1> DEFINE D == DOMAIN order.lines
           S == CreatingLines(order)
           T == AdjustingLines(order)
           h == [j \in D |-> order.lines[j].amount]
           f == [j \in S |-> order.lines[j].amount]
           g == [j \in T |-> order.lines[j].amount]
<1>1. IsFiniteSet(D)
  <2>1. Len(order.lines) \in Nat /\ D = 1..Len(order.lines)
    BY SequenceFacts DEF IsOrder
  <2> QED BY <2>1, FS_Interval
<1>2. /\ D = S \cup T /\ S \cap T = {}
      /\ \A j \in S : f[j] = h[j]
      /\ \A j \in T : g[j] = h[j]
  BY DEF CreatingLines, AdjustingLines
<1>3. IntegersOn(h, S) /\ IntegersOn(h, T)
  BY DEF IntegersOn, IsOrder, IsOrderLine, CreatingLines, AdjustingLines
<1>4. /\ order.amount = SumFunctionOnSet(h, D)
      /\ CreatedBy(order) = SumFunctionOnSet(f, S)
      /\ AdjustedIn(order) = SumFunctionOnSet(g, T)
  BY DEF IsOrder, LinesTotal, CreatedBy, AdjustedIn, SumFunction
<1> HIDE DEF D, S, T, f, g, h
<1>5. IsFiniteSet(S) /\ IsFiniteSet(T)
  BY <1>1, <1>2, FS_Subset
<1>6. SumFunctionOnSet(f, S) = SumFunctionOnSet(h, S)
      /\ SumFunctionOnSet(g, T) = SumFunctionOnSet(h, T)
  BY <1>2, <1>3, <1>5, SumOfEquals
<1>7. SumFunctionOnSet(h, S) \in Int /\ SumFunctionOnSet(h, T) \in Int
  BY <1>3, <1>5, SumSplits
<1>8. SumFunctionOnSet(h, D) = SumFunctionOnSet(h, S) + SumFunctionOnSet(h, T)
  BY <1>2, <1>3, <1>5, SumOfUnion
<1> QED BY <1>4, <1>6, <1>7, <1>8

\* So do the approved ones together.
LEMMA ApprovedAmounts ==
    ASSUME NEW os, NEW revs, AreOrders(os, revs)
    PROVE  /\ ApprovedTotal(os) = CreatedTotal(os) + AdjustingTotal(os)
           /\ CreatedTotal(os) \in Int /\ AdjustingTotal(os) \in Int
<1> DEFINE A == Approved(os)
           h == [k \in A |-> os[k].amount]
           f == [k \in A |-> CreatedBy(os[k])]
           g == [k \in A |-> AdjustedIn(os[k])]
<1>1. IsFiniteSet(A)
  <2>1. Len(os) \in Nat /\ DOMAIN os = 1..Len(os)
    BY SequenceFacts DEF AreOrders
  <2>2. IsFiniteSet(DOMAIN os)
    BY <2>1, FS_Interval
  <2> QED BY <2>2, FS_Subset DEF Approved
<1>2. \A k \in A : h[k] = f[k] + g[k] /\ f[k] \in Int /\ g[k] \in Int
  BY AmountOfOrder DEF AreOrders, Approved
<1>3. /\ ApprovedTotal(os) = SumFunctionOnSet(h, A)
      /\ CreatedTotal(os) = SumFunctionOnSet(f, A)
      /\ AdjustingTotal(os) = SumFunctionOnSet(g, A)
  BY DEF ApprovedTotal, CreatedTotal, AdjustingTotal, AdjustedIn, AdjustingLines, SumFunction
<1> HIDE DEF A, f, g, h
<1>4. IntegersOn(f, A) /\ IntegersOn(g, A)
  BY <1>2 DEF IntegersOn
<1>5. SumFunctionOnSet(h, A) = SumFunctionOnSet(f, A) + SumFunctionOnSet(g, A)
  BY <1>1, <1>2, <1>4, SumOfSums
<1> QED BY <1>1, <1>3, <1>4, <1>5, SumSplits

\* The two routes to line 2 differ by the lines of approved orders that adjust,
\* to the cent: nothing an order created is lost, doubled or retyped away.
THEOREM RoutesToLineTwo == ScheduleSpec => []RoutesDifferByAdjustingLines
<1>1. ScheduleInvariant => RoutesDifferByAdjustingLines
  <2> SUFFICES ASSUME ScheduleInvariant, revisions # <<>>
               PROVE  ApprovedTotal(orders) - AdjustmentTotal(Current.lines) = AdjustingTotal(orders)
    BY DEF RoutesDifferByAdjustingLines
  <2>1. AreOrders(orders, revisions) /\ AdjustmentTotal(Current.lines) = CreatedTotal(orders)
    BY DEF ScheduleInvariant
  <2>2. /\ ApprovedTotal(orders) = CreatedTotal(orders) + AdjustingTotal(orders)
        /\ CreatedTotal(orders) \in Int /\ AdjustingTotal(orders) \in Int
    BY <2>1, ApprovedAmounts
  <2> QED BY <2>1, <2>2
<1> QED BY <1>1, ScheduleInvariantHolds, PTL

\* No step takes a line, an item number or a base value from a revision that was
\* approved or superseded.
THEOREM FrozenRevisionsStay == ScheduleSpec => FrozenLinesKeepTheirBase
<1> DEFINE Kept == KeepsFrozen(revisions, revisions')
<1>1. ScheduleInvariant /\ [ScheduleNext]_scheduleVars => [Kept]_scheduleVars
  BY NextKeepsSchedule
<1>2. Kept => \A r \in DOMAIN revisions :
          revisions[r].status # "draft" =>
              /\ revisions'[r].status # "draft"
              /\ DOMAIN revisions'[r].lines = DOMAIN revisions[r].lines
              /\ \A id \in DOMAIN revisions[r].lines :
                    /\ revisions'[r].lines[id].item = revisions[r].lines[id].item
                    /\ revisions'[r].lines[id].base = revisions[r].lines[id].base
  BY DEF KeepsFrozen
<1> HIDE DEF Kept
<1> QED BY <1>1, <1>2, ScheduleInvariantHolds, PTL DEF ScheduleSpec, FrozenLinesKeepTheirBase
=============================================================================
