-------------------------- MODULE ScheduleOfValues --------------------------
(***************************************************************************)
(* The schedule of values of one contract, its revisions, and the change    *)
(* orders that land on it.                                                  *)
(*                                                                         *)
(* Code: services/sov.py, services/change_order.py and the views that       *)
(* commit them (blueprints/sov.py, blueprints/workflow.py).  A request is   *)
(* one step: a refused one leaves nothing behind.                           *)
(*                                                                         *)
(* revisions[r] is revision number r.  A line is known by the pair          *)
(* <<r, id>>; a copy in the next revision keeps its id.                     *)
(***************************************************************************)
EXTENDS Integers, Sequences, FiniteSets, Functions

CONSTANTS
    ItemNumbers,    \* item numbers a person may type
    Values,         \* scheduled values a person may type
    Amounts,        \* amounts of a change-order line
    ContractSums,   \* original contract sums the contract form may save
    MaxRevisions,   \* bound: revisions of the schedule
    MaxLines,       \* bound: lines of one revision
    MaxOrders,      \* bound: change orders on the contract
    MaxOrderLines   \* bound: lines of one change order

ASSUME ValuesAreIntegers ==
    /\ Values \subseteq Int /\ Amounts \subseteq Int /\ ContractSums \subseteq Int
    /\ {MaxRevisions, MaxLines, MaxOrders, MaxOrderLines} \subseteq Nat

VARIABLES
    revisions,      \* [status, lines: id -> [item, base, adjustment, current, fromOrder]]
    orders,         \* [status, lines, amount], by order of creation
    contractSum     \* the original contract sum

scheduleVars == <<revisions, orders, contractSum>>

-----------------------------------------------------------------------------
Current == revisions[Len(revisions)]

\* _schedule_for: views edit the newest revision, and only while it is a draft.
IsEditable == revisions # <<>> /\ Current.status = "draft"
HasApproved == revisions # <<>> /\ Current.status = "approved"

TotalScheduled(lines) == SumFunction([id \in DOMAIN lines |-> lines[id].current])

AdjustmentTotal(lines) == SumFunction([id \in DOMAIN lines |-> lines[id].adjustment])

Approved(os) == {k \in DOMAIN os : os[k].status = "approved"}

ApprovedTotal(os) == SumFunction([k \in Approved(os) |-> os[k].amount])

ContractSumToDate(os) == contractSum + ApprovedTotal(os)

\* Ids for new lines: one not in use, and one after which none is.
Unused(lines) == CHOOSE n \in 1..Cardinality(DOMAIN lines) + 1 : n \notin DOMAIN lines

Top(lines) == IF DOMAIN lines = {} THEN 0 ELSE CHOOSE n \in DOMAIN lines : \A m \in DOMAIN lines : m <= n

\* What sov.approve asks of a draft.
MayApprove(lines, os) ==
    /\ DOMAIN lines # {}
    /\ TotalScheduled(lines) = ContractSumToDate(os)

-----------------------------------------------------------------------------
(* The schedule (services/sov.py)                                           *)

ScheduleInit ==
    /\ revisions = <<>>
    /\ orders = <<>>
    /\ contractSum \in ContractSums

EditContractSum(sum) ==
    /\ contractSum' = sum
    /\ UNCHANGED <<revisions, orders>>

FirstRevision == [status |-> "draft", lines |-> <<>>]

CreateSchedule ==
    /\ revisions = <<>>
    /\ revisions' = <<FirstRevision>>
    /\ UNCHANGED <<orders, contractSum>>

SetLines(lines) == revisions' = [revisions EXCEPT ![Len(revisions)].lines = lines]

\* The one edit that checks the item number against the other lines: what
\* add_line makes of them, or nothing when it refuses.
WithLine(lines, item, value) ==
    LET new == Unused(lines)
        line == [item |-> item, base |-> value, adjustment |-> 0,
                 current |-> value, fromOrder |-> 0]
    IN  IF \E id \in DOMAIN lines : lines[id].item = item THEN {}
        ELSE {[id \in DOMAIN lines \cup {new} |-> IF id = new THEN line ELSE lines[id]]}

AddLine(item, value) ==
    /\ IsEditable
    /\ Cardinality(DOMAIN Current.lines) < MaxLines
    /\ \E lines \in WithLine(Current.lines, item, value) : SetLines(lines)
    /\ UNCHANGED <<orders, contractSum>>

\* update_line
Retyped(line, item, value) ==
    [line EXCEPT !.item = item, !.base = value, !.current = value + line.adjustment]

UpdateLineWhenever(id, item, value) ==
    /\ revisions # <<>>
    /\ SetLines([Current.lines EXCEPT ![id] = Retyped(@, item, value)])
    /\ UNCHANGED <<orders, contractSum>>

UpdateLineRetypingTotal(id, item, value) ==
    /\ IsEditable
    /\ SetLines([Current.lines EXCEPT ![id].item = item, ![id].base = value,
                                      ![id].current = value])
    /\ UNCHANGED <<orders, contractSum>>

UpdateLine(id, item, value) ==
    /\ IsEditable
    /\ SetLines([Current.lines EXCEPT ![id] = Retyped(@, item, value)])
    /\ UNCHANGED <<orders, contractSum>>

Without(lines, id) == [other \in DOMAIN lines \ {id} |-> lines[other]]

RemoveAnyLine(id) ==
    /\ IsEditable
    /\ SetLines(Without(Current.lines, id))
    /\ UNCHANGED <<orders, contractSum>>

\* A line a change order created is never removed.
IsRemovable(line) == line.fromOrder = 0

RemoveLine(id) ==
    /\ IsEditable
    /\ IsRemovable(Current.lines[id])
    /\ SetLines(Without(Current.lines, id))
    /\ UNCHANGED <<orders, contractSum>>

ApproveSchedule ==
    /\ IsEditable
    /\ MayApprove(Current.lines, orders)
    /\ revisions' = [revisions EXCEPT ![Len(revisions)].status = "approved"]
    /\ UNCHANGED <<orders, contractSum>>

\* create_revision: a draft copy, and the approved one superseded.
RevisedBesideApproved(revs) == Append(revs, [revs[Len(revs)] EXCEPT !.status = "draft"])

Revised(revs) ==
    Append([revs EXCEPT ![Len(revs)].status = "superseded"],
           [revs[Len(revs)] EXCEPT !.status = "draft"])

Revise ==
    /\ HasApproved
    /\ Len(revisions) < MaxRevisions
    /\ revisions' = Revised(revisions)
    /\ UNCHANGED <<orders, contractSum>>

-----------------------------------------------------------------------------
(* Change orders (services/change_order.py)                                 *)

NewOrder == [status |-> "draft", lines |-> <<>>, amount |-> 0]

CreateOrder ==
    /\ Len(orders) < MaxOrders
    /\ orders' = Append(orders, NewOrder)
    /\ UNCHANGED <<revisions, contractSum>>

CreatesLine(orderLine) == orderLine.target = <<>>

\* Either an existing line of the approved schedule, the only ones the form
\* offers, or a new item number.
OrderLines ==
    [target: {<<>>}, item: ItemNumbers, amount: Amounts]
    \cup (IF HasApproved
          THEN [target: {Len(revisions)} \X DOMAIN Current.lines, item: {""}, amount: Amounts]
          ELSE {})

\* add_line of a draft order keeps its amount the total of its lines.
WithOrderLine(order, orderLine) ==
    IF order.status # "draft" THEN {}
    ELSE {[order EXCEPT !.lines = Append(@, orderLine), !.amount = @ + orderLine.amount]}

AddOrderLine(k, orderLine) ==
    /\ Len(orders[k].lines) < MaxOrderLines
    /\ \E order \in WithOrderLine(orders[k], orderLine) : orders' = [orders EXCEPT ![k] = order]
    /\ UNCHANGED <<revisions, contractSum>>

\* What the adjusting lines of an order add to line id of revision r.
AdjustmentOf(order, r, id) ==
    SumFunction([j \in {j \in DOMAIN order.lines : order.lines[j].target = <<r, id>>} |->
                    order.lines[j].amount])

\* The adjusting lines, applied to the lines they name in whatever revision.
Adjusted(revs, order) ==
    [r \in DOMAIN revs |->
        [revs[r] EXCEPT !.lines =
            [id \in DOMAIN revs[r].lines |->
                LET line == revs[r].lines[id]
                    adjustment == line.adjustment + AdjustmentOf(order, r, id)
                IN  [line EXCEPT !.adjustment = adjustment,
                                 !.current = line.base + adjustment]]]]

\* The creating lines, appended to the newest revision.
Landed(revs, k) ==
    LET order == orders[k]
        top == Top(revs[Len(revs)].lines)
        new == {j \in DOMAIN order.lines : CreatesLine(order.lines[j])}
        line(j) == [item |-> order.lines[j].item, base |-> 0,
                    adjustment |-> order.lines[j].amount,
                    current |-> order.lines[j].amount, fromOrder |-> k]
    IN  [revs EXCEPT ![Len(revs)].lines =
            [id \in DOMAIN @ \cup {top + j : j \in new} |->
                IF id > top THEN line(id - top) ELSE @[id]]]

\* The approval request: a new revision, the order landed on it, the revision
\* approved, all or nothing.
ApproveOrder(k) ==
    /\ HasApproved
    /\ Len(revisions) < MaxRevisions
    /\ orders[k].status = "draft"
    /\ orders[k].lines # <<>>
    /\ LET revs == Landed(Adjusted(Revised(revisions), orders[k]), k)
           os == [orders EXCEPT ![k].status = "approved"]
       IN  /\ MayApprove(revs[Len(revs)].lines, os)
           /\ revisions' = [revs EXCEPT ![Len(revs)].status = "approved"]
           /\ orders' = os
    /\ UNCHANGED contractSum

-----------------------------------------------------------------------------
ScheduleNext ==
    \/ \E sum \in ContractSums : EditContractSum(sum)
    \/ CreateSchedule
    \/ \E item \in ItemNumbers, value \in Values : AddLine(item, value)
    \/ revisions # <<>> /\ \E id \in DOMAIN Current.lines :
          \/ \E item \in ItemNumbers, value \in Values : UpdateLine(id, item, value)
          \/ RemoveLine(id)
    \/ ApproveSchedule
    \/ Revise
    \/ CreateOrder
    \/ \E k \in DOMAIN orders :
          \/ \E orderLine \in OrderLines : AddOrderLine(k, orderLine)
          \/ ApproveOrder(k)

ScheduleSpec == ScheduleInit /\ [][ScheduleNext]_scheduleVars

-----------------------------------------------------------------------------
(* Properties                                                               *)

Line == [item: ItemNumbers, base: Int, adjustment: Int, current: Int, fromOrder: Nat]

\* Revisions and orders keep their shape; in every revision a line's scheduled
\* value is its base value plus what change orders adjusted ("derived, never
\* typed"), and a line a change order created names an approved order.
TypeOK ==
    /\ \A r \in DOMAIN revisions :
          /\ revisions[r].status \in {"draft", "approved", "superseded"}
          /\ \A id \in DOMAIN revisions[r].lines :
                /\ revisions[r].lines[id] \in Line
                /\ revisions[r].lines[id].current =
                       revisions[r].lines[id].base + revisions[r].lines[id].adjustment
                /\ revisions[r].lines[id].fromOrder \in {0} \cup Approved(orders)
    /\ \A k \in DOMAIN orders :
          /\ orders[k].status \in {"draft", "approved"}
          /\ orders[k].amount \in Int
    /\ contractSum \in ContractSums

\* "A contract has exactly one live schedule at a time": the newest revision is
\* a draft or approved, and every older one superseded.
OneLiveRevision ==
    \A r \in DOMAIN revisions : revisions[r].status = "superseded" <=> r < Len(revisions)

\* What the lines of an approved order that adjust a line, and create none, come to.
AdjustingTotal(os) ==
    LET adjusting(order) == {j \in DOMAIN order.lines : ~CreatesLine(order.lines[j])}
    IN  SumFunction([k \in Approved(os) |->
            SumFunction([j \in adjusting(os[k]) |-> os[k].lines[j].amount])])

\* Line 2 of the G702, counted on the orders and on the schedule: the two differ
\* by exactly the adjusting lines, which land on the revision they were picked
\* from.  So through copies, edits, removals and later orders no created line is
\* lost, doubled or retyped away (create_revision, update_line, remove_line).
RoutesDifferByAdjustingLines ==
    revisions # <<>> =>
        ApprovedTotal(orders) - AdjustmentTotal(Current.lines) = AdjustingTotal(orders)

\* A frozen revision keeps its lines, and each line its item number and its
\* base value: "the original contract value of this line stays recoverable".
FrozenLinesKeepTheirBase ==
    [][\A r \in DOMAIN revisions :
          revisions[r].status # "draft" =>
              /\ revisions'[r].status # "draft"
              /\ DOMAIN revisions'[r].lines = DOMAIN revisions[r].lines
              /\ \A id \in DOMAIN revisions[r].lines :
                    /\ revisions'[r].lines[id].item = revisions[r].lines[id].item
                    /\ revisions'[r].lines[id].base = revisions[r].lines[id].base]_scheduleVars

-----------------------------------------------------------------------------
(* A statement of the repository that the code does not keep                *)

\* change_order.py: "the sum of approved change orders and the sum of the
\* adjustments on the schedule are the same number", "two independent routes to
\* line 2".  Nothing asks for it: an order that adjusts a line can be approved
\* where the contract sum was edited by as much.
RoutesToLineTwoAgree ==
    HasApproved => ApprovedTotal(orders) = AdjustmentTotal(Current.lines)
=============================================================================
