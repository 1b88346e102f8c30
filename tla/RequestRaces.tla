----------------------------- MODULE RequestRaces -----------------------------
(***************************************************************************)
(* Two requests on one contract at once, statement by statement.            *)
(*                                                                         *)
(* PayApplications takes a request as one step.  Here it is a database      *)
(* session under READ COMMITTED, which is what an engine without an         *)
(* isolation level gets (config.py): a read sees what is committed, a row   *)
(* that was read stays as it was read, an insert waits for another session  *)
(* that holds the same key and is refused once that one commits, an update  *)
(* waits for the row and then writes the columns that changed.              *)
(*                                                                         *)
(* Code: services/application.py (open_period and the requests that change  *)
(* an application), services/audit.py (record), and the views that load     *)
(* before them and commit after them.                                       *)
(***************************************************************************)
EXTENDS Integers, Sequences, FiniteSetsExt, TLC

CONSTANTS
    Sessions,         \* requests, each handled once
    Days,             \* calendar days
    Work,             \* amounts a person may type in column E
    None,             \* no value
    MaxApplications   \* bound: applications on the contract

VARIABLES
    apps,      \* committed: number -> [status, start, end, e, snapshot]
    log,       \* committed: the number of rows of the audit chain
    session    \* [pc, ...]: what each request has read and holds

vars == <<apps, log, session>>

-----------------------------------------------------------------------------
IsEditable(a) == a.status = "draft"

At(s, label) == session[s].pc = label

Goto(s, label) == session' = [session EXCEPT ![s].pc = label]

\* A session that is refused rolls back: it holds nothing and has read nothing.
Refused(s) == session' = [session EXCEPT ![s] = [pc |-> "refused"]]

\* Keys and rows of uncommitted statements.
HoldsNumber(s) == IF session[s].pc \in {"audit", "append", "commit"} THEN session[s].number ELSE 0
HoldsSequence(s) == IF At(s, "commit") THEN session[s].sequence ELSE 0

Held(holds(_), s, key) == \E t \in Sessions \ {s} : holds(t) = key

Init ==
    /\ apps = <<>>
    /\ log = 0
    /\ session = [s \in Sessions |-> [pc |-> "start"]]

-----------------------------------------------------------------------------
(* Opening a period                                                        *)

\* open_application: a select of its own.
CheckOpen(s, start, end) ==
    /\ At(s, "start")
    /\ start <= end
    /\ Len(apps) < MaxApplications
    /\ ~ \E n \in DOMAIN apps : IsEditable(apps[n])
    /\ session' = [session EXCEPT ![s] = [pc |-> "overlap", start |-> start, end |-> end]]
    /\ UNCHANGED <<apps, log>>

\* _latest_live: the next select.
CheckOverlap(s) ==
    LET live == {n \in DOMAIN apps : apps[n].status # "void"}
        overlaps == live # {} /\ session[s].start <= apps[Max(live)].end
    IN  /\ At(s, "overlap")
        /\ IF overlaps THEN Refused(s) ELSE Goto(s, "number")
        /\ UNCHANGED <<apps, log>>

\* next_number: the highest committed number and one.
ReadNumber(s) ==
    /\ At(s, "number")
    /\ session' = [session EXCEPT ![s] = [pc |-> "insert", number |-> Len(apps) + 1,
                      row |-> [status |-> "draft", start |-> @.start, end |-> @.end,
                               e |-> 0, snapshot |-> None]]]
    /\ UNCHANGED <<apps, log>>

\* The insert under uq_application_number; IntegrityError is the conflict the
\* request reports.
Insert(s) ==
    /\ At(s, "insert")
    /\ ~Held(HoldsNumber, s, session[s].number)
    /\ IF session[s].number \in DOMAIN apps THEN Refused(s) ELSE Goto(s, "audit")
    /\ UNCHANGED <<apps, log>>

-----------------------------------------------------------------------------
(* Changing an application                                                 *)

\* What each request leaves in the row it loaded, or nothing when it refuses.
Entered(a, e) == IF IsEditable(a) THEN {[a EXCEPT !.e = e]} ELSE {}

Submitted(a) ==
    IF IsEditable(a) THEN {[a EXCEPT !.status = "submitted", !.snapshot = a.e]} ELSE {}

Certified(a) == IF a.status = "submitted" THEN {[a EXCEPT !.status = "certified"]} ELSE {}

Paid(a) == IF IsEditable(a) THEN {} ELSE {[a EXCEPT !.status = "paid"]}

Voided(a) == IF a.status = "paid" THEN {} ELSE {[a EXCEPT !.status = "void"]}

Changes(a) ==
    UNION {Entered(a, e) : e \in Work} \cup Submitted(a) \cup Certified(a)
        \cup Paid(a) \cup Voided(a)

\* The view loads the application and the service decides on what it loaded.
Load(s, n) ==
    /\ At(s, "start")
    /\ \E row \in Changes(apps[n]) :
          session' = [session EXCEPT ![s] = [pc |-> "update", number |-> n,
                                             read |-> apps[n], row |-> row]]
    /\ UNCHANGED <<apps, log>>

\* The update waits for the row.
Update(s) ==
    /\ At(s, "update")
    /\ ~Held(HoldsNumber, s, session[s].number)
    /\ Goto(s, "audit")
    /\ UNCHANGED <<apps, log>>

-----------------------------------------------------------------------------
(* The audit row and the commit                                            *)

ReadLog(s) ==
    /\ At(s, "audit")
    /\ session' = [session EXCEPT ![s] =
          [pc |-> "append", sequence |-> log + 1] @@ [f \in DOMAIN @ \ {"pc"} |-> @[f]]]
    /\ UNCHANGED <<apps, log>>

\* The insert under ix_audit_org_sequence, which no request expects to fail.
AppendLog(s) ==
    /\ At(s, "append")
    /\ ~Held(HoldsSequence, s, session[s].sequence)
    /\ IF session[s].sequence <= log THEN Refused(s) ELSE Goto(s, "commit")
    /\ UNCHANGED <<apps, log>>

\* Only the columns a request changed are written.
Merged(committed, read, row) ==
    [f \in DOMAIN row |-> IF row[f] = read[f] THEN committed[f] ELSE row[f]]

Commit(s) ==
    LET n == session[s].number
    IN  /\ At(s, "commit")
        /\ apps' = IF n \in DOMAIN apps
                   THEN [apps EXCEPT ![n] = Merged(@, session[s].read, session[s].row)]
                   ELSE Append(apps, session[s].row)
        /\ log' = session[s].sequence
        /\ session' = [session EXCEPT ![s] = [pc |-> "done"]]

-----------------------------------------------------------------------------
Next ==
    \E s \in Sessions :
        \/ \E start, end \in Days : CheckOpen(s, start, end)
        \/ CheckOverlap(s)
        \/ ReadNumber(s)
        \/ Insert(s)
        \/ \E n \in DOMAIN apps : Load(s, n)
        \/ Update(s)
        \/ ReadLog(s)
        \/ AppendLog(s)
        \/ Commit(s)

Spec == Init /\ [][Next]_vars

-----------------------------------------------------------------------------
(* A statement of the repository that the code does not keep                *)

\* docs/runbook.md on two people opening a period in the same instant: "the
\* database refused a second period on a contract that may only have one".  So
\* a contract never has two open periods.
OneLivePeriod ==
    \A m, n \in DOMAIN apps : IsEditable(apps[m]) /\ IsEditable(apps[n]) => m = n
=============================================================================
