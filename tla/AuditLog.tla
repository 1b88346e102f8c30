------------------------------ MODULE AuditLog ------------------------------
(***************************************************************************)
(* What the audit trail of one organization promises: a list of events that *)
(* only ever grows at its end, by the events of one transaction at a time   *)
(* ("append-only: never updated, never deleted", models/audit.py).          *)
(***************************************************************************)
EXTENDS Naturals, Sequences

CONSTANT Events

VARIABLE log

Init == log = <<>>

\* One transaction commits at least one event; what was there stays in front.
Next ==
    /\ Len(log') > Len(log)
    /\ SubSeq(log', 1, Len(log)) = log
    /\ \A k \in DOMAIN log' : log'[k] \in Events

Spec == Init /\ [][Next]_log
=============================================================================
