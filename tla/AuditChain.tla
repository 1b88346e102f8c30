----------------------------- MODULE AuditChain -----------------------------
(***************************************************************************)
(* The hash chain of one organization's audit events, written by requests   *)
(* and commands that run at the same time.                                  *)
(*                                                                         *)
(* Code: services/audit.py and models/audit.py.  record reads the newest    *)
(* event, computes the next one and flushes it; the caller commits or rolls *)
(* back.  The unique index on (organization, sequence) makes a second       *)
(* insert of a number wait for the first and fail if that one commits.      *)
(***************************************************************************)
EXTENDS Integers, FiniteSets

CONSTANTS
    Writers,     \* transactions open at the same time
    Events,      \* what a transaction may record: action, entity, before, after
    MaxEvents,   \* bound: length of the chain
    MaxBatch     \* bound: events of one transaction

ASSUME BoundsAreNatural == MaxEvents \in Nat /\ MaxBatch \in Nat

VARIABLES
    rows,        \* the committed rows
    sessions     \* [added: rows flushed, next: the row about to be flushed]

chainVars == <<rows, sessions>>

-----------------------------------------------------------------------------
(* Hashing and verification                                                *)

Genesis == <<>>

\* SHA-256 over the canonical fields is taken to be injective: the digest is
\* the fields themselves, the previous digest among them.
HashWithoutContent(row) == <<row.sequence, row.prev>>
Hash(row) == <<row.sequence, row.event, row.prev>>

Row(sequence, event, prev) ==
    LET row == [sequence |-> sequence, event |-> event, prev |-> prev]
    IN  [sequence |-> sequence, event |-> event, prev |-> prev, hash |-> Hash(row)]

First(S) == CHOOSE r \in S : \A other \in S : r.sequence <= other.sequence
Latest(S) == CHOOSE r \in S : \A other \in S : r.sequence >= other.sequence

\* The row verify has just walked past when it reaches r.
Before(S, r) == {other \in S : other.sequence < r.sequence}

BrokenAt(S, r) ==
    \/ r.sequence # Cardinality(Before(S, r)) + 1
    \/ r.prev # IF Before(S, r) = {} THEN Genesis ELSE Latest(Before(S, r)).hash
    \/ r.hash # Hash(r)

\* verify: the sequence number of the first break, if there is one.
Verify(S) ==
    LET broken == {r \in S : BrokenAt(S, r)}
    IN  IF broken = {} THEN <<>> ELSE <<First(broken).sequence>>

-----------------------------------------------------------------------------
(* Writing                                                                 *)

Closed == [added |-> {}, next |-> <<>>]

ChainInit ==
    /\ rows = {}
    /\ sessions = [w \in Writers |-> Closed]

Visible(w) == rows \cup sessions[w].added

\* The SELECT of record: committed rows and those this session has flushed.
Read(w, event) ==
    /\ sessions[w].next = <<>>
    /\ Cardinality(Visible(w)) < MaxEvents
    /\ Cardinality(sessions[w].added) < MaxBatch
    /\ LET previous == Visible(w)
           row == IF previous = {}
                  THEN Row(1, event, Genesis)
                  ELSE Row(Latest(previous).sequence + 1, event, Latest(previous).hash)
       IN  sessions' = [sessions EXCEPT ![w].next = <<row>>]
    /\ UNCHANGED rows

Taken(sequence, S) == \E r \in S : r.sequence = sequence

FlushUnindexed(w) ==
    /\ sessions[w].next # <<>>
    /\ sessions' = [sessions EXCEPT ![w] =
           [added |-> sessions[w].added \cup {sessions[w].next[1]}, next |-> <<>>]]
    /\ UNCHANGED rows

\* The insert: it waits for an uncommitted row of the same number, and fails on
\* a committed one, which ends the transaction with all it had written.
Flush(w) ==
    /\ sessions[w].next # <<>>
    /\ LET row == sessions[w].next[1]
       IN  /\ \A v \in Writers \ {w} : ~Taken(row.sequence, sessions[v].added)
           /\ sessions' = [sessions EXCEPT ![w] =
                  IF Taken(row.sequence, rows)
                  THEN Closed
                  ELSE [added |-> sessions[w].added \cup {row}, next |-> <<>>]]
    /\ UNCHANGED rows

Commit(w) ==
    /\ sessions[w].next = <<>>
    /\ sessions[w].added # {}
    /\ rows' = rows \cup sessions[w].added
    /\ sessions' = [sessions EXCEPT ![w] = Closed]

\* A refused request, or a process that dies.
Rollback(w) ==
    /\ sessions[w] # Closed
    /\ sessions' = [sessions EXCEPT ![w] = Closed]
    /\ UNCHANGED rows

ChainNext ==
    \E w \in Writers :
        \/ \E event \in Events : Read(w, event)
        \/ Flush(w)
        \/ Commit(w)
        \/ Rollback(w)

ChainSpec == ChainInit /\ [][ChainNext]_chainVars

-----------------------------------------------------------------------------
(* Properties                                                              *)

\* The chain of committed rows verifies at every moment, however the reads,
\* inserts, commits and rollbacks of the writers interleave: no fork, no gap,
\* no link to a row that was rolled back (record, verify).
ChainIsIntact == Verify(rows) = <<>>

Altered(row, event) == [row EXCEPT !.event = event]

\* What verify says of tampering with one committed row: it names the row that
\* was altered, and the one after a row that was removed.  The newest row is the
\* exception: no row links to it, and the chain without it verifies.
TamperingIsLocated ==
    \A row \in rows :
        /\ \A event \in Events \ {row.event} :
              Verify((rows \ {row}) \cup {Altered(row, event)}) = <<row.sequence>>
        /\ Verify(rows \ {row}) =
              IF row = Latest(rows) THEN <<>> ELSE <<row.sequence + 1>>

\* "Altering or removing a past event breaks the chain from that point forward,
\* and audit verify says exactly where", of every row that is removed, the
\* newest included (models/audit.py:4-6).  The code does not keep it.
RemovalIsLocated == \A row \in rows : Verify(rows \ {row}) # <<>>

\* The events in the order of their numbers, each as the set of rows' events
\* that carry the number: a fork or a gap is not the set of one event.
Committed ==
    [k \in 1..Cardinality(rows) |-> {r.event : r \in {s \in rows : s.sequence = k}}]

Log == INSTANCE AuditLog WITH log <- Committed, Events <- {{event} : event \in Events}

\* The chain implements the append-only log: a commit appends all events of its
\* transaction to what was there, and nothing else changes it.
IsAnAppendOnlyLog == Log!Spec
=============================================================================
