-------------------------- MODULE AuditChainProofs --------------------------
(***************************************************************************)
(* Theorems about AuditChain, for any number of writers, any events and     *)
(* chains of any length: the committed rows always verify, verification     *)
(* locates a row that was altered and one that was removed, unless it was   *)
(* the newest, and the chain implements AuditLog.                           *)
(***************************************************************************)
EXTENDS AuditChain, FiniteSetTheorems, SequenceTheorems, TLAPS

-----------------------------------------------------------------------------
(* Rows that are numbered, and rows that form a chain                       *)

\* The rows carry the numbers 1 to n, each of them once.
Numbered(S, n) ==
    /\ \A r \in S : r.sequence \in 1..n
    /\ \A k \in 1..n : \E r \in S : r.sequence = k
    /\ \A r, s \in S : r.sequence = s.sequence => r = s

\* What record writes: a row with its own hash, the first on the genesis.
WellFormed(r) ==
    /\ r.event \in Events
    /\ r = Row(r.sequence, r.event, r.prev)
    /\ r.sequence = 1 => r.prev = Genesis

Linked(S) == \A r, s \in S : s.sequence = r.sequence + 1 => s.prev = r.hash

Chain(S, n) ==
    /\ Numbered(S, n)
    /\ \A r \in S : WellFormed(r)
    /\ Linked(S)

IsChain(S) == \E n \in Nat : Chain(S, n)

\* The row is the next one of the chain S.
Follows(row, S) ==
    \E n \in Nat :
        /\ Chain(S, n)
        /\ WellFormed(row)
        /\ row.sequence = n + 1
        /\ \A r \in S : r.sequence = n => row.prev = r.hash

\* The inductive invariant.  A session sees a chain, its own rows on top of the
\* committed ones; only one session at a time has inserted anything, because
\* the others' rows would have the number it holds; and the row a session is
\* about to insert is the next one, or its number was committed meanwhile.
ChainInvariant ==
    /\ \A w \in Writers :
          sessions[w] = [added |-> sessions[w].added, next |-> sessions[w].next]
    /\ DOMAIN sessions = Writers
    /\ IsChain(rows)
    /\ \A w \in Writers : IsChain(Visible(w)) /\ sessions[w].added \cap rows = {}
    /\ \A v, w \in Writers : v # w => sessions[v].added = {} \/ sessions[w].added = {}
    /\ \A w \in Writers :
          sessions[w].next # <<>> =>
              /\ sessions[w].next = <<sessions[w].next[1]>>
              /\ \/ Taken(sessions[w].next[1].sequence, rows)
                 \/ Follows(sessions[w].next[1], Visible(w))

-----------------------------------------------------------------------------
(* Counting and linking rows                                                *)

\* As many rows as numbers.
LEMMA CountedRows ==
    ASSUME NEW S, NEW n \in Nat, Numbered(S, n)
    PROVE  IsFiniteSet(S) /\ Cardinality(S) = n
<1> DEFINE f == [k \in 1..n |-> CHOOSE r \in S : r.sequence = k]
<1>1. \A k \in 1..n : f[k] \in S /\ f[k].sequence = k
  BY DEF Numbered
<1>2. f \in Bijection(1..n, S)
  <2>1. f \in [1..n -> S]
    BY <1>1
  <2>2. \A j, k \in 1..n : f[j] = f[k] => j = k
    <3> HIDE DEF f
    <3> QED BY <1>1
  <2>3. \A r \in S : r.sequence \in 1..n /\ f[r.sequence] = r
    <3> HIDE DEF f
    <3> QED BY <1>1 DEF Numbered
  <2> HIDE DEF f
  <2> QED BY <2>1, <2>2, <2>3 DEF Bijection, Injection, Surjection, IsInjective
<1> HIDE DEF f
<1>3. ExistsBijection(1..n, S)
  BY <1>2 DEF ExistsBijection
<1> QED BY <1>3, FS_CountingElements, FS_NatBijection

\* The rows before a row are the chain that ends below it.
LEMMA RowsBefore ==
    ASSUME NEW S, NEW n \in Nat, Numbered(S, n), NEW r \in S
    PROVE  /\ r.sequence \in 1..n
           /\ Numbered(Before(S, r), r.sequence - 1)
           /\ Cardinality(Before(S, r)) = r.sequence - 1
<1>1. r.sequence \in 1..n /\ r.sequence - 1 \in Nat
  BY DEF Numbered
<1>2. Numbered(Before(S, r), r.sequence - 1)
  BY <1>1 DEF Numbered, Before
<1> QED BY <1>1, <1>2, CountedRows

\* The newest of numbered rows is the one with the highest number.
LEMMA NewestRow ==
    ASSUME NEW S, NEW n \in Nat, Numbered(S, n), S # {}
    PROVE  Latest(S) \in S /\ Latest(S).sequence = n /\ n # 0
<1>1. PICK s \in S : TRUE
  OBVIOUS
<1>2. s.sequence \in 1..n
  BY DEF Numbered
<1>3. PICK top \in S : top.sequence = n
  BY <1>2 DEF Numbered
<1>4. \A other \in S : top.sequence >= other.sequence
  BY <1>3 DEF Numbered
<1>5. Latest(S) \in S /\ \A other \in S : Latest(S).sequence >= other.sequence
  BY <1>4 DEF Latest
<1>6. Latest(S).sequence \in 1..n
  BY <1>5 DEF Numbered
<1> QED BY <1>2, <1>3, <1>5, <1>6

\* A row that hashes to what it says and links to the row before is not broken.
LEMMA SoundRow ==
    ASSUME NEW S, NEW n \in Nat, Numbered(S, n), NEW r \in S, WellFormed(r),
           \A q \in S : q.sequence + 1 = r.sequence => r.prev = q.hash
    PROVE  ~BrokenAt(S, r)
<1>1. Cardinality(Before(S, r)) + 1 = r.sequence /\ r.sequence \in 1..n
  BY RowsBefore
<1>2. r.hash = Hash(r)
  BY DEF WellFormed, Row, Hash
<1>3. CASE Before(S, r) = {}
  <2>1. Cardinality(Before(S, r)) = 0
    BY <1>3, FS_EmptySet
  <2>2. r.prev = Genesis
    BY <1>1, <2>1 DEF WellFormed
  <2> QED BY <1>1, <1>2, <1>3, <2>2 DEF BrokenAt
<1>4. CASE Before(S, r) # {}
  <2>1. Numbered(Before(S, r), r.sequence - 1) /\ r.sequence - 1 \in Nat
    BY RowsBefore
  <2>2. Latest(Before(S, r)) \in Before(S, r)
        /\ Latest(Before(S, r)).sequence = r.sequence - 1
    BY <1>4, <2>1, NewestRow
  <2>3. Latest(Before(S, r)) \in S /\ Latest(Before(S, r)).sequence + 1 = r.sequence
    BY <1>1, <2>2 DEF Before
  <2> QED BY <1>1, <1>2, <1>4, <2>3 DEF BrokenAt
<1> QED BY <1>3, <1>4

\* No row of a chain is broken.
LEMMA ChainVerifies ==
    ASSUME NEW S, IsChain(S)
    PROVE  /\ \A r \in S : ~BrokenAt(S, r)
           /\ Verify(S) = <<>>
<1>1. PICK n \in Nat : Chain(S, n)
  BY DEF IsChain
<1>2. ASSUME NEW r \in S PROVE ~BrokenAt(S, r)
  <2>1. \A q \in S : q.sequence + 1 = r.sequence => r.prev = q.hash
    BY <1>1 DEF Chain, Linked
  <2> QED BY <1>1, <2>1, SoundRow DEF Chain
<1> QED BY <1>2 DEF Verify

\* The next row makes a longer chain.
LEMMA LongerChain ==
    ASSUME NEW S, NEW row, Follows(row, S)
    PROVE  IsChain(S \cup {row})
<1>1. PICK n \in Nat :
        /\ Chain(S, n)
        /\ WellFormed(row)
        /\ row.sequence = n + 1
        /\ \A r \in S : r.sequence = n => row.prev = r.hash
  BY DEF Follows
<1>2. Numbered(S \cup {row}, n + 1)
  <2>1. Numbered(S, n)
    BY <1>1 DEF Chain
  <2>2. \A r \in S \cup {row} : r.sequence \in 1..(n + 1)
    BY <1>1, <2>1 DEF Numbered
  <2>3. ASSUME NEW k \in 1..(n + 1) PROVE \E r \in S \cup {row} : r.sequence = k
    <3>1. k \in 1..n \/ k = n + 1
      OBVIOUS
    <3> QED BY <1>1, <2>1, <3>1 DEF Numbered
  <2>4. \A r \in S : r.sequence # row.sequence
    BY <1>1, <2>1 DEF Numbered
  <2>5. \A q, r \in S \cup {row} : q.sequence = r.sequence => q = r
    BY <2>1, <2>4 DEF Numbered
  <2> QED BY <2>2, <2>3, <2>5 DEF Numbered
<1>3. \A r \in S \cup {row} : WellFormed(r)
  BY <1>1 DEF Chain
<1>4. Linked(S \cup {row})
  <2>1. \A r \in S : r.sequence \in 1..n
    BY <1>1 DEF Chain, Numbered
  <2> QED BY <1>1, <2>1 DEF Chain, Linked
<1> QED BY <1>1, <1>2, <1>3, <1>4 DEF Chain, IsChain

\* The row record computes from what a session sees.
NextRow(S, event) ==
    IF S = {} THEN Row(1, event, Genesis)
    ELSE Row(Latest(S).sequence + 1, event, Latest(S).hash)

\* A computed row has the fields it was computed from.
LEMMA RowFields ==
    ASSUME NEW k, NEW event, NEW prev
    PROVE  LET row == Row(k, event, prev)
           IN  /\ row.sequence = k /\ row.event = event /\ row.prev = prev
               /\ row = Row(row.sequence, row.event, row.prev)
  BY DEF Row

\* The row record computes from a chain is the next one of the chain.
LEMMA NextRowFollows ==
    ASSUME NEW S, IsChain(S), NEW event \in Events
    PROVE  Follows(NextRow(S, event), S)
<1> DEFINE row == NextRow(S, event)
<1>1. PICK n \in Nat : Chain(S, n)
  BY DEF IsChain
<1>2. CASE S = {}
  <2>1. n = 0
    <3>1. n # 0 => 1 \in 1..n
      OBVIOUS
    <3> QED BY <1>1, <1>2, <3>1 DEF Chain, Numbered
  <2>2. row.sequence = 1 /\ row.event = event /\ row.prev = Genesis
        /\ row = Row(row.sequence, row.event, row.prev)
    BY <1>2, RowFields DEF NextRow
  <2> HIDE DEF row
  <2>3. WellFormed(row)
    BY <2>2 DEF WellFormed
  <2> QED BY <1>1, <1>2, <2>1, <2>2, <2>3 DEF Follows, row
<1>3. CASE S # {}
  <2>1. Latest(S) \in S /\ Latest(S).sequence = n /\ n # 0
    BY <1>1, <1>3, NewestRow DEF Chain
  <2>2. row.sequence = n + 1 /\ row.event = event /\ row.prev = Latest(S).hash
        /\ row = Row(row.sequence, row.event, row.prev)
    BY <1>3, <2>1, RowFields DEF NextRow
  <2>3. \A r \in S : r.sequence = n => r = Latest(S)
    BY <1>1, <2>1 DEF Chain, Numbered
  <2> HIDE DEF row
  <2>4. WellFormed(row)
    BY <2>1, <2>2 DEF WellFormed
  <2>5. \A r \in S : r.sequence = n => row.prev = r.hash
    BY <2>2, <2>3
  <2> QED BY <1>1, <2>2, <2>4, <2>5 DEF Follows, row
<1> QED BY <1>2, <1>3

\* A chain has one length, and a chain within a chain is its beginning.
LEMMA ChainWithin ==
    ASSUME NEW S, NEW T, S \subseteq T, NEW m \in Nat, NEW n \in Nat,
           Numbered(S, m), Numbered(T, n)
    PROVE  /\ m <= n
           /\ S # T => m < n
           /\ S = T => m = n
           /\ \A r \in T : r \in S <=> r.sequence <= m
<1>1. m <= n
  <2>1. m # 0 => m \in 1..m
    OBVIOUS
  <2> QED BY <2>1 DEF Numbered
<1>2. \A r \in T : r \in S <=> r.sequence <= m
  BY DEF Numbered
<1>3. S = T => m = n
  <2>1. n # 0 => n \in 1..n
    OBVIOUS
  <2> QED BY <1>1, <2>1 DEF Numbered
<1>4. m = n => S = T
  BY <1>2 DEF Numbered
<1> QED BY <1>1, <1>2, <1>3, <1>4

-----------------------------------------------------------------------------
(* The invariant is preserved                                               *)

\* The empty log is a chain.
LEMMA InitIsChain == ChainInit => ChainInvariant
<1> SUFFICES ASSUME ChainInit PROVE ChainInvariant
  OBVIOUS
<1>1. IsChain({})
  <2>1. Chain({}, 0)
    BY DEF Chain, Numbered, Linked
  <2> QED BY <2>1 DEF IsChain
<1> QED BY <1>1 DEF ChainInit, ChainInvariant, Closed, Visible

\* Computing the next row (record) leaves a row that follows what was seen.
LEMMA ReadKeepsChain ==
    ASSUME ChainInvariant, NEW w \in Writers, NEW event \in Events, Read(w, event)
    PROVE  ChainInvariant'
<1> DEFINE row == NextRow(Visible(w), event)
<1>1. sessions' = [sessions EXCEPT ![w].next = <<row>>] /\ rows' = rows
  BY DEF Read, NextRow
<1>2. Follows(row, Visible(w))
  BY NextRowFollows DEF ChainInvariant
<1> HIDE DEF row
<1>3. \A v \in Writers : sessions'[v].added = sessions[v].added
  BY <1>1 DEF ChainInvariant
<1>4. \A v \in Writers : Visible(v)' = Visible(v)
  BY <1>1, <1>3 DEF Visible
<1>5. /\ DOMAIN sessions' = Writers
      /\ sessions'[w] = [added |-> sessions[w].added, next |-> <<row>>]
      /\ \A v \in Writers : v # w => sessions'[v] = sessions[v]
  BY <1>1 DEF ChainInvariant
<1>6. \A v \in Writers :
         sessions'[v].next # <<>> =>
             /\ sessions'[v].next = <<sessions'[v].next[1]>>
             /\ \/ Taken(sessions'[v].next[1].sequence, rows)
                \/ Follows(sessions'[v].next[1], Visible(v))
  BY <1>2, <1>5 DEF ChainInvariant
<1> QED BY <1>1, <1>3, <1>4, <1>5, <1>6 DEF ChainInvariant

\* What is left of a session that ended.
LEMMA ClosingKeepsChain ==
    ASSUME ChainInvariant, NEW w \in Writers,
           sessions' = [sessions EXCEPT ![w] = Closed], rows' = rows
    PROVE  ChainInvariant'
<1>1. /\ DOMAIN sessions' = Writers
      /\ sessions'[w] = [added |-> {}, next |-> <<>>]
      /\ \A v \in Writers : v # w => sessions'[v] = sessions[v]
  BY DEF ChainInvariant, Closed
<1>2. \A v \in Writers : v # w => Visible(v)' = Visible(v)
  BY <1>1 DEF Visible
<1>3. Visible(w)' = rows
  BY <1>1 DEF Visible
<1> QED BY <1>1, <1>2, <1>3 DEF ChainInvariant

\* An insert lengthens the chain the session sees, or ends the session; that no
\* other session holds rows follows from the number it would have given them.
LEMMA FlushKeepsChain ==
    ASSUME ChainInvariant, NEW w \in Writers, Flush(w)
    PROVE  ChainInvariant'
<1> DEFINE row == sessions[w].next[1]
<1>1. /\ sessions[w].next = <<row>> /\ sessions[w].next # <<>>
      /\ \A v \in Writers \ {w} : ~Taken(row.sequence, sessions[v].added)
      /\ rows' = rows
  BY DEF Flush, ChainInvariant
<1>2. CASE Taken(row.sequence, rows)
  BY <1>2, ClosingKeepsChain DEF Flush
<1>3. CASE ~Taken(row.sequence, rows)
  <2>1. sessions' = [sessions EXCEPT ![w] =
            [added |-> sessions[w].added \cup {row}, next |-> <<>>]]
    BY <1>3 DEF Flush
  <2>2. Follows(row, Visible(w))
    BY <1>1, <1>3 DEF ChainInvariant
  <2>3. row \notin rows
    BY <1>3 DEF Taken
  <2> HIDE DEF row
  <2>4. /\ DOMAIN sessions' = Writers
        /\ sessions'[w] = [added |-> sessions[w].added \cup {row}, next |-> <<>>]
        /\ \A v \in Writers : v # w => sessions'[v] = sessions[v]
    BY <2>1 DEF ChainInvariant
  <2>5. \A v \in Writers : v # w => Visible(v)' = Visible(v)
    BY <1>1, <2>4 DEF Visible
  <2>6. Visible(w)' = Visible(w) \cup {row}
    BY <1>1, <2>4 DEF Visible
  <2>7. IsChain(Visible(w)')
    BY <2>2, <2>6, LongerChain
  <2>8. ASSUME NEW v \in Writers, v # w PROVE sessions[v].added = {}
    <3> SUFFICES ASSUME sessions[v].added # {} PROVE FALSE
      OBVIOUS
    <3>1. Visible(w) = rows
      BY <2>8 DEF ChainInvariant, Visible
    <3>2. PICK m \in Nat : Chain(rows, m) /\ row.sequence = m + 1
      BY <2>2, <3>1 DEF Follows
    <3>3. PICK n \in Nat : Chain(Visible(v), n)
      BY DEF ChainInvariant, IsChain
    <3>4. m < n
      <4>1. rows \subseteq Visible(v) /\ rows # Visible(v)
        BY DEF ChainInvariant, Visible
      <4> QED BY <3>2, <3>3, <4>1, ChainWithin DEF Chain
    <3>5. PICK r \in Visible(v) : r.sequence = m + 1
      BY <3>3, <3>4 DEF Chain, Numbered
    <3>6. r \in sessions[v].added
      BY <1>3, <3>2, <3>5 DEF Visible, Taken
    <3> QED BY <1>1, <2>8, <3>2, <3>5, <3>6 DEF Taken
  <2> QED BY <1>1, <2>3, <2>4, <2>5, <2>7, <2>8 DEF ChainInvariant
<1> QED BY <1>2, <1>3

\* A commit makes the longer chain the committed one, and takes the number of
\* every row another session had computed on the old one.
LEMMA CommitKeepsChain ==
    ASSUME ChainInvariant, NEW w \in Writers, Commit(w)
    PROVE  ChainInvariant'
<1>1. /\ rows' = Visible(w) /\ sessions[w].added # {}
      /\ sessions' = [sessions EXCEPT ![w] = Closed]
  BY DEF Commit, Visible
<1>2. /\ DOMAIN sessions' = Writers
      /\ sessions'[w] = [added |-> {}, next |-> <<>>]
      /\ \A v \in Writers : v # w => sessions'[v] = sessions[v]
  BY <1>1 DEF ChainInvariant, Closed
<1>3. \A v \in Writers : sessions'[v].added = {}
  BY <1>1, <1>2 DEF ChainInvariant
<1>4. \A v \in Writers : Visible(v)' = rows'
  BY <1>3 DEF Visible
<1>5. IsChain(rows')
  BY <1>1 DEF ChainInvariant
<1>6. ASSUME NEW v \in Writers, v # w, sessions[v].next # <<>>
      PROVE  Taken(sessions[v].next[1].sequence, rows')
  <2> DEFINE row == sessions[v].next[1]
  <2>1. CASE Taken(row.sequence, rows)
    BY <1>1, <2>1 DEF Taken, Visible
  <2>2. CASE Follows(row, Visible(v))
    <3>1. Visible(v) = rows
      BY <1>1, <1>6 DEF ChainInvariant, Visible
    <3>2. PICK m \in Nat : Chain(rows, m) /\ row.sequence = m + 1
      BY <2>2, <3>1 DEF Follows
    <3>3. PICK n \in Nat : Chain(rows', n)
      BY <1>5 DEF IsChain
    <3>4. rows \subseteq rows' /\ rows # rows'
      BY <1>1 DEF ChainInvariant, Visible
    <3>5. m < n
      BY <3>2, <3>3, <3>4, ChainWithin DEF Chain
    <3> QED BY <3>2, <3>3, <3>5 DEF Taken, Chain, Numbered
  <2> QED BY <1>6, <2>1, <2>2 DEF ChainInvariant
<1> QED BY <1>2, <1>3, <1>4, <1>5, <1>6 DEF ChainInvariant

\* The chain every session sees stays a chain, and only one session at a time
\* has uncommitted rows (record, and the unique index that makes inserts wait).
THEOREM ChainInvariantHolds == ChainSpec => []ChainInvariant
<1>1. ChainInvariant /\ [ChainNext]_chainVars => ChainInvariant'
  <2> SUFFICES ASSUME ChainInvariant, [ChainNext]_chainVars PROVE ChainInvariant'
    OBVIOUS
  <2>1. ASSUME NEW w \in Writers, NEW event \in Events, Read(w, event)
        PROVE  ChainInvariant'
    BY <2>1, ReadKeepsChain
  <2>2. ASSUME NEW w \in Writers, Flush(w) PROVE ChainInvariant'
    BY <2>2, FlushKeepsChain
  <2>3. ASSUME NEW w \in Writers, Commit(w) PROVE ChainInvariant'
    BY <2>3, CommitKeepsChain
  <2>4. ASSUME NEW w \in Writers, Rollback(w) PROVE ChainInvariant'
    BY <2>4, ClosingKeepsChain DEF Rollback
  <2>5. CASE UNCHANGED chainVars
    BY <2>5 DEF chainVars, ChainInvariant, Visible
  <2> QED BY <2>1, <2>2, <2>3, <2>4, <2>5 DEF ChainNext
<1> QED BY <1>1, InitIsChain, PTL DEF ChainSpec

\* The committed rows verify at every moment (verify finds no break).
THEOREM CommittedRowsVerify == ChainSpec => []ChainIsIntact
<1>1. ChainInvariant => ChainIsIntact
  BY ChainVerifies DEF ChainInvariant, ChainIsIntact
<1> QED BY <1>1, ChainInvariantHolds, PTL

-----------------------------------------------------------------------------
(* Tampering                                                                *)

\* An altered row is the one verify names: the rows after it still link to the
\* hash it carries, but its own hash no longer is that of its content.
LEMMA AlteredRowIsNamed ==
    ASSUME NEW S, IsChain(S), NEW row \in S, NEW event \in Events \ {row.event}
    PROVE  Verify((S \ {row}) \cup {Altered(row, event)}) = <<row.sequence>>
<1> DEFINE a == Altered(row, event)
           T == (S \ {row}) \cup {a}
<1>1. PICK n \in Nat : Chain(S, n)
  BY DEF IsChain
<1>2. /\ a.sequence = row.sequence /\ a.hash = row.hash
      /\ a.hash # Hash(a) /\ a # row
  <2>1. row = Row(row.sequence, row.event, row.prev)
    BY <1>1 DEF Chain, WellFormed
  <2>2. row = [sequence |-> row.sequence, event |-> row.event, prev |-> row.prev,
               hash |-> <<row.sequence, row.event, row.prev>>]
    BY <2>1 DEF Row, Hash
  <2>3. a = [sequence |-> row.sequence, event |-> event, prev |-> row.prev,
             hash |-> <<row.sequence, row.event, row.prev>>]
    BY <2>2 DEF Altered
  <2> HIDE DEF a
  <2>4. Hash(a) = <<row.sequence, event, row.prev>>
    BY <2>3 DEF Hash
  <2> QED BY <2>2, <2>3, <2>4
<1> HIDE DEF a
<1>3. Numbered(T, n)
  BY <1>1, <1>2 DEF Chain, Numbered
<1>4. ASSUME NEW r \in T, r # a PROVE ~BrokenAt(T, r)
  <2>1. r \in S /\ WellFormed(r)
    BY <1>1, <1>4 DEF Chain
  <2>2. \A q \in T : q.sequence + 1 = r.sequence => r.prev = q.hash
    BY <1>1, <1>2, <2>1 DEF Chain, Linked
  <2> QED BY <1>3, <2>1, <2>2, SoundRow
<1>5. BrokenAt(T, a)
  BY <1>2 DEF BrokenAt
<1>6. {r \in T : BrokenAt(T, r)} = {a}
  BY <1>4, <1>5
<1>7. First({a}) = a
  <2>1. a.sequence <= a.sequence
    BY <1>1, <1>2 DEF Chain, Numbered
  <2> QED BY <2>1 DEF First
<1>8. Verify(T) = <<a.sequence>>
  <2> HIDE DEF T
  <2> QED BY <1>6, <1>7 DEF Verify
<1> QED BY <1>2, <1>8 DEF a

\* After a removed row every number is one too high, and verify names the first.
LEMMA RemovedRowIsNamed ==
    ASSUME NEW S, IsChain(S), NEW row \in S, row # Latest(S)
    PROVE  Verify(S \ {row}) = <<row.sequence + 1>>
<1> DEFINE T == S \ {row}
           broken == {r \in T : BrokenAt(T, r)}
<1>1. PICK n \in Nat : Chain(S, n)
  BY DEF IsChain
<1>2. row.sequence \in 1..n /\ row.sequence + 1 \in 1..n
  <2>1. Latest(S) \in S /\ Latest(S).sequence = n
    BY <1>1, NewestRow DEF Chain
  <2> QED BY <1>1, <2>1 DEF Chain, Numbered
<1>3. \A r \in S : r.sequence \in 1..n
  BY <1>1 DEF Chain, Numbered
<1>4. ASSUME NEW r \in T, r.sequence < row.sequence PROVE ~BrokenAt(T, r)
  <2>1. Before(T, r) = Before(S, r)
    BY <1>2, <1>3, <1>4 DEF Before
  <2>2. ~BrokenAt(S, r)
    BY ChainVerifies
  <2> QED BY <2>1, <2>2 DEF BrokenAt
<1>5. ASSUME NEW r \in T, r.sequence > row.sequence PROVE BrokenAt(T, r)
  <2>1. Before(T, r) = Before(S, r) \ {row} /\ row \in Before(S, r)
    BY <1>5 DEF Before
  <2>2. /\ IsFiniteSet(Before(S, r))
        /\ Cardinality(Before(S, r)) = r.sequence - 1
        /\ r.sequence \in Nat
    <3>1. /\ Numbered(Before(S, r), r.sequence - 1)
          /\ r.sequence \in 1..n /\ r.sequence - 1 \in Nat
      BY <1>1, RowsBefore DEF Chain
    <3> QED BY <3>1, CountedRows
  <2>3. Cardinality(Before(S, r) \ {row}) = Cardinality(Before(S, r)) - 1
    BY <2>1, <2>2, FS_RemoveElement
  <2>4. Cardinality(Before(T, r)) + 1 = r.sequence - 1
    <3> HIDE DEF T
    <3> QED BY <2>1, <2>2, <2>3
  <2> HIDE DEF T
  <2> QED BY <2>2, <2>4 DEF BrokenAt
<1>6. \A r \in T : r.sequence # row.sequence
  BY <1>1 DEF Chain, Numbered
<1>7. \A r \in T : r \in broken <=> r.sequence > row.sequence
  BY <1>2, <1>3, <1>4, <1>5, <1>6
<1>8. PICK s \in T : s.sequence = row.sequence + 1
  BY <1>1, <1>2 DEF Chain, Numbered
<1>9. s \in broken /\ broken \subseteq T
  <2>1. broken \subseteq T
    OBVIOUS
  <2>2. s.sequence > row.sequence
    BY <1>2, <1>8
  <2> HIDE DEF broken, T
  <2> QED BY <1>7, <1>8, <2>1, <2>2
<1>10. \A other \in broken : s.sequence <= other.sequence
  BY <1>2, <1>3, <1>7, <1>8
<1> HIDE DEF broken
<1>11. First(broken) \in broken /\ \A other \in broken : First(broken).sequence <= other.sequence
  BY <1>9, <1>10 DEF First
<1>12. First(broken).sequence = row.sequence + 1
  BY <1>2, <1>3, <1>8, <1>9, <1>10, <1>11
<1>13. Verify(T) = IF broken = {} THEN <<>> ELSE <<First(broken).sequence>>
  BY DEF Verify, broken
<1> QED BY <1>9, <1>12, <1>13

\* A chain without its newest row is a chain.
LEMMA NewestRowIsNotMissed ==
    ASSUME NEW S, IsChain(S), S # {}
    PROVE  Verify(S \ {Latest(S)}) = <<>>
<1> DEFINE T == S \ {Latest(S)}
<1>1. PICK n \in Nat : Chain(S, n)
  BY DEF IsChain
<1>2. Latest(S) \in S /\ Latest(S).sequence = n /\ n # 0
  BY <1>1, NewestRow DEF Chain
<1>3. n - 1 \in Nat
  BY <1>2
<1>4. Numbered(T, n - 1)
  BY <1>1, <1>2 DEF Chain, Numbered
<1>5. Chain(T, n - 1)
  BY <1>1, <1>4 DEF Chain, Linked
<1> HIDE DEF T
<1>6. IsChain(T)
  BY <1>3, <1>5 DEF IsChain
<1> QED BY <1>6, ChainVerifies DEF T

\* Whatever committed row is altered, verify names it; whatever row is removed,
\* verify names the next one; only the newest row can be removed unnoticed.
THEOREM TamperingIsNamed == ChainSpec => []TamperingIsLocated
<1>1. ASSUME ChainInvariant, NEW row \in rows
      PROVE  Verify(rows \ {row}) =
                IF row = Latest(rows) THEN <<>> ELSE <<row.sequence + 1>>
  <2>1. IsChain(rows) /\ rows # {}
    BY <1>1 DEF ChainInvariant
  <2> QED BY <2>1, RemovedRowIsNamed, NewestRowIsNotMissed
<1>2. ChainInvariant => TamperingIsLocated
  BY <1>1, AlteredRowIsNamed DEF ChainInvariant, TamperingIsLocated
<1> QED BY <1>2, ChainInvariantHolds, PTL

-----------------------------------------------------------------------------
(* The chain implements the log                                             *)

\* A range of numbers has one end.
LEMMA SameRange ==
    ASSUME NEW m \in Nat, NEW n \in Nat, 1..m = 1..n
    PROVE  m = n
<1>1. CASE m < n
  <2>1. n \in 1..n /\ n \notin 1..m
    BY <1>1
  <2> QED BY <2>1
<1>2. CASE n < m
  <2>1. m \in 1..m /\ m \notin 1..n
    BY <1>2
  <2> QED BY <2>1
<1> QED BY <1>1, <1>2

\* Committed, for any set of rows.
EventsByNumber(S) ==
    [k \in 1..Cardinality(S) |-> {r.event : r \in {s \in S : s.sequence = k}}]

\* The events of a chain, one for each number.
LEMMA ChainIsALog ==
    ASSUME NEW S, NEW n \in Nat, Chain(S, n)
    PROVE  /\ EventsByNumber(S) \in Seq({{event} : event \in Events})
           /\ Len(EventsByNumber(S)) = n
           /\ \A r \in S :
                 r.sequence \in 1..n /\ EventsByNumber(S)[r.sequence] = {r.event}
<1> DEFINE events == EventsByNumber(S)
           E == {{event} : event \in Events}
           at(k) == {r.event : r \in {s \in S : s.sequence = k}}
<1>1. Cardinality(S) = n
  BY CountedRows DEF Chain
<1>2. events = [k \in 1..n |-> at(k)]
  BY <1>1 DEF EventsByNumber
<1> HIDE DEF events
<1>3. ASSUME NEW r \in S PROVE r.sequence \in 1..n /\ at(r.sequence) = {r.event}
  BY DEF Chain, Numbered
<1>4. ASSUME NEW k \in 1..n PROVE at(k) \in E
  <2>1. PICK r \in S : r.sequence = k
    BY DEF Chain, Numbered
  <2>2. r.event \in Events
    BY <2>1 DEF Chain, WellFormed
  <2>3. at(k) = {r.event}
    BY <1>3, <2>1
  <2> HIDE DEF at
  <2> QED BY <2>2, <2>3
<1>5. events \in [1..n -> E]
  <2> HIDE DEF at, E
  <2> QED BY <1>2, <1>4
<1>6. events \in Seq(E)
  BY <1>5, SeqDef
<1>7. Len(events) = n
  <2>1. Len(events) \in Nat /\ DOMAIN events = 1..Len(events)
    BY <1>6, LenProperties
  <2>2. DOMAIN events = 1..n
    BY <1>5
  <2>3. 1..Len(events) = 1..n
    BY <2>1, <2>2
  <2> HIDE DEF E, at
  <2> QED BY <2>1, <2>3, SameRange
<1>8. \A r \in S : r.sequence \in 1..n /\ events[r.sequence] = {r.event}
  <2>1. \A k \in 1..n : events[k] = at(k)
    BY <1>2
  <2> HIDE DEF at
  <2> QED BY <1>3, <2>1
<1> QED BY <1>6, <1>7, <1>8 DEF events

\* No row is committed at first.
LEMMA InitIsEmptyLog == ChainInit => Log!Init
<1> SUFFICES ASSUME ChainInit PROVE Committed = <<>>
  BY DEF Log!Init
<1>1. Chain(rows, 0)
  BY DEF ChainInit, Chain, Numbered, Linked
<1>2. Committed = EventsByNumber(rows)
  BY DEF Committed, EventsByNumber
<1> QED BY <1>1, <1>2, ChainIsALog, EmptySeq

\* A commit appends the events of its rows, in the order of their numbers.
LEMMA CommitAppends ==
    ASSUME ChainInvariant, ChainInvariant', NEW w \in Writers, Commit(w)
    PROVE  Log!Next
<1> DEFINE E == {{event} : event \in Events}
<1>1. rows' = Visible(w) /\ rows \subseteq rows' /\ rows # rows'
  BY DEF Commit, Visible, ChainInvariant
<1>2. PICK m \in Nat : Chain(rows, m)
  BY DEF ChainInvariant, IsChain
<1>3. PICK n \in Nat : Chain(rows', n)
  BY DEF ChainInvariant, IsChain
<1>4. m < n
  BY <1>1, <1>2, <1>3, ChainWithin DEF Chain
<1>5. /\ Committed \in Seq(E) /\ Len(Committed) = m
      /\ \A r \in rows : Committed[r.sequence] = {r.event}
  <2>1. Committed = EventsByNumber(rows)
    BY DEF Committed, EventsByNumber
  <2> QED BY <1>2, <2>1, ChainIsALog
<1>6. /\ Committed' \in Seq(E) /\ Len(Committed') = n
      /\ \A r \in rows' : Committed'[r.sequence] = {r.event}
  <2>1. Committed' = EventsByNumber(rows')
    BY DEF Committed, EventsByNumber
  <2> QED BY <1>3, <2>1, ChainIsALog
<1> HIDE DEF E
<1>7. \A k \in 1..m : Committed'[k] = Committed[k]
  <2> SUFFICES ASSUME NEW k \in 1..m PROVE Committed'[k] = Committed[k]
    OBVIOUS
  <2>1. PICK r \in rows : r.sequence = k
    BY <1>2 DEF Chain, Numbered
  <2> QED BY <1>1, <1>5, <1>6, <2>1
<1>8. \A k \in 1..n : Committed'[k] \in E
  BY <1>6, ElementOfSeq
<1>9. SubSeq(Committed', 1, m) = Committed
  <2>1. \A k \in 1..m : Committed'[k] \in E
    BY <1>4, <1>8
  <2>2. /\ SubSeq(Committed', 1, m) \in Seq(E)
        /\ Len(SubSeq(Committed', 1, m)) = m
        /\ \A k \in 1..m : SubSeq(Committed', 1, m)[k] = Committed'[k]
    BY <2>1, SubSeqProperties
  <2> QED BY <1>5, <1>7, <2>2, SeqEqual
<1>10. DOMAIN Committed' = 1..n
  BY <1>6, LenProperties
<1> QED BY <1>4, <1>5, <1>6, <1>8, <1>9, <1>10 DEF Log!Next, E

\* The chain of rows implements the append-only log: every step of any writer
\* appends at least one event to the committed ones or leaves them alone.
THEOREM ChainImplementsLog == ChainSpec => IsAnAppendOnlyLog
<1>1. ASSUME ChainInvariant, ChainInvariant', [ChainNext]_chainVars
      PROVE  [Log!Next]_Committed
  <2>1. rows' = rows => Committed' = Committed
    BY DEF Committed
  <2>2. ASSUME NEW w \in Writers, Commit(w) PROVE Log!Next
    BY <1>1, <2>2, CommitAppends
  <2> QED BY <1>1, <2>1, <2>2 DEF ChainNext, chainVars, Read, Flush, Rollback
<1> QED BY <1>1, InitIsEmptyLog, ChainInvariantHolds, PTL DEF ChainSpec, IsAnAppendOnlyLog, Log!Spec
=============================================================================
