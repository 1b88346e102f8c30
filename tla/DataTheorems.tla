---------------------------- MODULE DataTheorems ----------------------------
(***************************************************************************)
(* What the proofs about the models need to know of their data: ranges,     *)
(* sequences whose elements are replaced or added to, sums of integers over *)
(* finite sets (SumFunction of module Functions), which the totals of       *)
(* schedules, orders and pools are made of, counting along a total order,   *)
(* and the rounding rule of the money kernel.                               *)
(*                                                                         *)
(* Induction is stated over a set (of numbers, of subsets) that is closed   *)
(* under the step, because no prover here instantiates a predicate.         *)
(***************************************************************************)
EXTENDS MoneyKernel, FiniteSetTheorems, SequenceTheorems, TLAPS

-----------------------------------------------------------------------------
(* Ranges and sequences                                                     *)

\* A range of numbers has one end.
LEMMA SameRange ==
    ASSUME NEW m \in Nat, NEW n \in Nat, 1..m = 1..n
    PROVE  m = n
<1>1. CASE m < n
  <2>1. n \in 1..n /\ n \notin 1..m
    BY <1>1
  <2> QED BY <2>1
<1>2. CASE n < m
  <2>1. m \in 1..m /\ m \notin 1..n
    BY <1>2
  <2> QED BY <2>1
<1> QED BY <1>1, <1>2

\* A sequence, whatever it holds.
IsSequence(s) == s \in Seq({s[k] : k \in DOMAIN s})

\* A sequence is a function on the numbers up to its length.
LEMMA SequenceFacts ==
    ASSUME NEW s, IsSequence(s)
    PROVE  /\ Len(s) \in Nat
           /\ DOMAIN s = 1..Len(s)
           /\ s = [k \in 1..Len(s) |-> s[k]]
<1>1. Len(s) \in Nat /\ DOMAIN s = 1..Len(s) /\ s \in [1..Len(s) -> {s[k] : k \in DOMAIN s}]
  BY LenProperties DEF IsSequence
<1> QED BY <1>1

\* A function on the numbers up to n is a sequence of length n.
LEMMA SequenceFromFunction ==
    ASSUME NEW n \in Nat, NEW s, s = [k \in 1..n |-> s[k]]
    PROVE  IsSequence(s) /\ Len(s) = n
<1> DEFINE S == {s[k] : k \in DOMAIN s}
<1>1. s \in [1..n -> S]
  OBVIOUS
<1> HIDE DEF S
<1>2. s \in Seq(S)
  BY <1>1, SeqDef
<1>3. Len(s) \in Nat /\ DOMAIN s = 1..Len(s)
  BY <1>2, LenProperties
<1>4. Len(s) = n
  <2>1. 1..Len(s) = 1..n
    BY <1>1, <1>3
  <2> QED BY <1>3, <2>1, SameRange
<1> QED BY <1>2, <1>4 DEF IsSequence, S

\* u is the sequence s with b in place of its element n.
Replaces(u, s, n, b) ==
    /\ IsSequence(u)
    /\ Len(u) = Len(s) /\ DOMAIN u = DOMAIN s
    /\ u[n] = b
    /\ \A m \in DOMAIN s : m # n => u[m] = s[m]

\* u is the sequence s with b after it.
Extends(u, s, b) ==
    /\ IsSequence(u)
    /\ Len(u) = Len(s) + 1
    /\ Len(s) \in Nat /\ DOMAIN s = 1..Len(s) /\ DOMAIN u = 1..(Len(s) + 1)
    /\ u[Len(s) + 1] = b
    /\ \A m \in DOMAIN s : u[m] = s[m]

\* What EXCEPT does to a sequence.
LEMMA ReplacedElement ==
    ASSUME NEW s, IsSequence(s), NEW n \in DOMAIN s, NEW b
    PROVE  Replaces([s EXCEPT ![n] = b], s, n, b)
<1> DEFINE u == [s EXCEPT ![n] = b]
<1>1. Len(s) \in Nat /\ DOMAIN s = 1..Len(s)
  BY SequenceFacts
<1>2. /\ DOMAIN u = DOMAIN s /\ u[n] = b
      /\ \A m \in DOMAIN s : m # n => u[m] = s[m]
  OBVIOUS
<1>3. u = [k \in 1..Len(s) |-> u[k]]
  BY <1>1
<1> HIDE DEF u
<1>4. IsSequence(u) /\ Len(u) = Len(s)
  BY <1>1, <1>3, SequenceFromFunction
<1>5. Replaces(u, s, n, b)
  BY <1>2, <1>4 DEF Replaces
<1> QED BY <1>5 DEF u

\* What Append does to a sequence.
LEMMA AppendedElement ==
    ASSUME NEW s, IsSequence(s), NEW b
    PROVE  Extends(Append(s, b), s, b)
<1> DEFINE S == {s[k] : k \in DOMAIN s} \cup {b}
           u == Append(s, b)
<1>1. s \in Seq(S) /\ b \in S
  BY SeqMonotonic DEF IsSequence
<1>2. Len(s) \in Nat /\ DOMAIN s = 1..Len(s)
  BY SequenceFacts
<1>3. /\ u \in Seq(S) /\ Len(u) = Len(s) + 1
      /\ \A m \in 1..Len(s) : u[m] = s[m]
      /\ u[Len(s) + 1] = b
  <2> HIDE DEF S
  <2> QED BY <1>1, AppendProperties
<1> HIDE DEF S, u
<1>4. DOMAIN u = 1..(Len(s) + 1) /\ u \in [1..(Len(s) + 1) -> S]
  BY <1>3, LenProperties
<1>5. u = [k \in 1..(Len(s) + 1) |-> u[k]]
  BY <1>4
<1>6. IsSequence(u)
  BY <1>2, <1>5, SequenceFromFunction
<1>7. Extends(u, s, b)
  BY <1>2, <1>3, <1>4, <1>6 DEF Extends
<1> QED BY <1>7 DEF u

-----------------------------------------------------------------------------
(* Induction                                                                *)

\* A set of numbers with 0 and the successor of each of its numbers has all.
LEMMA NumberInduction ==
    ASSUME NEW S, 0 \in S, \A n \in Nat : n \in S => n + 1 \in S
    PROVE  Nat \subseteq S
<1> DEFINE R == OpToRel(<, Nat)
           T == Nat \ S
<1> SUFFICES ASSUME T # {} PROVE FALSE
  OBVIOUS
<1>1. IsWellFoundedOn(R, Nat)
  BY NatLessThanWellFounded
<1> HIDE DEF R
<1>2. PICK x \in T : \A y \in T : ~(<<y, x>> \in R)
  <2>1. T \subseteq Nat
    OBVIOUS
  <2> QED BY <1>1, <2>1, WFMin
<1>3. x \in Nat /\ x # 0 /\ x - 1 \in Nat
  BY <1>2
<1>4. x - 1 \notin T
  <2>1. <<x - 1, x>> \in R
    BY <1>3 DEF OpToRel, R
  <2> QED BY <1>2, <2>1
<1> QED BY <1>2, <1>3, <1>4

\* A family of subsets of a finite set that has the empty one, and with a
\* subset every subset that is one element larger, has the whole set.
LEMMA SubsetInduction ==
    ASSUME NEW S, IsFiniteSet(S), NEW P, {} \in P,
           \A s \in SUBSET S : \A x \in S \ s : s \in P => s \cup {x} \in P
    PROVE  S \in P
<1> DEFINE N == {n \in Nat : \A s \in SUBSET S : Cardinality(s) = n => s \in P}
<1>1. \A s \in SUBSET S : IsFiniteSet(s) /\ Cardinality(s) \in Nat
  BY FS_Subset, FS_CardinalityType
<1>2. 0 \in N
  BY <1>1, FS_EmptySet
<1>3. ASSUME NEW n \in Nat, n \in N PROVE n + 1 \in N
  <2> SUFFICES ASSUME NEW s \in SUBSET S, Cardinality(s) = n + 1 PROVE s \in P
    OBVIOUS
  <2> HIDE DEF N
  <2>1. s # {}
    <3>1. Cardinality({}) = 0
      BY FS_EmptySet
    <3> QED BY <3>1
  <2>2. PICK x \in s : TRUE
    BY <2>1
  <2>3. Cardinality(s \ {x}) = n
    <3>1. IsFiniteSet(s)
      BY <1>1
    <3>2. Cardinality(s \ {x}) = Cardinality(s) - 1
      BY <2>2, <3>1, FS_RemoveElement
    <3> QED BY <3>2
  <2>4. s \ {x} \in P
    BY <1>3, <2>3 DEF N
  <2>5. (s \ {x}) \cup {x} = s
    BY <2>2
  <2> QED BY <2>2, <2>4, <2>5
<1> HIDE DEF N
<1>4. Cardinality(S) \in N
  BY <1>1, <1>2, <1>3, NumberInduction
<1> QED BY <1>4 DEF N

\* A finite set of numbers has a largest one.
LEMMA LargestNumber ==
    ASSUME NEW S, IsFiniteSet(S), S \subseteq Int, S # {}
    PROVE  \E n \in S : \A m \in S : m <= n
<1> DEFINE P == {s \in SUBSET S : s = {} \/ \E n \in s : \A m \in s : m <= n}
<1>1. {} \in P
  OBVIOUS
<1>2. ASSUME NEW s \in SUBSET S, NEW x \in S \ s, s \in P PROVE s \cup {x} \in P
  <2> SUFFICES \E n \in s \cup {x} : \A m \in s \cup {x} : m <= n
    OBVIOUS
  <2>1. CASE s = {}
    BY <2>1
  <2>2. CASE s # {}
    <3>1. PICK n \in s : \A m \in s : m <= n
      BY <1>2, <2>2
    <3>2. CASE x <= n
      BY <3>1, <3>2
    <3>3. CASE n <= x
      BY <3>1, <3>3
    <3> QED BY <3>2, <3>3
  <2> QED BY <2>1, <2>2
<1> HIDE DEF P
<1>3. S \in P
  BY <1>1, <1>2, SubsetInduction
<1> QED BY <1>3 DEF P

-----------------------------------------------------------------------------
(* The sum is well defined                                                  *)

SomeOf(s) == CHOOSE x \in s : TRUE

\* One step of the sum of f over s, from the sums g over smaller sets.
SumStep(f, g, s) ==
    IF s = {} THEN 0 ELSE f[SomeOf(s)] + g[s \ {SomeOf(s)}]

\* g tabulates the sum of f over the subsets of S.
Tabulates(g, f, S) == g = [s \in SUBSET S |-> SumStep(f, g, s)]

\* There is a table: the recursive definition of the sum denotes one.
LEMMA TableExists ==
    ASSUME NEW f, NEW S, IsFiniteSet(S)
    PROVE  \E g : Tabulates(g, f, S)
<1> DEFINE UpTo(g, n) == \A s \in SUBSET S : Cardinality(s) <= n => g[s] = SumStep(f, g, s)
           N == {n \in Nat : \E g : UpTo(g, n)}
<1>1. \A s \in SUBSET S : IsFiniteSet(s) /\ Cardinality(s) \in Nat
  BY FS_Subset, FS_CardinalityType
<1>2. 0 \in N
  <2> DEFINE g == [s \in SUBSET S |-> 0]
  <2>1. ASSUME NEW s \in SUBSET S, Cardinality(s) <= 0 PROVE g[s] = SumStep(f, g, s)
    <3>1. s = {}
      BY <1>1, <2>1, FS_EmptySet
    <3> QED BY <3>1 DEF SumStep
  <2> QED BY <2>1
<1>3. ASSUME NEW n \in Nat, n \in N PROVE n + 1 \in N
  <2>1. PICK g : UpTo(g, n)
    BY <1>3
  <2> DEFINE h == [s \in SUBSET S |-> IF Cardinality(s) <= n THEN g[s] ELSE SumStep(f, g, s)]
  <2>2. ASSUME NEW s \in SUBSET S, Cardinality(s) <= n + 1 PROVE h[s] = SumStep(f, h, s)
    <3>1. h[s] = SumStep(f, g, s)
      BY <2>1
    <3>2. CASE s = {}
      BY <3>1, <3>2 DEF SumStep
    <3>3. CASE s # {}
      <4>1. SomeOf(s) \in s
        BY <3>3 DEF SomeOf
      <4> DEFINE t == s \ {SomeOf(s)}
      <4>2. t \in SUBSET S /\ Cardinality(t) <= n
        <5>1. Cardinality(t) = Cardinality(s) - 1
          BY <1>1, <4>1, FS_RemoveElement
        <5> QED BY <1>1, <2>2, <5>1
      <4> HIDE DEF t
      <4>3. h[t] = g[t]
        BY <4>2
      <4> HIDE DEF h
      <4> QED BY <3>1, <3>3, <4>3 DEF SumStep, t
    <3> QED BY <3>2, <3>3
  <2> HIDE DEF h
  <2>3. UpTo(h, n + 1)
    BY <2>2
  <2> HIDE DEF UpTo
  <2> QED BY <2>3
<1>4. Cardinality(S) \in N
  <2> HIDE DEF N
  <2> QED BY <1>1, <1>2, <1>3, NumberInduction
<1>5. PICK g : UpTo(g, Cardinality(S))
  BY <1>4
<1> DEFINE h == [s \in SUBSET S |-> g[s]]
<1>6. ASSUME NEW s \in SUBSET S PROVE h[s] = SumStep(f, h, s)
  <2>1. g[s] = SumStep(f, g, s)
    BY <1>1, <1>5, FS_Subset
  <2>2. SumStep(f, g, s) = SumStep(f, h, s)
    BY DEF SumStep
  <2> QED BY <2>1, <2>2
<1>7. Tabulates(h, f, S)
  <2>1. h = [s \in SUBSET S |-> h[s]]
    OBVIOUS
  <2> HIDE DEF h
  <2> QED BY <1>6, <2>1 DEF Tabulates
<1> QED BY <1>7

\* SumFunctionOnSet reads its value off such a table.
LEMMA SumTable ==
    ASSUME NEW f, NEW S, IsFiniteSet(S)
    PROVE  \E g : Tabulates(g, f, S) /\ SumFunctionOnSet(f, S) = g[S]
<1> DEFINE table == CHOOSE g : Tabulates(g, f, S)
<1>1. SumFunctionOnSet(f, S) = table[S]
  BY DEF SumFunctionOnSet, FoldFunctionOnSet, MapThenFoldSet, Tabulates, SumStep, SomeOf
<1>2. Tabulates(table, f, S)
  BY TableExists
<1> QED BY <1>1, <1>2
-----------------------------------------------------------------------------
(* Laws of the sum                                                          *)

\* The sum over no element.
LEMMA SumOfNone == \A f : SumFunctionOnSet(f, {}) = 0
<1> SUFFICES ASSUME NEW f PROVE SumFunctionOnSet(f, {}) = 0
  OBVIOUS
<1>1. PICK g : Tabulates(g, f, {}) /\ SumFunctionOnSet(f, {}) = g[{}]
  BY SumTable, FS_EmptySet
<1>2. g[{}] = SumStep(f, g, {})
  BY <1>1 DEF Tabulates
<1> QED BY <1>1, <1>2 DEF SumStep

IntegersOn(f, S) == \A x \in S : f[x] \in Int

\* A table of sums in which any element may be counted first.
CountsInAnyOrder(g, f, S) ==
    \A s \in SUBSET S : g[s] \in Int /\ \A x \in s : g[s] = f[x] + g[s \ {x}]

\* A table of sums of integers holds integers, and any element of a set may
\* be counted first.
LEMMA TableSplits ==
    ASSUME NEW f, NEW S, IsFiniteSet(S), IntegersOn(f, S),
           NEW g, Tabulates(g, f, S)
    PROVE  CountsInAnyOrder(g, f, S)
<1> DEFINE Splits(s) == g[s] \in Int /\ \A x \in s : g[s] = f[x] + g[s \ {x}]
           N == {n \in Nat : \A s \in SUBSET S : Cardinality(s) <= n => Splits(s)}
<1>1. \A s \in SUBSET S : IsFiniteSet(s) /\ Cardinality(s) \in Nat
  BY FS_Subset, FS_CardinalityType
<1>2. \A s \in SUBSET S : g[s] = SumStep(f, g, s)
  BY DEF Tabulates
<1>3. 0 \in N
  <2>1. \A s \in SUBSET S : Cardinality(s) <= 0 => s = {}
    BY <1>1, FS_EmptySet
  <2>2. g[{}] = 0
    BY <1>2 DEF SumStep
  <2> QED BY <2>1, <2>2
<1>4. ASSUME NEW n \in Nat, n \in N PROVE n + 1 \in N
  <2> HIDE DEF N
  <2>1. \A s \in SUBSET S : Cardinality(s) <= n => Splits(s)
    BY <1>4 DEF N
  <2> SUFFICES ASSUME NEW s \in SUBSET S, Cardinality(s) <= n + 1 PROVE Splits(s)
    BY DEF N
  <2>2. CASE s = {}
    <3>1. g[s] = 0
      BY <1>2, <2>2 DEF SumStep
    <3> QED BY <2>2, <3>1
  <2>3. CASE s # {}
    <3> DEFINE p == SomeOf(s)
    <3>1. p \in s
      BY <2>3 DEF SomeOf
    <3> HIDE DEF p
    <3>2. g[s] = f[p] + g[s \ {p}]
      BY <1>2, <2>3 DEF SumStep, p
    <3>3. ASSUME NEW x \in s PROVE Splits(s \ {x})
      <4>1. Cardinality(s \ {x}) = Cardinality(s) - 1
        BY <1>1, FS_RemoveElement
      <4>2. Cardinality(s \ {x}) <= n /\ s \ {x} \in SUBSET S
        BY <1>1, <4>1
      <4> HIDE DEF Splits
      <4> QED BY <2>1, <4>2
    <3>4. f[p] \in Int /\ g[s \ {p}] \in Int
      BY <3>1, <3>3 DEF IntegersOn
    <3>5. ASSUME NEW x \in s, x # p PROVE g[s] = f[x] + g[s \ {x}]
      <4> DEFINE t == s \ {p, x}
      <4>1. (s \ {p}) \ {x} = t /\ (s \ {x}) \ {p} = t
        OBVIOUS
      <4>2. g[s \ {p}] = f[x] + g[t] /\ g[s \ {x}] = f[p] + g[t]
        BY <3>1, <3>3, <3>5, <4>1
      <4>3. f[x] \in Int /\ f[p] \in Int /\ g[t] \in Int
        <5>1. t \in SUBSET S /\ Cardinality(t) <= n
          <6>1. Cardinality(s \ {p}) = Cardinality(s) - 1
            BY <1>1, <3>1, FS_RemoveElement
          <6>2. s \ {p} \in SUBSET S
            OBVIOUS
          <6>3. Cardinality((s \ {p}) \ {x}) = Cardinality(s \ {p}) - 1
            BY <1>1, <3>5, <6>2, FS_RemoveElement
          <6>4. t \in SUBSET S
            OBVIOUS
          <6> HIDE DEF t
          <6> QED BY <1>1, <4>1, <6>1, <6>3, <6>4
        <5> HIDE DEF t
        <5> QED BY <2>1, <3>1, <5>1 DEF IntegersOn
      <4> HIDE DEF t
      <4> QED BY <3>2, <4>2, <4>3
    <3>6. g[s] \in Int
      BY <3>2, <3>4
    <3>7. \A x \in s : g[s] = f[x] + g[s \ {x}]
      BY <3>2, <3>5
    <3> QED BY <3>6, <3>7
  <2> QED BY <2>2, <2>3
<1>5. Cardinality(S) \in N
  <2> HIDE DEF N
  <2> QED BY <1>1, <1>3, <1>4, NumberInduction
<1>6. \A s \in SUBSET S : Cardinality(s) <= Cardinality(S)
  BY FS_Subset
<1> HIDE DEF Splits
<1>7. \A s \in SUBSET S : Splits(s)
  BY <1>5, <1>6
<1> QED BY <1>7 DEF Splits, CountsInAnyOrder

\* The sum of integers is an integer, and any element may be counted first.
THEOREM SumSplits ==
    ASSUME NEW f, NEW S, IsFiniteSet(S), IntegersOn(f, S)
    PROVE  /\ SumFunctionOnSet(f, S) \in Int
           /\ \A x \in S : SumFunctionOnSet(f, S) = f[x] + SumFunctionOnSet(f, S \ {x})
<1>1. PICK g : Tabulates(g, f, S) /\ SumFunctionOnSet(f, S) = g[S]
  BY SumTable
<1>2. CountsInAnyOrder(g, f, S)
  BY <1>1, TableSplits
<1>3. ASSUME NEW T \in SUBSET S PROVE SumFunctionOnSet(f, T) = g[T]
  <2>1. IsFiniteSet(T) /\ IntegersOn(f, T)
    BY FS_Subset DEF IntegersOn
  <2>2. PICK h : Tabulates(h, f, T) /\ SumFunctionOnSet(f, T) = h[T]
    BY <2>1, SumTable
  <2>3. CountsInAnyOrder(h, f, T)
    BY <2>1, <2>2, TableSplits
  <2> DEFINE P == {s \in SUBSET T : g[s] = h[s]}
  <2>4. {} \in P
    <3>1. g[{}] = 0 /\ h[{}] = 0
      BY <1>1, <2>2 DEF Tabulates, SumStep
    <3> QED BY <3>1
  <2>5. ASSUME NEW s \in SUBSET T, NEW x \in T \ s, s \in P PROVE s \cup {x} \in P
    <3> DEFINE u == s \cup {x}
    <3>1. u \in SUBSET T /\ u \in SUBSET S /\ x \in u /\ u \ {x} = s
      OBVIOUS
    <3>2. g[s] = h[s]
      BY <2>5
    <3> HIDE DEF u
    <3>3. g[u] = f[x] + g[s] /\ h[u] = f[x] + h[s]
      BY <1>2, <2>3, <3>1 DEF CountsInAnyOrder
    <3> QED BY <3>1, <3>2, <3>3 DEF u
  <2> HIDE DEF P
  <2>6. T \in P
    BY <2>1, <2>4, <2>5, SubsetInduction
  <2> QED BY <2>2, <2>6 DEF P
<1> QED BY <1>1, <1>2, <1>3 DEF CountsInAnyOrder

\* Counting one more element.
LEMMA SumWithOneMore ==
    ASSUME NEW f, NEW S, IsFiniteSet(S), NEW x, x \notin S, IntegersOn(f, S \cup {x})
    PROVE  SumFunctionOnSet(f, S \cup {x}) = SumFunctionOnSet(f, S) + f[x]
<1> DEFINE u == S \cup {x}
<1>1. IsFiniteSet(u) /\ x \in u /\ u \ {x} = S
  BY FS_AddElement
<1>2. IntegersOn(f, S) /\ f[x] \in Int
  BY DEF IntegersOn
<1> HIDE DEF u
<1>3. SumFunctionOnSet(f, u) = f[x] + SumFunctionOnSet(f, S)
  BY <1>1, SumSplits DEF u
<1>4. SumFunctionOnSet(f, S) \in Int
  BY <1>2, SumSplits
<1> QED BY <1>2, <1>3, <1>4 DEF u

\* The sums of two functions add up to the sum of a third when their values do.
LEMMA SumOfSums ==
    ASSUME NEW f, NEW g, NEW h, NEW S, IsFiniteSet(S), IntegersOn(f, S), IntegersOn(g, S),
           \A x \in S : h[x] = f[x] + g[x]
    PROVE  SumFunctionOnSet(h, S) = SumFunctionOnSet(f, S) + SumFunctionOnSet(g, S)
<1> DEFINE P == {s \in SUBSET S : SumFunctionOnSet(h, s) =
                                      SumFunctionOnSet(f, s) + SumFunctionOnSet(g, s)}
<1>1. {} \in P
  BY SumOfNone
<1>2. ASSUME NEW s \in SUBSET S, NEW x \in S \ s, s \in P PROVE s \cup {x} \in P
  <2>1. IsFiniteSet(s)
    BY FS_Subset
  <2>2. /\ IntegersOn(f, s \cup {x}) /\ IntegersOn(f, s)
        /\ IntegersOn(g, s \cup {x}) /\ IntegersOn(g, s)
        /\ IntegersOn(h, s \cup {x})
    BY DEF IntegersOn
  <2>3. /\ SumFunctionOnSet(f, s \cup {x}) = SumFunctionOnSet(f, s) + f[x]
        /\ SumFunctionOnSet(g, s \cup {x}) = SumFunctionOnSet(g, s) + g[x]
        /\ SumFunctionOnSet(h, s \cup {x}) = SumFunctionOnSet(h, s) + h[x]
    BY <2>1, <2>2, SumWithOneMore
  <2>4. SumFunctionOnSet(f, s) \in Int /\ SumFunctionOnSet(g, s) \in Int
    BY <2>1, <2>2, SumSplits
  <2>5. f[x] \in Int /\ g[x] \in Int /\ h[x] = f[x] + g[x]
    BY DEF IntegersOn
  <2>6. SumFunctionOnSet(h, s) = SumFunctionOnSet(f, s) + SumFunctionOnSet(g, s)
    BY <1>2
  <2> QED BY <2>3, <2>4, <2>5, <2>6
<1> HIDE DEF P
<1>3. S \in P
  BY <1>1, <1>2, SubsetInduction
<1> QED BY <1>3 DEF P

\* Nothing adds up to nothing.
LEMMA SumOfZeros ==
    ASSUME NEW f, NEW S, IsFiniteSet(S), \A x \in S : f[x] = 0
    PROVE  SumFunctionOnSet(f, S) = 0
<1>1. IntegersOn(f, S)
  BY DEF IntegersOn
<1>2. SumFunctionOnSet(f, S) = SumFunctionOnSet(f, S) + SumFunctionOnSet(f, S)
  BY <1>1, SumOfSums
<1>3. SumFunctionOnSet(f, S) \in Int
  BY <1>1, SumSplits
<1>4. \A n \in Int : n = n + n => n = 0
  OBVIOUS
<1> QED BY <1>2, <1>3, <1>4

\* Functions that agree on a set have the same sum over it.
LEMMA SumOfEquals ==
    ASSUME NEW f, NEW g, NEW S, IsFiniteSet(S), IntegersOn(f, S), \A x \in S : g[x] = f[x]
    PROVE  SumFunctionOnSet(g, S) = SumFunctionOnSet(f, S)
<1> DEFINE zero == [x \in S |-> 0]
<1>1. SumFunctionOnSet(zero, S) = 0 /\ IntegersOn(zero, S)
  BY SumOfZeros DEF IntegersOn
<1>2. \A x \in S : g[x] = f[x] + zero[x]
  BY DEF IntegersOn
<1> HIDE DEF zero
<1>3. SumFunctionOnSet(g, S) = SumFunctionOnSet(f, S) + SumFunctionOnSet(zero, S)
  BY <1>1, <1>2, SumOfSums
<1> QED BY <1>1, <1>3, SumSplits

\* The sum over two disjoint sets.
LEMMA SumOfUnion ==
    ASSUME NEW f, NEW S, NEW T, IsFiniteSet(S), IsFiniteSet(T), S \cap T = {},
           IntegersOn(f, S), IntegersOn(f, T)
    PROVE  SumFunctionOnSet(f, S \cup T) = SumFunctionOnSet(f, S) + SumFunctionOnSet(f, T)
<1> DEFINE P == {t \in SUBSET T : SumFunctionOnSet(f, S \cup t) =
                                      SumFunctionOnSet(f, S) + SumFunctionOnSet(f, t)}
<1>1. {} \in P
  <2>1. S \cup {} = S
    OBVIOUS
  <2> QED BY <2>1, SumOfNone, SumSplits
<1>2. ASSUME NEW t \in SUBSET T, NEW x \in T \ t, t \in P PROVE t \cup {x} \in P
  <2>1. IsFiniteSet(t) /\ IsFiniteSet(S \cup t)
    <3>1. IsFiniteSet(t)
      BY FS_Subset
    <3> QED BY <3>1, FS_Union
  <2>2. x \notin S \cup t /\ f[x] \in Int
    BY DEF IntegersOn
  <2>3. /\ IntegersOn(f, t \cup {x}) /\ IntegersOn(f, t)
        /\ IntegersOn(f, (S \cup t) \cup {x})
    BY DEF IntegersOn
  <2>4. /\ SumFunctionOnSet(f, t \cup {x}) = SumFunctionOnSet(f, t) + f[x]
        /\ SumFunctionOnSet(f, (S \cup t) \cup {x}) = SumFunctionOnSet(f, S \cup t) + f[x]
    BY <2>1, <2>2, <2>3, SumWithOneMore
  <2>5. SumFunctionOnSet(f, S) \in Int /\ SumFunctionOnSet(f, t) \in Int
    BY <2>1, <2>3, SumSplits
  <2>6. SumFunctionOnSet(f, S \cup t) = SumFunctionOnSet(f, S) + SumFunctionOnSet(f, t)
    BY <1>2
  <2>7. S \cup (t \cup {x}) = (S \cup t) \cup {x}
    OBVIOUS
  <2>8. SumFunctionOnSet(f, S \cup (t \cup {x})) =
            SumFunctionOnSet(f, S) + SumFunctionOnSet(f, t \cup {x})
    <3>1. SumFunctionOnSet(f, S \cup (t \cup {x})) = SumFunctionOnSet(f, (S \cup t) \cup {x})
      BY <2>7
    <3> QED BY <2>2, <2>4, <2>5, <2>6, <3>1
  <2> QED BY <2>8
<1> HIDE DEF P
<1>3. T \in P
  BY <1>1, <1>2, SubsetInduction
<1> QED BY <1>3 DEF P

\* A sum does not depend on how its terms are indexed.
LEMMA SumReindexed ==
    ASSUME NEW f, NEW g, NEW S, NEW T, NEW b \in Bijection(S, T), IsFiniteSet(S),
           IntegersOn(f, S), \A x \in S : g[b[x]] = f[x]
    PROVE  SumFunctionOnSet(g, T) = SumFunctionOnSet(f, S)
<1> DEFINE image(s) == {b[x] : x \in s}
           P == {s \in SUBSET S : /\ IsFiniteSet(image(s))
                                  /\ SumFunctionOnSet(g, image(s)) = SumFunctionOnSet(f, s)}
<1>1. /\ b \in [S -> T]
      /\ \A x, y \in S : b[x] = b[y] => x = y
      /\ \A y \in T : \E x \in S : b[x] = y
  BY DEF Bijection, Injection, Surjection, IsInjective
<1>2. {} \in P
  <2>1. image({}) = {}
    OBVIOUS
  <2> QED BY <2>1, SumOfNone, FS_EmptySet
<1>3. ASSUME NEW s \in SUBSET S, NEW x \in S \ s, s \in P PROVE s \cup {x} \in P
  <2>1. IsFiniteSet(s)
    BY FS_Subset
  <2>2. IsFiniteSet(image(s))
    BY <1>3
  <2>3. image(s \cup {x}) = image(s) \cup {b[x]}
    OBVIOUS
  <2>4. b[x] \notin image(s)
    BY <1>1
  <2>5. IntegersOn(g, image(s) \cup {b[x]}) /\ IntegersOn(f, s \cup {x})
    BY DEF IntegersOn
  <2>6. SumFunctionOnSet(g, image(s)) = SumFunctionOnSet(f, s)
    BY <1>3
  <2> HIDE DEF image
  <2>7. SumFunctionOnSet(g, image(s) \cup {b[x]}) = SumFunctionOnSet(g, image(s)) + g[b[x]]
    BY <2>2, <2>4, <2>5, SumWithOneMore
  <2>8. SumFunctionOnSet(f, s \cup {x}) = SumFunctionOnSet(f, s) + f[x]
    BY <2>1, <2>5, SumWithOneMore
  <2>9. IsFiniteSet(image(s) \cup {b[x]})
    BY <2>2, FS_AddElement
  <2> QED BY <2>3, <2>6, <2>7, <2>8, <2>9
<1>4. image(S) = T
  BY <1>1
<1> HIDE DEF P
<1>5. S \in P
  BY <1>2, <1>3, SubsetInduction
<1> QED BY <1>4, <1>5 DEF P

\* Larger values make a larger sum.
LEMMA SumIsMonotone ==
    ASSUME NEW f, NEW g, NEW S, IsFiniteSet(S), IntegersOn(f, S), IntegersOn(g, S),
           \A x \in S : f[x] <= g[x]
    PROVE  SumFunctionOnSet(f, S) <= SumFunctionOnSet(g, S)
<1> DEFINE P == {s \in SUBSET S : SumFunctionOnSet(f, s) <= SumFunctionOnSet(g, s)}
<1>1. {} \in P
  BY SumOfNone
<1>2. ASSUME NEW s \in SUBSET S, NEW x \in S \ s, s \in P PROVE s \cup {x} \in P
  <2>1. IsFiniteSet(s)
    BY FS_Subset
  <2>2. /\ IntegersOn(f, s \cup {x}) /\ IntegersOn(f, s)
        /\ IntegersOn(g, s \cup {x}) /\ IntegersOn(g, s)
    BY DEF IntegersOn
  <2>3. /\ SumFunctionOnSet(f, s \cup {x}) = SumFunctionOnSet(f, s) + f[x]
        /\ SumFunctionOnSet(g, s \cup {x}) = SumFunctionOnSet(g, s) + g[x]
    BY <2>1, <2>2, SumWithOneMore
  <2>4. SumFunctionOnSet(f, s) \in Int /\ SumFunctionOnSet(g, s) \in Int
    BY <2>1, <2>2, SumSplits
  <2>5. f[x] \in Int /\ g[x] \in Int /\ f[x] <= g[x]
    BY DEF IntegersOn
  <2>6. SumFunctionOnSet(f, s) <= SumFunctionOnSet(g, s)
    BY <1>2
  <2> QED BY <2>3, <2>4, <2>5, <2>6
<1> HIDE DEF P
<1>3. S \in P
  BY <1>1, <1>2, SubsetInduction
<1> QED BY <1>3 DEF P

\* A multiple of a sum is the sum of the multiples.
LEMMA SumScaled ==
    ASSUME NEW f, NEW g, NEW S, NEW k \in Int, IsFiniteSet(S), IntegersOn(f, S),
           \A x \in S : g[x] = k * f[x]
    PROVE  SumFunctionOnSet(g, S) = k * SumFunctionOnSet(f, S)
<1> DEFINE P == {s \in SUBSET S : SumFunctionOnSet(g, s) = k * SumFunctionOnSet(f, s)}
<1>1. {} \in P
  BY SumOfNone
<1>2. ASSUME NEW s \in SUBSET S, NEW x \in S \ s, s \in P PROVE s \cup {x} \in P
  <2>1. IsFiniteSet(s)
    BY FS_Subset
  <2>2. /\ IntegersOn(f, s \cup {x}) /\ IntegersOn(f, s) /\ IntegersOn(g, s \cup {x})
        /\ f[x] \in Int
    BY DEF IntegersOn
  <2>3. /\ SumFunctionOnSet(f, s \cup {x}) = SumFunctionOnSet(f, s) + f[x]
        /\ SumFunctionOnSet(g, s \cup {x}) = SumFunctionOnSet(g, s) + k * f[x]
    BY <2>1, <2>2, SumWithOneMore
  <2>4. SumFunctionOnSet(f, s) \in Int
    BY <2>1, <2>2, SumSplits
  <2>5. \A a, b \in Int : k * a + k * b = k * (a + b)
    OBVIOUS
  <2>6. SumFunctionOnSet(g, s) = k * SumFunctionOnSet(f, s)
    BY <1>2
  <2> QED BY <2>2, <2>3, <2>4, <2>5, <2>6
<1> HIDE DEF P
<1>3. S \in P
  BY <1>1, <1>2, SubsetInduction
<1> QED BY <1>3 DEF P

\* A constant is counted once for each element.
LEMMA SumOfConstant ==
    ASSUME NEW f, NEW S, NEW k \in Int, IsFiniteSet(S), \A x \in S : f[x] = k
    PROVE  SumFunctionOnSet(f, S) = k * Cardinality(S)
<1> DEFINE P == {s \in SUBSET S : SumFunctionOnSet(f, s) = k * Cardinality(s)}
<1>1. {} \in P
  BY SumOfNone, FS_EmptySet
<1>2. ASSUME NEW s \in SUBSET S, NEW x \in S \ s, s \in P PROVE s \cup {x} \in P
  <2>1. IsFiniteSet(s)
    BY FS_Subset
  <2>2. /\ Cardinality(s \cup {x}) = Cardinality(s) + 1 /\ Cardinality(s) \in Nat
    BY <2>1, FS_AddElement, FS_CardinalityType
  <2>3. IntegersOn(f, s \cup {x}) /\ f[x] = k
    BY DEF IntegersOn
  <2>4. SumFunctionOnSet(f, s \cup {x}) = SumFunctionOnSet(f, s) + k
    BY <2>1, <2>3, SumWithOneMore
  <2>5. \A a \in Int : k * (a + 1) = k * a + k
    OBVIOUS
  <2>6. SumFunctionOnSet(f, s) = k * Cardinality(s)
    BY <1>2
  <2> QED BY <2>2, <2>4, <2>5, <2>6
<1> HIDE DEF P
<1>3. S \in P
  BY <1>1, <1>2, SubsetInduction
<1> QED BY <1>3 DEF P

\* The sum of 1 over a part is the size of the part.
LEMMA SumOfIndicator ==
    ASSUME NEW f, NEW S, NEW T \in SUBSET S, IsFiniteSet(S),
           \A x \in S : f[x] = IF x \in T THEN 1 ELSE 0
    PROVE  SumFunctionOnSet(f, S) = Cardinality(T)
<1>1. IsFiniteSet(T) /\ IsFiniteSet(S \ T) /\ T \cap (S \ T) = {} /\ T \cup (S \ T) = S
  BY FS_Subset
<1>2. IntegersOn(f, T) /\ IntegersOn(f, S \ T)
  BY DEF IntegersOn
<1>3. SumFunctionOnSet(f, T) = 1 * Cardinality(T)
  BY <1>1, SumOfConstant
<1>4. SumFunctionOnSet(f, S \ T) = 0
  BY <1>1, SumOfZeros
<1>5. SumFunctionOnSet(f, S) = SumFunctionOnSet(f, T) + SumFunctionOnSet(f, S \ T)
  BY <1>1, <1>2, SumOfUnion
<1>6. Cardinality(T) \in Nat
  BY <1>1, FS_CardinalityType
<1> QED BY <1>3, <1>4, <1>5, <1>6

\* The kernel's sum.
LEMMA SumOverIs == \A f : SumOver(f) = SumFunctionOnSet(f, DOMAIN f)
  BY DEF SumOver, SumFunction

-----------------------------------------------------------------------------
(* Counting along a total order                                             *)

\* before[x] are the elements of S in front of x.
OrdersTotally(before, S) ==
    /\ before \in [S -> SUBSET S]
    /\ \A x \in S : x \notin before[x]
    /\ \A x \in S : \A y \in before[x] : before[y] \subseteq before[x]
    /\ \A x, y \in S : x # y => x \in before[y] \/ y \in before[x]

\* The elements with fewer than n in front of them.
FirstOf(before, S, n) == {x \in S : Cardinality(before[x]) < n}

\* As many elements as one likes have fewer than that many in front of them.
LEMMA FirstOnes ==
    ASSUME NEW S, IsFiniteSet(S), NEW before, OrdersTotally(before, S),
           NEW n \in 0..Cardinality(S)
    PROVE  Cardinality(FirstOf(before, S, n)) = n
<1> DEFINE N == Cardinality(S)
           rank == [x \in S |-> Cardinality(before[x])]
           first == {x \in S : Cardinality(before[x]) < n}
           R == 0..(N - 1)
<1>1. N \in Nat /\ n \in Nat /\ n <= N
  BY FS_CardinalityType
<1>0. \A k \in Nat : IsFiniteSet(0..(k - 1)) /\ Cardinality(0..(k - 1)) = k
  <2> SUFFICES ASSUME NEW k \in Nat
               PROVE  IsFiniteSet(0..(k - 1)) /\ Cardinality(0..(k - 1)) = k
    OBVIOUS
  <2> DEFINE a == 0
             b == k - 1
  <2>1. a \in Int /\ b \in Int
    OBVIOUS
  <2> HIDE DEF a, b
  <2>2. IsFiniteSet(a..b) /\ Cardinality(a..b) = IF a > b THEN 0 ELSE b - a + 1
    BY <2>1, FS_Interval
  <2> QED BY <2>2 DEF a, b
<1>2. ASSUME NEW x \in S
      PROVE  IsFiniteSet(before[x]) /\ Cardinality(before[x]) \in R
  <2>1. before[x] \in SUBSET S /\ x \notin before[x]
    BY DEF OrdersTotally
  <2>2. IsFiniteSet(before[x]) /\ Cardinality(before[x]) \in Nat /\ Cardinality(before[x]) <= N
        /\ (N = Cardinality(before[x]) => S = before[x])
    BY <2>1, FS_Subset, FS_CardinalityType
  <2> QED BY <1>1, <2>1, <2>2
<1>3. ASSUME NEW x \in S, NEW y \in S, x \in before[y]
      PROVE  Cardinality(before[x]) < Cardinality(before[y])
  <2>1. before[x] \in SUBSET before[y] /\ x \notin before[x]
    BY <1>3 DEF OrdersTotally
  <2>2. /\ Cardinality(before[x]) <= Cardinality(before[y])
        /\ Cardinality(before[y]) = Cardinality(before[x]) => before[y] = before[x]
    BY <1>2, <2>1, FS_Subset
  <2>3. Cardinality(before[x]) \in Nat /\ Cardinality(before[y]) \in Nat
    BY <1>2, FS_CardinalityType
  <2> QED BY <1>3, <2>1, <2>2, <2>3
<1>4. \A x, y \in S : rank[x] = rank[y] => x = y
  <2> SUFFICES ASSUME NEW x \in S, NEW y \in S, x # y PROVE rank[x] # rank[y]
    OBVIOUS
  <2>1. Cardinality(before[x]) \in Int /\ Cardinality(before[y]) \in Int
    BY <1>1, <1>2
  <2>2. x \in before[y] \/ y \in before[x]
    BY DEF OrdersTotally
  <2> QED BY <1>3, <2>1, <2>2
<1>5. rank \in Injection(S, R)
  BY <1>2, <1>4 DEF Injection, IsInjective
<1>6. IsFiniteSet(R) /\ Cardinality(R) = N
  BY <1>0, <1>1
<1>7. \A k \in R : \E x \in S : rank[x] = k
  <2>1. rank \in Surjection(S, R)
    BY <1>5, <1>6, FS_Injection
  <2> QED BY <2>1 DEF Surjection
<1> DEFINE low == [x \in first |-> rank[x]]
<1>8. low \in Bijection(first, 0..(n - 1))
  <2>1. low \in [first -> 0..(n - 1)]
    BY <1>1, <1>2
  <2>2. \A x, y \in first : low[x] = low[y] => x = y
    BY <1>4
  <2>3. \A k \in 0..(n - 1) : \E x \in first : low[x] = k
    <3> SUFFICES ASSUME NEW k \in 0..(n - 1) PROVE \E x \in first : low[x] = k
      OBVIOUS
    <3>1. PICK x \in S : rank[x] = k
      BY <1>1, <1>7
    <3>2. x \in first
      BY <1>1, <3>1
    <3> QED BY <3>1, <3>2
  <2> HIDE DEF low, first
  <2> QED BY <2>1, <2>2, <2>3 DEF Bijection, Injection, Surjection, IsInjective
<1>9. IsFiniteSet(first) /\ IsFiniteSet(0..(n - 1)) /\ Cardinality(0..(n - 1)) = n
  BY <1>0, <1>1, FS_Subset
<1> HIDE DEF low, first
<1>10. Cardinality(0..(n - 1)) = Cardinality(first)
  BY <1>8, <1>9, FS_Bijection DEF ExistsBijection
<1> QED BY <1>9, <1>10 DEF first, FirstOf

-----------------------------------------------------------------------------
(* The rounding rule, for every amount and every rate                       *)

\* The rounded quotient is the whole number q with p in [q - 1/2, q + 1/2) of W.
LEMMA NearestWhole ==
    ASSUME NEW p \in Nat, NEW W \in Nat \ {0}
    PROVE  LET q == RoundedQuotient(p, W)
           IN  /\ q \in Nat
               /\ 2 * p >= 2 * (q * W) - W
               /\ 2 * p < 2 * (q * W) + W
<1> DEFINE d == p \div W
           r == p % W
           q == RoundedQuotient(p, W)
<1>1. d \in Nat /\ r \in Nat /\ r < W /\ p = W * d + r
  <2>1. \A x \in Nat, y \in Nat \ {0} : /\ x \div y \in Nat /\ x % y \in 0..(y - 1)
                                        /\ x = y * (x \div y) + (x % y)
    OBVIOUS
  <2> QED BY <2>1
<1>2. q = d + (IF 2 * r >= W THEN 1 ELSE 0)
  BY DEF RoundedQuotient
<1> HIDE DEF d, r, q
<1>3. W * d \in Int
  BY <1>1
<1>4. CASE 2 * r >= W
  <2>1. q = d + 1 /\ q * W = W * d + W
    BY <1>1, <1>2, <1>4
  <2> QED BY <1>1, <1>3, <1>4, <2>1 DEF q
<1>5. CASE ~(2 * r >= W)
  <2>1. q = d /\ q * W = W * d
    BY <1>1, <1>2, <1>5
  <2> QED BY <1>1, <1>3, <1>5, <2>1 DEF q
<1> QED BY <1>4, <1>5

\* A larger numerator rounds to no less, and k whole units more to k more.
LEMMA NearestWholeIsMonotone ==
    ASSUME NEW p \in Nat, NEW r \in Nat, NEW W \in Nat \ {0}, p <= r
    PROVE  /\ RoundedQuotient(p, W) <= RoundedQuotient(r, W)
           /\ \A k \in Nat : r <= p + k * W =>
                 RoundedQuotient(r, W) <= RoundedQuotient(p, W) + k
<1> DEFINE a == RoundedQuotient(p, W)
           b == RoundedQuotient(r, W)
<1>1. a \in Nat /\ 2 * p >= 2 * (a * W) - W /\ 2 * p < 2 * (a * W) + W
  BY NearestWhole
<1>2. b \in Nat /\ 2 * r >= 2 * (b * W) - W /\ 2 * r < 2 * (b * W) + W
  BY NearestWhole
<1> HIDE DEF a, b
<1>3. a * W \in Int /\ b * W \in Int
  BY <1>1, <1>2
<1>4. \A x, y \in Int : x <= y => x * W <= y * W
  OBVIOUS
<1>5. a <= b
  <2> SUFFICES ASSUME b + 1 <= a PROVE FALSE
    BY <1>1, <1>2
  <2>1. (b + 1) * W <= a * W /\ (b + 1) * W = b * W + W
    BY <1>1, <1>2, <1>4
  <2> QED BY <1>1, <1>2, <1>3, <2>1
<1>6. ASSUME NEW k \in Nat, r <= p + k * W PROVE b <= a + k
  <2> SUFFICES ASSUME a + k + 1 <= b PROVE FALSE
    BY <1>1, <1>2
  <2>1. (a + k + 1) * W <= b * W /\ (a + k + 1) * W = a * W + k * W + W /\ k * W \in Int
    BY <1>1, <1>2, <1>4
  <2> QED BY <1>1, <1>2, <1>3, <1>6, <2>1
<1> QED BY <1>5, <1>6 DEF a, b

\* A rate is a share of 10000.
LEMMA ScaleIsPositive == BpScale \in Nat \ {0}
  BY DEF BpScale

\* A product is the product of the magnitudes, with its sign.
LEMMA Magnitudes ==
    ASSUME NEW a \in Int, NEW b \in Int
    PROVE  /\ Abs(a) \in Nat /\ Abs(b) \in Nat
           /\ Abs(a) * Abs(b) \in Nat
           /\ SignOf(a, b) * (Abs(a) * Abs(b)) = a * b
           /\ SignOf(a, b) \in {-1, 1}
  BY DEF Abs, SignOf

\* apply_bp returns the nearest whole cent to amount * rate / 10000, with a tie
\* going away from zero, whatever the signs of the two.
THEOREM ApplyBpRoundsHalfAway ==
    ASSUME NEW amount \in Int, NEW rate \in Int
    PROVE  LET exact == amount * rate
               error == ApplyBp(amount, rate) * BpScale - exact
           IN  /\ ApplyBp(amount, rate) \in Int
               /\ 2 * Abs(error) <= BpScale
               /\ 2 * Abs(error) = BpScale => (error > 0 <=> exact > 0)
<1> DEFINE p == Abs(amount) * Abs(rate)
           q == RoundedQuotient(p, BpScale)
           s == SignOf(amount, rate)
<1>1. p \in Nat /\ s * p = amount * rate /\ s \in {-1, 1}
  BY Magnitudes
<1>2. q \in Nat /\ 2 * p >= 2 * (q * BpScale) - BpScale /\ 2 * p < 2 * (q * BpScale) + BpScale
  BY <1>1, ScaleIsPositive, NearestWhole
<1>3. CASE amount = 0 \/ rate = 0
  BY <1>3 DEF ApplyBp, Abs, BpScale
<1>4. CASE ~(amount = 0 \/ rate = 0)
  <2>1. ApplyBp(amount, rate) = s * q
    BY <1>4 DEF ApplyBp
  <2>2. p > 0
    BY <1>4 DEF Abs
  <2> HIDE DEF p, q, s
  <2>3. CASE s = 1
    <3>1. ApplyBp(amount, rate) = q /\ amount * rate = p
      BY <1>1, <1>2, <2>1, <2>3
    <3> QED BY <1>1, <1>2, <2>2, <3>1 DEF Abs, BpScale
  <2>4. CASE s = -1
    <3>1. ApplyBp(amount, rate) = -q /\ amount * rate = -p
      BY <1>1, <1>2, <2>1, <2>4
    <3> QED BY <1>1, <1>2, <2>2, <3>1 DEF Abs, BpScale
  <2> QED BY <1>1, <2>3, <2>4
<1> QED BY <1>3, <1>4

\* Whole cents.
COROLLARY ApplyBpIsWhole ==
    ASSUME NEW amount \in Int, NEW rate \in Int
    PROVE  ApplyBp(amount, rate) \in Int
BY ApplyBpRoundsHalfAway

\* A credit withholds exactly what the charge it reverses withheld.
THEOREM ApplyBpIsOdd ==
    ASSUME NEW amount \in Int, NEW rate \in Int
    PROVE  ApplyBp(-amount, rate) = -ApplyBp(amount, rate)
<1> DEFINE q == RoundedQuotient(Abs(amount) * Abs(rate), BpScale)
<1>1. Abs(-amount) = Abs(amount)
  BY DEF Abs
<1>2. q \in Int
  <2> DEFINE p == Abs(amount) * Abs(rate)
  <2>1. p \in Nat
    BY Magnitudes
  <2> HIDE DEF p
  <2>2. RoundedQuotient(p, BpScale) \in Nat
    BY <2>1, ScaleIsPositive, NearestWhole
  <2> QED BY <2>2 DEF p
<1>3. CASE amount = 0 \/ rate = 0
  BY <1>3 DEF ApplyBp
<1>4. CASE ~(amount = 0 \/ rate = 0)
  <2>1. SignOf(-amount, rate) = -SignOf(amount, rate) /\ SignOf(amount, rate) \in {-1, 1}
    BY <1>4 DEF SignOf
  <2>2. /\ ApplyBp(-amount, rate) = SignOf(-amount, rate) * q
        /\ ApplyBp(amount, rate) = SignOf(amount, rate) * q
    BY <1>1, <1>4 DEF ApplyBp
  <2> HIDE DEF q
  <2> QED BY <1>2, <2>1, <2>2
<1> QED BY <1>3, <1>4

\* A non-negative amount at a non-negative rate has no sign to take off.
LEMMA ApplyBpOfNats ==
    ASSUME NEW n \in Nat, NEW rate \in Nat
    PROVE  /\ ApplyBp(n, rate) = RoundedQuotient(n * rate, BpScale)
           /\ n * rate \in Nat /\ ApplyBp(n, rate) \in Nat
<1>1. n * rate \in Nat /\ RoundedQuotient(n * rate, BpScale) \in Nat
  <2> DEFINE p == n * rate
  <2>1. p \in Nat
    OBVIOUS
  <2> HIDE DEF p
  <2>2. RoundedQuotient(p, BpScale) \in Nat
    BY <2>1, ScaleIsPositive, NearestWhole
  <2> QED BY <2>1, <2>2 DEF p
<1>2. CASE n = 0 \/ rate = 0
  <2>1. n * rate = 0
    BY <1>2
  <2>2. RoundedQuotient(0, BpScale) = 0
    BY DEF RoundedQuotient, BpScale
  <2> QED BY <1>1, <1>2, <2>1, <2>2 DEF ApplyBp
<1>3. CASE ~(n = 0 \/ rate = 0)
  <2>1. Abs(n) = n /\ Abs(rate) = rate /\ SignOf(n, rate) = 1
    BY DEF Abs, SignOf
  <2> QED BY <1>1, <1>3, <2>1 DEF ApplyBp
<1> QED BY <1>1, <1>2, <1>3

\* A lower rate takes no more.
LEMMA ApplyBpGrowsWithTheRate ==
    ASSUME NEW n \in Nat, NEW low \in Nat, NEW high \in Nat, low <= high
    PROVE  ApplyBp(n, low) <= ApplyBp(n, high)
<1>1. n * low \in Nat /\ n * high \in Nat /\ n * low <= n * high
  <2>1. PICK k \in Nat : high = low + k
    <3>1. high - low \in Nat /\ high = low + (high - low)
      OBVIOUS
    <3> QED BY <3>1
  <2>2. n * high = n * low + n * k /\ n * k \in Nat /\ n * low \in Nat
    BY <2>1
  <2> QED BY <2>2
<1>2. RoundedQuotient(n * low, BpScale) <= RoundedQuotient(n * high, BpScale)
  <2> DEFINE p == n * low
             r == n * high
  <2>1. p \in Nat /\ r \in Nat /\ p <= r
    BY <1>1
  <2> HIDE DEF p, r
  <2>2. RoundedQuotient(p, BpScale) <= RoundedQuotient(r, BpScale)
    BY <2>1, ScaleIsPositive, NearestWholeIsMonotone
  <2> QED BY <2>2 DEF p, r
<1> QED BY <1>2, ApplyBpOfNats

\* A larger part of the same whole is no smaller a percentage.
LEMMA PercentOfGrows ==
    ASSUME NEW part \in Nat, NEW more \in Nat, part <= more, NEW whole \in Nat
    PROVE  /\ PercentOf(part, whole) \in Int /\ PercentOf(more, whole) \in Int
           /\ PercentOf(part, whole) <= PercentOf(more, whole)
<1>1. CASE whole = 0
  BY <1>1 DEF PercentOf
<1>2. CASE whole # 0
  <2> DEFINE p == part * BpScale
             r == more * BpScale
  <2>1. /\ PercentOf(part, whole) = 1 * RoundedQuotient(p, whole)
        /\ PercentOf(more, whole) = 1 * RoundedQuotient(r, whole)
    BY <1>2 DEF PercentOf, Abs, SignOf
  <2>2. p \in Nat /\ r \in Nat /\ p <= r /\ whole \in Nat \ {0}
    BY <1>2 DEF BpScale
  <2> HIDE DEF p, r
  <2>3. /\ RoundedQuotient(p, whole) <= RoundedQuotient(r, whole)
        /\ RoundedQuotient(p, whole) \in Nat /\ RoundedQuotient(r, whole) \in Nat
    BY <2>2, NearestWhole, NearestWholeIsMonotone
  <2> QED BY <2>1, <2>3
<1> QED BY <1>1, <1>2

\* Billing more on a line, at a rate of at most 100%, withholds no less and
\* still leaves no less earned: rounding never takes back a cent of the work.
THEOREM EarnedIsMonotone ==
    ASSUME NEW before \in Nat, NEW after \in Nat, before <= after,
           NEW rate \in 0..BpScale
    PROVE  /\ ApplyBp(before, rate) <= ApplyBp(after, rate)
           /\ before - ApplyBp(before, rate) <= after - ApplyBp(after, rate)
<1>0. rate \in Nat /\ rate <= BpScale /\ BpScale \in Nat
  BY DEF BpScale
<1>1. \A n \in Nat : ApplyBp(n, rate) = RoundedQuotient(n * rate, BpScale)
  BY <1>0, ApplyBpOfNats
<1>2. PICK k \in Nat : after = before + k
  <2>1. after - before \in Nat /\ after = before + (after - before)
    OBVIOUS
  <2> QED BY <2>1
<1>3. /\ before * rate \in Nat /\ after * rate \in Nat
      /\ after * rate = before * rate + k * rate
      /\ k * rate \in Nat /\ k * rate <= k * BpScale
  BY <1>0, <1>2
<1>4. before * rate <= after * rate /\ after * rate <= before * rate + k * BpScale
  BY <1>0, <1>3
<1>5. /\ RoundedQuotient(before * rate, BpScale) <= RoundedQuotient(after * rate, BpScale)
      /\ RoundedQuotient(after * rate, BpScale) <= RoundedQuotient(before * rate, BpScale) + k
  <2> DEFINE x == before * rate
             y == after * rate
  <2>1. x \in Nat /\ y \in Nat /\ x <= y /\ y <= x + k * BpScale
    BY <1>3, <1>4
  <2> HIDE DEF x, y
  <2>2. RoundedQuotient(x, BpScale) <= RoundedQuotient(y, BpScale)
        /\ RoundedQuotient(y, BpScale) <= RoundedQuotient(x, BpScale) + k
    BY <1>2, <2>1, ScaleIsPositive, NearestWholeIsMonotone
  <2> QED BY <2>2 DEF x, y
<1>6. /\ RoundedQuotient(before * rate, BpScale) \in Nat
      /\ RoundedQuotient(after * rate, BpScale) \in Nat
  BY <1>3, ScaleIsPositive, NearestWhole
<1> QED BY <1>1, <1>2, <1>5, <1>6
=============================================================================
