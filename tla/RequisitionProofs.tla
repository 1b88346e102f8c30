-------------------------- MODULE RequisitionProofs --------------------------
(***************************************************************************)
(* What an application says and what it is checked against.  Requisition,   *)
(* the pure core, for sheets of any length, any amounts and any rates: the  *)
(* rounding of rates, the retainage of a line, and the largest-remainder    *)
(* apportionment.  SubmissionGate, for any register, waivers, requirements  *)
(* and documents.  The two have no name in common, so one module can extend *)
(* both.                                                                    *)
(***************************************************************************)
EXTENDS MCRequisition, SubmissionGate, DataTheorems

-----------------------------------------------------------------------------
(* Apportionment                                                            *)

\* divmod, for a divisor of either sign.
LEMMA DividedBy ==
    ASSUME NEW a \in Int, NEW b \in Int, b # 0
    PROVE  /\ FloorDiv(a, b) \in Int
           /\ RemainderSize(a, b) \in 0..(Abs(b) - 1)
           /\ b > 0 => b * FloorDiv(a, b) + RemainderSize(a, b) = a
           /\ b < 0 => b * FloorDiv(a, b) - RemainderSize(a, b) = a
<1>1. \A x \in Int, y \in Int : y > 0 =>
          /\ x \div y \in Int /\ x % y \in 0..(y - 1)
          /\ y * (x \div y) + (x % y) = x
  OBVIOUS
<1>2. CASE b > 0
  BY <1>1, <1>2 DEF FloorDiv, RemainderSize, Abs
<1>3. CASE b < 0
  <2>1. -a \in Int /\ -b \in Int /\ -b > 0
    BY <1>3
  <2>2. /\ FloorDiv(a, b) = (-a) \div (-b) /\ RemainderSize(a, b) = (-a) % (-b)
        /\ Abs(b) = -b
    BY <1>3 DEF FloorDiv, RemainderSize, Abs
  <2>3. /\ (-a) \div (-b) \in Int /\ (-a) % (-b) \in 0..(-b - 1)
        /\ (-b) * ((-a) \div (-b)) + ((-a) % (-b)) = -a
    BY <1>1, <2>1
  <2> DEFINE q == FloorDiv(a, b)
             r == RemainderSize(a, b)
  <2>4. q \in Int /\ r \in 0..(-b - 1) /\ (-b) * q + r = -a
    BY <2>2, <2>3
  <2> HIDE DEF q, r
  <2>5. b * q - r = a
    BY <2>4
  <2> QED BY <1>3, <2>2, <2>4, <2>5 DEF q, r
<1> QED BY <1>2, <1>3

\* parts are the floors base and a cent for whoever has fewer in front of it than
\* there are cents left over; left are the remainders of the floors, by W.
Apportions(parts, base, left, ahead, D, W, t) ==
    /\ D \subseteq Int /\ base \in [D -> Int] /\ left \in [D -> 0..(W - 1)]
    /\ W * SumFunctionOnSet(base, D) + SumFunctionOnSet(left, D) = W * t
    /\ ahead = [i \in D |-> {j \in D : \/ left[j] > left[i]
                                       \/ left[j] = left[i] /\ j < i}]
    /\ \A i \in D : parts[i] = base[i] +
          (IF Cardinality(ahead[i]) < t - SumFunctionOnSet(base, D) THEN 1 ELSE 0)

\* The cents left over by the floors go one each to as many lines, and none to a
\* line whose floor is exact.
LEMMA Apportioned ==
    ASSUME NEW D, IsFiniteSet(D), NEW W \in Nat \ {0}, NEW t \in Int,
           NEW base, NEW left, NEW ahead, NEW parts,
           Apportions(parts, base, left, ahead, D, W, t)
    PROVE  /\ SumFunctionOnSet(parts, D) = t
           /\ \A i \in D : \/ parts[i] = base[i]
                           \/ parts[i] = base[i] + 1 /\ left[i] > 0
<1> DEFINE leftover == t - SumFunctionOnSet(base, D)
           P == {i \in D : left[i] > 0}
           first == {i \in D : Cardinality(ahead[i]) < leftover}
<1>1. /\ IntegersOn(base, D) /\ IntegersOn(left, D)
      /\ \A i \in D : /\ base[i] \in Int
                       /\ left[i] \in Int /\ left[i] >= 0 /\ left[i] <= W - 1
  BY DEF Apportions, IntegersOn
<1>2. SumFunctionOnSet(base, D) \in Int /\ SumFunctionOnSet(left, D) \in Int
  BY <1>1, SumSplits
<1>3. leftover \in Int /\ SumFunctionOnSet(left, D) = W * leftover
  BY <1>2 DEF Apportions
<1>4. /\ P \in SUBSET D /\ IsFiniteSet(P) /\ Cardinality(P) \in Nat
      /\ Cardinality(P) <= Cardinality(D) /\ Cardinality(D) \in Nat
      /\ \A i \in D : i \in P <=> left[i] > 0
  BY FS_Subset, FS_CardinalityType
<1>5. 0 <= leftover /\ leftover <= Cardinality(P)
  <2> DEFINE zero == [i \in D |-> 0]
             one == [i \in D |-> IF i \in P THEN 1 ELSE 0]
             most == [i \in D |-> (W - 1) * one[i]]
  <2> HIDE DEF P
  <2>1. SumFunctionOnSet(zero, D) = 0
    BY SumOfZeros
  <2>2. SumFunctionOnSet(one, D) = Cardinality(P)
    <3>1. \A i \in D : one[i] = IF i \in P THEN 1 ELSE 0
      OBVIOUS
    <3> HIDE DEF one
    <3> QED BY <1>4, <3>1, SumOfIndicator
  <2>3. SumFunctionOnSet(most, D) = (W - 1) * Cardinality(P)
    <3>1. IntegersOn(one, D) /\ \A i \in D : most[i] = (W - 1) * one[i]
      BY DEF IntegersOn
    <3>2. W - 1 \in Int
      OBVIOUS
    <3> DEFINE k == W - 1
    <3> HIDE DEF one, most
    <3>3. k \in Int /\ IntegersOn(one, D) /\ \A i \in D : most[i] = k * one[i]
      BY <3>1, <3>2
    <3> HIDE DEF k
    <3>4. SumFunctionOnSet(most, D) = k * SumFunctionOnSet(one, D)
      BY <3>3, SumScaled
    <3> QED BY <2>2, <3>4 DEF k
  <2>4. /\ IntegersOn(zero, D) /\ IntegersOn(most, D)
        /\ \A i \in D : zero[i] <= left[i] /\ left[i] <= most[i]
    <3>1. \A i \in D : most[i] = IF left[i] > 0 THEN W - 1 ELSE 0
      BY <1>1, <1>4
    <3> HIDE DEF most
    <3> QED BY <1>1, <3>1 DEF IntegersOn
  <2> HIDE DEF zero, one, most
  <2>5. 0 <= W * leftover /\ W * leftover <= (W - 1) * Cardinality(P)
    <3>1. SumFunctionOnSet(zero, D) <= SumFunctionOnSet(left, D)
      BY <1>1, <2>4, SumIsMonotone
    <3>2. SumFunctionOnSet(left, D) <= SumFunctionOnSet(most, D)
      BY <1>1, <2>4, SumIsMonotone
    <3> HIDE DEF leftover
    <3> QED BY <1>3, <2>1, <2>3, <3>1, <3>2
  <2> DEFINE l == leftover
             p == Cardinality(P)
  <2>6. l \in Int /\ p \in Nat /\ 0 <= W * l /\ W * l <= (W - 1) * p
    BY <1>3, <1>4, <2>5
  <2> HIDE DEF l, p
  <2>7. l >= 0
    <3>1. CASE l <= -1
      <4>1. W * l <= W * (-1)
        BY <2>6, <3>1
      <4> QED BY <2>6, <4>1
    <3> QED BY <2>6, <3>1
  <2>8. l <= p
    <3>1. CASE l >= p + 1
      <4>1. W * l >= W * (p + 1)
        BY <2>6, <3>1
      <4>2. W * (p + 1) = W * p + W /\ (W - 1) * p = W * p - p
        BY <2>6
      <4>3. W * p \in Int
        BY <2>6
      <4> QED BY <2>6, <4>1, <4>2, <4>3
    <3> QED BY <2>6, <3>1
  <2> QED BY <2>7, <2>8 DEF l, p
<1>6. OrdersTotally(ahead, D)
  <2>1. \A x \in D : left[x] \in Int /\ x \in Int
    BY <1>1 DEF Apportions
  <2>2. \A x \in D, y \in D :
            y \in ahead[x] <=> left[y] > left[x] \/ (left[y] = left[x] /\ y < x)
    BY DEF Apportions
  <2>3. ahead \in [D -> SUBSET D]
    BY DEF Apportions
  <2>4. \A x, y, z \in D : y \in ahead[x] /\ z \in ahead[y] => z \in ahead[x]
    BY <2>1, <2>2
  <2>5. \A x \in D : \A y \in ahead[x] : ahead[y] \subseteq ahead[x]
    BY <2>3, <2>4
  <2>6. ASSUME NEW x \in D, NEW y \in D, x # y PROVE x \in ahead[y] \/ y \in ahead[x]
    <3>1. left[x] > left[y] \/ left[y] > left[x] \/ left[x] = left[y]
      BY <2>1
    <3>2. x < y \/ y < x
      BY <2>1, <2>6
    <3> QED BY <2>2, <3>1, <3>2
  <2>7. \A x \in D : x \notin ahead[x]
    BY <2>1, <2>2
  <2> QED BY <2>3, <2>5, <2>6, <2>7 DEF OrdersTotally
<1>7. Cardinality(first) = leftover /\ IsFiniteSet(first)
  <2>1. leftover \in 0..Cardinality(D)
    BY <1>3, <1>4, <1>5
  <2> DEFINE n == leftover
  <2>2. n \in 0..Cardinality(D)
    BY <2>1
  <2> HIDE DEF n
  <2>3. Cardinality(FirstOf(ahead, D, n)) = n
    BY <1>6, <2>2, FirstOnes
  <2> QED BY <2>3, FS_Subset DEF n, FirstOf
<1>8. ASSUME NEW i \in first PROVE left[i] > 0
  <2> SUFFICES ASSUME ~(left[i] > 0) PROVE FALSE
    OBVIOUS
  <2>1. P \in SUBSET ahead[i] /\ ahead[i] \in SUBSET D
    BY <1>1 DEF Apportions
  <2>2. Cardinality(P) <= Cardinality(ahead[i]) /\ Cardinality(ahead[i]) \in Nat
    BY <2>1, FS_Subset, FS_CardinalityType
  <2>3. Cardinality(ahead[i]) < leftover
    OBVIOUS
  <2> HIDE DEF leftover, P
  <2> QED BY <1>3, <1>4, <1>5, <2>2, <2>3
<1> DEFINE one == [i \in D |-> IF i \in first THEN 1 ELSE 0]
<1>9. \A i \in D : parts[i] = base[i] + one[i]
  BY DEF Apportions
<1>10. SumFunctionOnSet(parts, D) = SumFunctionOnSet(base, D) + leftover
  <2>1. first \in SUBSET D
    OBVIOUS
  <2> HIDE DEF first
  <2>2. IntegersOn(one, D) /\ \A i \in D : one[i] = IF i \in first THEN 1 ELSE 0
    BY DEF IntegersOn
  <2> HIDE DEF one, leftover
  <2>3. SumFunctionOnSet(one, D) = Cardinality(first)
    BY <2>1, <2>2, SumOfIndicator
  <2>4. IntegersOn(base, D)
    BY <1>1
  <2>5. IntegersOn(one, D)
    BY <2>2
  <2>6. SumFunctionOnSet(parts, D) = SumFunctionOnSet(base, D) + SumFunctionOnSet(one, D)
    BY <1>9, <2>4, <2>5, SumOfSums
  <2> QED BY <1>7, <2>3, <2>6
<1>11. SumFunctionOnSet(parts, D) = t
  BY <1>2, <1>10
<1>12. \A i \in D : \/ parts[i] = base[i]
                    \/ parts[i] = base[i] + 1 /\ left[i] > 0
  <2> SUFFICES ASSUME NEW i \in D
               PROVE  \/ parts[i] = base[i]
                      \/ parts[i] = base[i] + 1 /\ left[i] > 0
    OBVIOUS
  <2>1. base[i] \in Int
    BY <1>1
  <2>2. CASE i \in first
    BY <1>8, <1>9, <2>2
  <2>3. CASE i \notin first
    BY <1>9, <2>1, <2>3
  <2> QED BY <2>2, <2>3
<1> QED BY <1>11, <1>12

\* A share of nothing, and how far a part is from its exact share.
LEMMA NearExactShare ==
    ASSUME NEW a \in Int, NEW b \in Int, b # 0, NEW part,
           \/ part = FloorDiv(a, b)
           \/ part = FloorDiv(a, b) + 1 /\ RemainderSize(a, b) > 0
    PROVE  /\ part \in Int
           /\ Abs(part * b - a) < Abs(b)
           /\ a = 0 => part = 0
<1> DEFINE q == FloorDiv(a, b)
           r == RemainderSize(a, b)
<1>1. /\ q \in Int /\ r \in Int /\ r >= 0
      /\ b > 0 => b * q + r = a /\ r < b
      /\ b < 0 => b * q - r = a /\ r < -b
  BY DividedBy DEF Abs
<1>2. part = q \/ (part = q + 1 /\ r > 0)
  OBVIOUS
<1> HIDE DEF q, r
<1>3. part \in Int
  BY <1>1, <1>2
<1>4. part = q + 1 => part * b = b * q + b
  BY <1>1
<1>5. part = q => part * b = b * q
  BY <1>1
<1>6. b * q \in Int
  BY <1>1
<1>7. Abs(part * b - a) < Abs(b)
  <2> DEFINE bq == b * q
             pb == part * b
  <2>1. /\ bq \in Int /\ r \in Int /\ r >= 0
        /\ b > 0 => bq + r = a /\ r < b
        /\ b < 0 => bq - r = a /\ r < -b
        /\ pb = bq \/ (pb = bq + b /\ r > 0)
    BY <1>1, <1>2, <1>4, <1>5, <1>6
  <2> HIDE DEF bq, pb
  <2> SUFFICES Abs(pb - a) < Abs(b)
    BY DEF pb
  <2> QED BY <2>1 DEF Abs
<1>8. a = 0 => part = 0
  <2> SUFFICES ASSUME a = 0 PROVE part = 0
    OBVIOUS
  <2>1. q = 0
    <3>1. q >= 1 => (b > 0 => b * q >= b) /\ (b < 0 => b * q <= b)
      BY <1>1
    <3>2. q <= -1 => (b > 0 => b * q <= -b) /\ (b < 0 => b * q >= -b)
      BY <1>1
    <3> QED BY <1>1, <1>6, <3>1, <3>2
  <2>2. r = 0
    BY <1>1, <2>1
  <2> QED BY <1>2, <2>1, <2>2
<1> QED BY <1>3, <1>7, <1>8

IsWeights(w) ==
    /\ w = [i \in DOMAIN w |-> w[i]]
    /\ IsFiniteSet(DOMAIN w) /\ DOMAIN w \subseteq Int
    /\ IntegersOn(w, DOMAIN w)

\* What it means that the parts are fair shares of t by the weights w.
FairShares(parts, t, w) ==
    /\ DOMAIN parts = DOMAIN w
    /\ SumOver(parts) = t
    /\ \A i \in DOMAIN w :
          /\ parts[i] \in Int
          /\ w[i] = 0 => parts[i] = 0
          /\ Abs(parts[i] * SumOver(w) - t * w[i]) < Abs(SumOver(w))

\* The largest remainders get the cents the floors leave over.
LEMMA SignedIsFair ==
    ASSUME NEW t \in Int, NEW w, IsWeights(w), SumOver(w) # 0
    PROVE  FairShares(AllocateSigned(t, w), t, w)
<1> DEFINE D == DOMAIN w
           whole == SumOver(w)
           W == Abs(whole)
           base == [i \in D |-> FloorDiv(t * w[i], whole)]
           left == [i \in D |-> RemainderSize(t * w[i], whole)]
           ahead == [i \in D |-> {j \in D : \/ left[j] > left[i]
                                            \/ left[j] = left[i] /\ j < i}]
           parts == AllocateSigned(t, w)
<1>0. D \subseteq Int
  BY DEF IsWeights
<1>1. /\ IsFiniteSet(D) /\ IntegersOn(w, D)
      /\ whole = SumFunctionOnSet(w, D) /\ whole # 0
  BY SumOverIs DEF IsWeights
<1>2. whole \in Int /\ W \in Nat \ {0}
  <2>1. whole \in Int
    BY <1>1, SumSplits
  <2> HIDE DEF whole
  <2> QED BY <1>1, <2>1 DEF Abs
<1>3. ASSUME NEW i \in D
      PROVE  /\ w[i] \in Int /\ t * w[i] \in Int
             /\ base[i] \in Int /\ left[i] \in 0..(W - 1)
             /\ whole > 0 => whole * base[i] + left[i] = t * w[i]
             /\ whole < 0 => whole * base[i] - left[i] = t * w[i]
  <2>1. w[i] \in Int
    BY <1>1 DEF IntegersOn
  <2>2. t * w[i] \in Int
    BY <2>1
  <2> DEFINE a == t * w[i]
  <2>3. base[i] = FloorDiv(a, whole) /\ left[i] = RemainderSize(a, whole)
    OBVIOUS
  <2>4. a \in Int
    BY <2>2
  <2> HIDE DEF a, whole, base, left
  <2>5. /\ FloorDiv(a, whole) \in Int
        /\ RemainderSize(a, whole) \in 0..(Abs(whole) - 1)
        /\ whole > 0 => whole * FloorDiv(a, whole) + RemainderSize(a, whole) = a
        /\ whole < 0 => whole * FloorDiv(a, whole) - RemainderSize(a, whole) = a
    BY <1>1, <1>2, <2>4, DividedBy
  <2> QED BY <2>1, <2>3, <2>4, <2>5 DEF a
<1>4. /\ base \in [D -> Int] /\ left \in [D -> 0..(W - 1)]
      /\ IntegersOn(base, D) /\ IntegersOn(left, D)
  <2>1. \A i \in D : base[i] \in Int /\ left[i] \in 0..(W - 1)
    BY <1>3
  <2>2. base = [i \in D |-> base[i]] /\ left = [i \in D |-> left[i]]
    OBVIOUS
  <2> HIDE DEF base, left
  <2>3. base \in [D -> Int] /\ left \in [D -> 0..(W - 1)]
    BY <2>1, <2>2
  <2>4. \A i \in D : left[i] \in Int
    BY <1>2, <2>1
  <2> QED BY <2>1, <2>3, <2>4 DEF IntegersOn
<1>5. W * SumFunctionOnSet(base, D) + SumFunctionOnSet(left, D) = W * t
  <2> DEFINE sign == IF whole > 0 THEN 1 ELSE -1
             k == sign * t
             scaled == [i \in D |-> W * base[i]]
             share == [i \in D |-> k * w[i]]
  <2>1. k \in Int /\ k * whole = W * t
    <3>1. CASE whole > 0
      <4>1. k = t /\ W = whole
        BY <1>2, <3>1 DEF Abs
      <4> HIDE DEF k, W, whole
      <4> QED BY <1>2, <4>1
    <3>2. CASE whole < 0
      <4>1. k = -t /\ W = -whole
        BY <1>2, <3>2 DEF Abs
      <4> HIDE DEF k, W, whole
      <4> QED BY <1>2, <4>1
    <3> HIDE DEF k, W, whole
    <3> QED BY <1>1, <1>2, <3>1, <3>2
  <2>2. \A i \in D : share[i] = scaled[i] + left[i]
    <3> SUFFICES ASSUME NEW i \in D PROVE share[i] = scaled[i] + left[i]
      OBVIOUS
    <3>1. share[i] = k * w[i] /\ scaled[i] = W * base[i]
      OBVIOUS
    <3>2. /\ w[i] \in Int /\ t * w[i] \in Int
          /\ base[i] \in Int /\ left[i] \in Int
          /\ whole > 0 => whole * base[i] + left[i] = t * w[i]
          /\ whole < 0 => whole * base[i] - left[i] = t * w[i]
      BY <1>2, <1>3
    <3>3. CASE whole > 0
      <4>1. k = t /\ W = whole
        BY <1>2, <3>3 DEF Abs
      <4> HIDE DEF k, W, whole, base, left, scaled, share
      <4> QED BY <3>1, <3>2, <3>3, <4>1
    <3>4. CASE whole < 0
      <4>1. k = -t /\ W = -whole
        BY <1>2, <3>4 DEF Abs
      <4> HIDE DEF k, W, whole, base, left, scaled, share
      <4>2. k * w[i] = -(t * w[i]) /\ W * base[i] = -(whole * base[i])
        <5>1. \A x, y \in Int : (-x) * y = -(x * y)
          OBVIOUS
        <5> QED BY <1>2, <3>2, <4>1, <5>1
      <4>3. whole * base[i] \in Int
        BY <1>2, <3>2
      <4> QED BY <3>1, <3>2, <3>4, <4>2, <4>3
    <3> HIDE DEF whole
    <3> QED BY <1>1, <1>2, <3>3, <3>4
  <2>3. /\ \A i \in D : scaled[i] = W * base[i]
        /\ \A i \in D : share[i] = k * w[i]
    OBVIOUS
  <2>4. IntegersOn(scaled, D)
    <3>1. \A i \in D : base[i] \in Int
      BY <1>3
    <3> HIDE DEF W, base, scaled
    <3> QED BY <1>2, <2>3, <3>1 DEF IntegersOn
  <2> HIDE DEF whole, W, k, base, left, scaled, share, D
  <2>5. SumFunctionOnSet(share, D) = k * whole
    BY <1>1, <2>1, <2>3, SumScaled
  <2>6. SumFunctionOnSet(scaled, D) = W * SumFunctionOnSet(base, D)
    BY <1>1, <1>2, <1>4, <2>3, SumScaled
  <2>7. SumFunctionOnSet(share, D) = SumFunctionOnSet(scaled, D) + SumFunctionOnSet(left, D)
    BY <1>1, <1>4, <2>2, <2>4, SumOfSums
  <2> QED BY <2>1, <2>5, <2>6, <2>7
<1>6. /\ DOMAIN parts = D
      /\ \A i \in D : parts[i] = base[i] +
            (IF Cardinality(ahead[i]) < t - SumFunctionOnSet(base, D) THEN 1 ELSE 0)
  <2>1. SumOver(base) = SumFunctionOnSet(base, D)
    <3>1. DOMAIN base = D
      OBVIOUS
    <3> HIDE DEF base
    <3> QED BY <3>1, SumOverIs
  <2>2. parts = [i \in D |-> base[i] +
            (IF Cardinality(ahead[i]) < t - SumOver(base) THEN 1 ELSE 0)]
    BY DEF AllocateSigned
  <2> HIDE DEF base, ahead, parts
  <2> QED BY <2>1, <2>2
<1>7. Apportions(parts, base, left, ahead, D, W, t)
  <2>1. ahead = [i \in D |-> {j \in D : \/ left[j] > left[i]
                                        \/ left[j] = left[i] /\ j < i}]
    OBVIOUS
  <2> HIDE DEF D, W, base, left, ahead, parts
  <2> QED BY <1>0, <1>4, <1>5, <1>6, <2>1 DEF Apportions
<1>8. /\ SumFunctionOnSet(parts, D) = t
      /\ \A i \in D : \/ parts[i] = base[i]
                      \/ parts[i] = base[i] + 1 /\ left[i] > 0
  <2>1. IsFiniteSet(D)
    BY <1>1
  <2>2. W \in Nat \ {0}
    BY <1>2
  <2> HIDE DEF D, W, base, left, ahead, parts, whole
  <2> QED BY <1>7, <2>1, <2>2, Apportioned
<1>9. ASSUME NEW i \in D
      PROVE  /\ parts[i] \in Int
             /\ w[i] = 0 => parts[i] = 0
             /\ Abs(parts[i] * whole - t * w[i]) < Abs(whole)
  <2> DEFINE a == t * w[i]
             part == parts[i]
  <2>1. a \in Int /\ (w[i] = 0 => a = 0)
    BY <1>3
  <2>2. \/ part = FloorDiv(a, whole)
        \/ part = FloorDiv(a, whole) + 1 /\ RemainderSize(a, whole) > 0
    <3>1. base[i] = FloorDiv(a, whole) /\ left[i] = RemainderSize(a, whole)
      OBVIOUS
    <3>2. \/ part = base[i]
          \/ part = base[i] + 1 /\ left[i] > 0
      BY <1>8
    <3> HIDE DEF whole, a, part, base, left
    <3> QED BY <3>1, <3>2
  <2> HIDE DEF whole, a, part
  <2>3. part \in Int /\ Abs(part * whole - a) < Abs(whole) /\ (a = 0 => part = 0)
    BY <1>1, <1>2, <2>1, <2>2, NearExactShare
  <2> QED BY <2>1, <2>3 DEF a, part
<1>10. SumOver(parts) = SumFunctionOnSet(parts, D)
  <2> HIDE DEF parts
  <2> QED BY <1>6, SumOverIs
<1>11. FairShares(parts, t, w)
  <2> HIDE DEF parts
  <2> QED BY <1>6, <1>8, <1>9, <1>10 DEF FairShares
<1> QED BY <1>11

\* Turning the parts round turns their sum round.
LEMMA NegatedIsFair ==
    ASSUME NEW t \in Int, NEW w, IsWeights(w), NEW parts, NEW negated,
           FairShares(parts, t, w),
           negated = [i \in DOMAIN parts |-> -parts[i]]
    PROVE  FairShares(negated, -t, w)
<1> DEFINE D == DOMAIN w
           whole == SumOver(w)
<1>1. IsFiniteSet(D) /\ DOMAIN parts = D /\ DOMAIN negated = D
  BY DEF FairShares, IsWeights
<1>2. whole \in Int
  BY SumOverIs, SumSplits DEF IsWeights
<1>3. SumOver(negated) = -t
  <2>1. IntegersOn(parts, D)
    BY DEF FairShares, IntegersOn
  <2>2. \A i \in D : negated[i] = (-1) * parts[i]
    BY <1>1, <2>1 DEF IntegersOn
  <2>3. SumFunctionOnSet(negated, D) = (-1) * SumFunctionOnSet(parts, D)
    <3>1. -1 \in Int
      OBVIOUS
    <3> DEFINE k == -1
    <3>2. k \in Int /\ \A i \in D : negated[i] = k * parts[i]
      BY <2>2
    <3> HIDE DEF k, D
    <3>3. SumFunctionOnSet(negated, D) = k * SumFunctionOnSet(parts, D)
      BY <1>1, <2>1, <3>2, SumScaled
    <3> QED BY <3>3 DEF k
  <2>4. SumFunctionOnSet(parts, D) = t
    BY <1>1, SumOverIs DEF FairShares
  <2> QED BY <1>1, <2>3, <2>4, SumOverIs
<1>4. ASSUME NEW i \in D
      PROVE  /\ negated[i] \in Int
             /\ w[i] = 0 => negated[i] = 0
             /\ Abs(negated[i] * whole - (-t) * w[i]) < Abs(whole)
  <2>1. /\ parts[i] \in Int
        /\ w[i] = 0 => parts[i] = 0
        /\ Abs(parts[i] * whole - t * w[i]) < Abs(whole)
    BY DEF FairShares
  <2>2. negated[i] = -parts[i] /\ w[i] \in Int
    BY <1>1 DEF IsWeights, IntegersOn
  <2> DEFINE x == parts[i] * whole
             y == t * w[i]
  <2>3. x \in Int /\ y \in Int
    BY <1>2, <2>1, <2>2
  <2>4. negated[i] * whole = -x /\ (-t) * w[i] = -y
    <3>1. \A a, b \in Int : (-a) * b = -(a * b)
      OBVIOUS
    <3> QED BY <1>2, <2>1, <2>2, <3>1
  <2>5. Abs(x - y) < Abs(whole)
    BY <2>1
  <2> HIDE DEF x, y, whole
  <2>6. Abs(-x - (-y)) = Abs(x - y)
    BY <2>3 DEF Abs
  <2> QED BY <2>1, <2>2, <2>4, <2>5, <2>6
<1> QED BY <1>1, <1>3, <1>4 DEF FairShares

\* allocate gives fair shares of any total by weights that have a sum.
THEOREM AllocateIsFair ==
    ASSUME NEW t \in Int, NEW w, IsWeights(w), SumOver(w) # 0
    PROVE  FairShares(Allocate(t, w), t, w)
<1>1. CASE t < 0
  <2>1. -t \in Int /\ -(-t) = t
    OBVIOUS
  <2> DEFINE parts == AllocateSigned(-t, w)
             negated == [i \in DOMAIN parts |-> -parts[i]]
             u == -t
  <2>2. FairShares(parts, u, w)
    BY <2>1, SignedIsFair
  <2>3. Allocate(t, w) = negated
    BY <1>1 DEF Allocate
  <2>4. u \in Int /\ -u = t
    BY <2>1
  <2> HIDE DEF parts, u
  <2>5. FairShares(negated, -u, w)
    BY <2>2, <2>4, NegatedIsFair
  <2> QED BY <2>3, <2>4, <2>5
<1>2. CASE ~(t < 0)
  <2>1. Allocate(t, w) = AllocateSigned(t, w)
    BY <1>2 DEF Allocate
  <2> QED BY <2>1, SignedIsFair
<1> QED BY <1>1, <1>2

\* Spreading a credit is spreading the charge, turned round.
THEOREM AllocateIsOdd ==
    ASSUME NEW t \in Int, NEW w, IsWeights(w), NEW i \in DOMAIN w
    PROVE  Allocate(-t, w)[i] = -Allocate(t, w)[i]
<1>1. CASE SumOver(w) = 0
  <2>1. Allocate(-t, w)[i] = 0 /\ Allocate(t, w)[i] = 0
    BY <1>1 DEF Allocate
  <2> QED BY <2>1
<1>2. CASE SumOver(w) # 0 /\ t = 0
  <2>1. FairShares(Allocate(t, w), t, w)
    BY <1>2, AllocateIsFair
  <2> DEFINE part == Allocate(t, w)[i]
             whole == SumOver(w)
  <2>2. part \in Int /\ Abs(part * whole - t * w[i]) < Abs(whole)
    BY <2>1 DEF FairShares
  <2>3. whole \in Int /\ w[i] \in Int
    BY SumOverIs, SumSplits DEF IsWeights, IntegersOn
  <2>4. t * w[i] = 0 /\ -t = t
    <3>1. \A x, y \in Int : y + x = 0 => -y = x
      OBVIOUS
    <3>2. \A x, y \in Int : x = 0 => x * y = 0
      OBVIOUS
    <3>3. t + t = 0
      BY <1>2
    <3> QED BY <1>2, <2>3, <3>1, <3>2, <3>3
  <2> HIDE DEF part, whole
  <2>5. part * whole \in Int
    BY <2>2, <2>3
  <2>6. Abs(part * whole) < Abs(whole)
    BY <2>2, <2>4, <2>5
  <2>7. part = 0
    <3>1. part >= 1 => (whole > 0 => part * whole >= whole) /\ (whole < 0 => part * whole <= whole)
      BY <2>2, <2>3
    <3>2. part <= -1 => (whole > 0 => part * whole <= -whole) /\ (whole < 0 => part * whole >= -whole)
      BY <2>2, <2>3
    <3>3. whole # 0
      BY <1>2 DEF whole
    <3> QED BY <2>2, <2>3, <2>5, <2>6, <3>1, <3>2, <3>3 DEF Abs
  <2> QED BY <2>4, <2>7 DEF part
<1>3. CASE SumOver(w) # 0 /\ t > 0
  <2>1. /\ -t < 0 /\ -(-t) = t /\ ~(t < 0)
    BY <1>3
  <2>2. /\ Allocate(t, w) = AllocateSigned(t, w)
        /\ Allocate(-t, w) = [k \in DOMAIN AllocateSigned(t, w) |-> -AllocateSigned(t, w)[k]]
    BY <1>3, <2>1 DEF Allocate
  <2>3. DOMAIN AllocateSigned(t, w) = DOMAIN w
    BY <1>3, SignedIsFair DEF FairShares
  <2> QED BY <2>2, <2>3
<1>4. CASE SumOver(w) # 0 /\ t < 0
  <2>1. -t \in Int /\ ~(-t < 0)
    BY <1>4
  <2> DEFINE parts == AllocateSigned(-t, w)
  <2>2. /\ Allocate(-t, w) = parts
        /\ Allocate(t, w) = [k \in DOMAIN parts |-> -parts[k]]
    BY <1>4, <2>1 DEF Allocate
  <2>3. DOMAIN parts = DOMAIN w /\ parts[i] \in Int
    <3> DEFINE u == -t
    <3>1. u \in Int
      BY <2>1
    <3> HIDE DEF u
    <3>2. FairShares(AllocateSigned(u, w), u, w)
      BY <1>4, <3>1, SignedIsFair
    <3> QED BY <3>2 DEF FairShares, u
  <2> HIDE DEF parts
  <2> QED BY <2>2, <2>3
<1> QED BY <1>1, <1>2, <1>3, <1>4

-----------------------------------------------------------------------------
(* Every argument the pure core is called with                              *)

SheetLines == Entries \cup {Blank}

ArgumentsTyped ==
    /\ sheet \in [Lines -> SheetLines]
    /\ spec \in Specs
    /\ total \in Totals \cup {0}

\* A sheet holds the entries it was given, on the lines it has.
THEOREM ArgumentsStayTyped == CoreSpec => []ArgumentsTyped
<1>1. CoreInit => ArgumentsTyped
  <2>1. Blank \in SheetLines
    BY DEF SheetLines
  <2> HIDE DEF SheetLines
  <2> QED BY <2>1 DEF CoreInit, ArgumentsTyped
<1>2. ArgumentsTyped /\ [CoreNext]_coreVars => ArgumentsTyped'
  <2> SUFFICES ASSUME ArgumentsTyped, [CoreNext]_coreVars PROVE ArgumentsTyped'
    OBVIOUS
  <2>1. ASSUME NEW i \in Lines, NEW entry \in Entries, EditLine(i, entry)
        PROVE  ArgumentsTyped'
    <3>1. entry \in SheetLines
      BY DEF SheetLines
    <3>2. SheetLines' = SheetLines
      BY DEF SheetLines, Blank, NoRate
    <3> HIDE DEF SheetLines
    <3> QED BY <2>1, <3>1, <3>2 DEF EditLine, ArgumentsTyped
  <2>2. ASSUME NEW amount \in Totals, EditTotal(amount)
        PROVE  ArgumentsTyped'
    BY <2>2 DEF EditTotal, ArgumentsTyped, SheetLines
  <2>3. CASE UNCHANGED coreVars
    BY <2>3 DEF coreVars, ArgumentsTyped, SheetLines
  <2> QED BY <2>1, <2>2, <2>3 DEF CoreNext
<1> QED BY <1>1, <1>2, PTL DEF CoreSpec

\* What a column of the sheet holds.
LEMMA EntriesAreNumbers ==
    ASSUME NEW s \in [Lines -> SheetLines], NEW i \in Lines
    PROVE  /\ s[i].c \in Int /\ s[i].d \in Int /\ s[i].e \in Int
           /\ s[i].f \in Int /\ s[i].rate \in Int
           /\ s[i] \in [c : Int, d : Int, e : Int, f : Int, rate : Int]
<1>1. Blank \in [c : Int, d : Int, e : Int, f : Int, rate : Int]
  BY DEF Blank, NoRate
<1>2. s[i] \in [c : Int, d : Int, e : Int, f : Int, rate : Int]
  BY <1>1, ArgumentsAreNumbers DEF SheetLines
<1> QED BY <1>2

\* The scheduled values are weights.
LEMMA ScheduledValuesAreWeights ==
    ASSUME ArgumentsTyped
    PROVE  IsWeights(Weights) /\ DOMAIN Weights = Lines
<1>1. \A i \in Lines : sheet[i].c \in Int
  BY EntriesAreNumbers DEF ArgumentsTyped
<1>2. DOMAIN Weights = Lines /\ \A i \in Lines : Weights[i] = sheet[i].c
  BY DEF Weights
<1>3. Weights = [i \in DOMAIN Weights |-> Weights[i]]
  BY DEF Weights
<1>4. IntegersOn(Weights, Lines)
  BY <1>1, <1>2 DEF IntegersOn
<1> QED BY <1>2, <1>3, <1>4, ArgumentsAreNumbers DEF IsWeights

-----------------------------------------------------------------------------
(* The properties of the pure core                                          *)

\* apply_bp is the nearest cent, ties away from zero, and odd.
THEOREM RatesRound == CoreSpec => []RatesRoundHalfAway
<1>1. ArgumentsTyped => RatesRoundHalfAway
  <2> SUFFICES ASSUME ArgumentsTyped, NEW rate \in Rates
               PROVE  LET exact == total * rate
                          error == ApplyBp(total, rate) * BpScale - exact
                      IN  /\ 2 * Abs(error) <= BpScale
                          /\ 2 * Abs(error) = BpScale => error * exact > 0
                          /\ ApplyBp(-total, rate) = -ApplyBp(total, rate)
    BY DEF RatesRoundHalfAway
  <2>1. total \in Int /\ rate \in Int
    BY ArgumentsAreNumbers DEF ArgumentsTyped
  <2> DEFINE exact == total * rate
             rounded == ApplyBp(total, rate)
             error == rounded * BpScale - exact
  <2>2. /\ rounded \in Int /\ 2 * Abs(error) <= BpScale
        /\ 2 * Abs(error) = BpScale => (error > 0 <=> exact > 0)
    BY <2>1, ApplyBpRoundsHalfAway
  <2>3. ApplyBp(-total, rate) = -ApplyBp(total, rate)
    BY <2>1, ApplyBpIsOdd
  <2>4. exact = 0 => rounded = 0
    BY <2>1 DEF ApplyBp
  <2>5. exact \in Int
    BY <2>1
  <2> HIDE DEF exact, rounded
  <2>6. error \in Int /\ (exact = 0 => error = 0)
    BY <2>2, <2>4, <2>5 DEF BpScale
  <2> HIDE DEF error
  <2>7. ASSUME 2 * Abs(error) = BpScale PROVE error * exact > 0
    <3>1. error # 0 /\ exact # 0
      BY <2>6, <2>7 DEF Abs, BpScale
    <3>2. \/ error > 0 /\ exact > 0
          \/ error < 0 /\ exact < 0
      BY <2>2, <2>5, <2>6, <2>7, <3>1
    <3>3. \A x, y \in Int : x > 0 /\ y > 0 => x * y > 0
      OBVIOUS
    <3>4. \A x, y \in Int : x < 0 /\ y < 0 => x * y > 0
      OBVIOUS
    <3> QED BY <2>5, <2>6, <3>2, <3>3, <3>4
  <2> QED BY <2>2, <2>3, <2>7 DEF exact, rounded, error
<1> QED BY <1>1, ArgumentsStayTyped, PTL

\* allocate gives out every cent, each part within a cent of its exact share.
THEOREM EveryCentIsPlaced == CoreSpec => []AllocationIsExactAndFair
<1>1. ArgumentsTyped => AllocationIsExactAndFair
  <2> SUFFICES ASSUME ArgumentsTyped, CanAllocate(total, Weights)
               PROVE  LET parts == Allocate(total, Weights)
                          whole == SumOver(Weights)
                      IN  /\ SumOver(parts) = total
                          /\ \A i \in Lines :
                                /\ Weights[i] = 0 => parts[i] = 0
                                /\ whole # 0 =>
                                      Abs(parts[i] * whole - total * Weights[i]) < Abs(whole)
    BY DEF AllocationIsExactAndFair
  <2>1. total \in Int /\ IsWeights(Weights) /\ DOMAIN Weights = Lines
    BY ScheduledValuesAreWeights, ArgumentsAreNumbers DEF ArgumentsTyped
  <2> DEFINE w == Weights
             parts == Allocate(total, w)
  <2>2. CASE SumOver(w) = 0
    <3>1. total = 0
      BY <2>2 DEF CanAllocate
    <3>2. parts = [i \in Lines |-> 0]
      BY <2>1, <2>2 DEF Allocate
    <3> HIDE DEF w, parts
    <3>3. SumOver(parts) = SumFunctionOnSet(parts, Lines)
      BY <3>2, SumOverIs
    <3>4. SumFunctionOnSet(parts, Lines) = 0
      BY <3>2, SumOfZeros, ArgumentsAreNumbers
    <3> QED BY <2>2, <3>1, <3>2, <3>3, <3>4 DEF parts, w
  <2>3. CASE SumOver(w) # 0
    <3>1. FairShares(parts, total, w)
      BY <2>1, <2>3, AllocateIsFair
    <3> HIDE DEF w, parts
    <3> SUFFICES /\ SumOver(parts) = total
                 /\ \A i \in Lines :
                       /\ w[i] = 0 => parts[i] = 0
                       /\ Abs(parts[i] * SumOver(w) - total * w[i]) < Abs(SumOver(w))
      BY DEF w, parts
    <3>2. DOMAIN w = Lines
      BY <2>1 DEF w
    <3> QED BY <3>1, <3>2 DEF FairShares
  <2> QED BY <2>2, <2>3
<1> QED BY <1>1, ArgumentsStayTyped, PTL

\* The credit that reverses a change order takes back what each line was given.
THEOREM CreditsReverse == CoreSpec => []AllocationReverses
<1>1. ArgumentsTyped => AllocationReverses
  <2>1. ASSUME ArgumentsTyped
        PROVE  total \in Int /\ IsWeights(Weights) /\ DOMAIN Weights = Lines
    BY <2>1, ScheduledValuesAreWeights, ArgumentsAreNumbers DEF ArgumentsTyped
  <2> QED BY <2>1, AllocateIsOdd DEF AllocationReverses
<1> QED BY <1>1, ArgumentsStayTyped, PTL

-----------------------------------------------------------------------------
(* Retainage                                                                *)

\* The rates of a sheet, by whether the stepped reduction is on.
RatesWhen(reduced) ==
    IF reduced
    THEN [work |-> spec.reduced, stored |-> spec.reduced]
    ELSE [work |-> spec.work,
          stored |-> IF spec.mode = "flat" THEN spec.work ELSE spec.stored]

OwnRates(s, i) == LineRates(spec, s[i], RatesWhen(Reduced(s)))

\* All that a line's retainage is computed from: its entry, and the reduction.
LEMMA LineWithholds ==
    ASSUME NEW s, DOMAIN s = Lines, NEW i \in Lines
    PROVE  /\ Withhold(spec, s)[i] =
                  [work |-> ApplyBp(WorkToDate(s[i]), OwnRates(s, i).work),
                   stored |-> ApplyBp(s[i].f, OwnRates(s, i).stored)]
           /\ Requested(s).i[i] = ApplyBp(WorkToDate(s[i]), OwnRates(s, i).work)
                                   + ApplyBp(s[i].f, OwnRates(s, i).stored)
<1> DEFINE completed == SumOver([k \in Lines |-> CompletedStored(s[k])])
           scheduled == SumOver([k \in Lines |-> s[k].c])
<1>1. EffectiveRates(spec, completed, scheduled) = RatesWhen(Reduced(s))
  BY DEF EffectiveRates, RatesWhen, Reduced
<1>2. Withhold(spec, s)[i] =
          LET own == LineRates(spec, s[i], EffectiveRates(spec, completed, scheduled))
          IN  [work |-> ApplyBp(WorkToDate(s[i]), own.work),
               stored |-> ApplyBp(s[i].f, own.stored)]
  BY DEF Withhold
<1>3. Requested(s).i[i] = Withhold(spec, s)[i].work + Withhold(spec, s)[i].stored
  BY DEF Requested, Compute
<1> HIDE DEF completed, scheduled
<1> QED BY <1>1, <1>2, <1>3 DEF OwnRates

\* Editing a line moves no other line's retainage, the reduction staying as it was.
THEOREM RetainageIsPerLine == CoreSpec => []RetainageStaysOnItsLine
<1>1. ArgumentsTyped => RetainageStaysOnItsLine
  <2> SUFFICES ASSUME ArgumentsTyped, NEW i \in Lines, NEW j \in Lines, i # j,
                      NEW entry \in Entries,
                      Reduced([sheet EXCEPT ![j] = entry]) = Reduced(sheet)
               PROVE  Requested([sheet EXCEPT ![j] = entry]).i[i] = Requested(sheet).i[i]
    BY DEF RetainageStaysOnItsLine
  <2> DEFINE edited == [sheet EXCEPT ![j] = entry]
  <2>1. DOMAIN sheet = Lines /\ DOMAIN edited = Lines /\ edited[i] = sheet[i]
    BY DEF ArgumentsTyped
  <2>2. Reduced(edited) = Reduced(sheet)
    OBVIOUS
  <2> HIDE DEF edited
  <2>3. OwnRates(edited, i) = OwnRates(sheet, i)
    BY <2>1, <2>2 DEF OwnRates
  <2>4. /\ Requested(edited).i[i] = ApplyBp(WorkToDate(edited[i]), OwnRates(edited, i).work)
                                   + ApplyBp(edited[i].f, OwnRates(edited, i).stored)
        /\ Requested(sheet).i[i] = ApplyBp(WorkToDate(sheet[i]), OwnRates(sheet, i).work)
                                   + ApplyBp(sheet[i].f, OwnRates(sheet, i).stored)
    BY <2>1, LineWithholds
  <2>5. Requested(edited).i[i] = Requested(sheet).i[i]
    BY <2>1, <2>3, <2>4
  <2> QED BY <2>5 DEF edited
<1> QED BY <1>1, ArgumentsStayTyped, PTL

-----------------------------------------------------------------------------
(* Billing more never earns less                                            *)

\* Rates are percentages up to 100 %, and the rate of a stepped contract "drops"
\* (the docstring of core/retainage.py).  Neither is enforced by the code.
RatesAreShares ==
    /\ \A s \in Specs :
          /\ s.work \in 0..BpScale /\ s.stored \in 0..BpScale /\ s.reduced \in 0..BpScale
          /\ s.mode = "stepped" => s.reduced <= s.work /\ s.reduced <= s.stored
    /\ \A entry \in Entries : entry.rate = NoRate \/ entry.rate \in 0..BpScale

\* Sheet m has at least the work and at least the material of sheet s on every line.
Grows(s, m) ==
    /\ DOMAIN s = Lines /\ DOMAIN m = Lines
    /\ \A i \in Lines :
          /\ s[i].c \in Nat /\ m[i].c = s[i].c
          /\ WorkToDate(s[i]) \in Nat /\ WorkToDate(m[i]) \in Nat
          /\ WorkToDate(s[i]) <= WorkToDate(m[i])
          /\ s[i].f \in Nat /\ m[i].f \in Nat /\ s[i].f <= m[i].f
          /\ m[i].rate = s[i].rate
          /\ s[i].rate = NoRate \/ s[i].rate \in 0..BpScale

\* More work puts no sheet back under the threshold of the reduction.
LEMMA ReductionStaysOn ==
    ASSUME NEW s, NEW m, Grows(s, m), spec \in Specs, Reduced(s)
    PROVE  Reduced(m)
<1> DEFINE gs == [i \in Lines |-> CompletedStored(s[i])]
           gm == [i \in Lines |-> CompletedStored(m[i])]
           cs == [i \in Lines |-> s[i].c]
           cm == [i \in Lines |-> m[i].c]
           zero == [i \in Lines |-> 0]
<1>0. IsFiniteSet(Lines) /\ spec.threshold \in Int
  BY ArgumentsAreNumbers
<1>1. /\ DOMAIN gs = Lines /\ DOMAIN gm = Lines /\ DOMAIN cs = Lines
      /\ cm = cs /\ IntegersOn(gs, Lines) /\ IntegersOn(gm, Lines) /\ IntegersOn(cs, Lines)
      /\ \A i \in Lines : gs[i] <= gm[i] /\ 0 <= gs[i] /\ 0 <= cs[i]
  <2>1. \A i \in Lines : /\ CompletedStored(s[i]) \in Nat /\ CompletedStored(m[i]) \in Nat
                         /\ CompletedStored(s[i]) <= CompletedStored(m[i])
                         /\ s[i].c \in Nat /\ m[i].c = s[i].c
    BY DEF Grows, CompletedStored
  <2>2. cm = cs
    BY <2>1
  <2> HIDE DEF cm
  <2> QED BY <2>1, <2>2 DEF IntegersOn
<1>2. IntegersOn(zero, Lines) /\ \A i \in Lines : zero[i] = 0
  BY DEF IntegersOn
<1> HIDE DEF gs, gm, cs, cm, zero
<1>3. SumFunctionOnSet(zero, Lines) = 0
  BY <1>0, <1>2, SumOfZeros
<1>4. SumFunctionOnSet(gs, Lines) <= SumFunctionOnSet(gm, Lines)
  BY <1>0, <1>1, SumIsMonotone
<1>5. 0 <= SumFunctionOnSet(gs, Lines) /\ 0 <= SumFunctionOnSet(cs, Lines)
  BY <1>0, <1>1, <1>2, <1>3, SumIsMonotone
<1>6. /\ SumFunctionOnSet(gs, Lines) \in Int /\ SumFunctionOnSet(gm, Lines) \in Int
      /\ SumFunctionOnSet(cs, Lines) \in Int
  BY <1>0, <1>1, SumSplits
<1>7. /\ SumOver(gs) = SumFunctionOnSet(gs, Lines) /\ SumOver(gm) = SumFunctionOnSet(gm, Lines)
      /\ SumOver(cs) = SumFunctionOnSet(cs, Lines)
  BY <1>1, SumOverIs
<1> DEFINE before == SumOver(gs)
           after == SumOver(gm)
           whole == SumOver(cs)
<1>8. before \in Nat /\ after \in Nat /\ before <= after /\ whole \in Nat
  BY <1>4, <1>5, <1>6, <1>7
<1>9. IsReduced(spec, before, whole) /\ Reduced(m) = IsReduced(spec, after, whole)
  BY <1>1 DEF Reduced, gs, gm, cs, cm
<1> HIDE DEF before, after, whole
<1>10. /\ PercentOf(before, whole) \in Int /\ PercentOf(after, whole) \in Int
       /\ PercentOf(before, whole) <= PercentOf(after, whole)
  BY <1>8, PercentOfGrows
<1>11. IsReduced(spec, after, whole)
  BY <1>0, <1>9, <1>10 DEF IsReduced
<1> QED BY <1>9, <1>11

\* A line's rates are shares, and more work on the sheet raises none of them.
LEMMA RatesOnlyDrop ==
    ASSUME NEW s, NEW m, Grows(s, m), spec \in Specs, RatesAreShares, NEW i \in Lines
    PROVE  /\ OwnRates(s, i).work \in 0..BpScale /\ OwnRates(m, i).work \in 0..BpScale
           /\ OwnRates(s, i).stored \in 0..BpScale /\ OwnRates(m, i).stored \in 0..BpScale
           /\ OwnRates(m, i).work <= OwnRates(s, i).work
           /\ OwnRates(m, i).stored <= OwnRates(s, i).stored
<1>1. /\ spec.work \in 0..BpScale /\ spec.stored \in 0..BpScale
      /\ spec.reduced \in 0..BpScale /\ BpScale \in Nat
      /\ spec.mode = "stepped" => spec.reduced <= spec.work /\ spec.reduced <= spec.stored
  BY ScaleIsPositive DEF RatesAreShares
<1>2. m[i].rate = s[i].rate /\ (s[i].rate = NoRate \/ s[i].rate \in 0..BpScale)
  BY DEF Grows
<1>3. Reduced(s) => Reduced(m)
  BY ReductionStaysOn
<1>4. (Reduced(s) => spec.mode = "stepped") /\ (Reduced(m) => spec.mode = "stepped")
  BY DEF Reduced, IsReduced
<1>5. CASE spec.mode = "variable_line"
  BY <1>1, <1>2, <1>5 DEF OwnRates, LineRates
<1>6. CASE spec.mode # "variable_line"
  <2>1. /\ OwnRates(s, i) = RatesWhen(Reduced(s))
        /\ OwnRates(m, i) = RatesWhen(Reduced(m))
    BY <1>6 DEF OwnRates, LineRates
  <2> QED BY <1>1, <1>3, <1>4, <2>1 DEF RatesWhen
<1> QED BY <1>5, <1>6

\* More at a lower rate leaves no less, on one column.
LEMMA LeavesNoLess ==
    ASSUME NEW before \in Nat, NEW after \in Nat, before <= after,
           NEW low \in 0..BpScale, NEW high \in 0..BpScale, low <= high
    PROVE  /\ ApplyBp(before, high) \in Int /\ ApplyBp(after, low) \in Int
           /\ before - ApplyBp(before, high) <= after - ApplyBp(after, low)
<1>1. low \in Nat /\ high \in Nat
  BY ScaleIsPositive
<1>2. before - ApplyBp(before, low) <= after - ApplyBp(after, low)
  BY EarnedIsMonotone
<1>3. ApplyBp(before, low) <= ApplyBp(before, high)
  BY <1>1, ApplyBpGrowsWithTheRate
<1>4. ApplyBp(before, low) \in Nat /\ ApplyBp(before, high) \in Nat /\ ApplyBp(after, low) \in Nat
  BY <1>1, ApplyBpOfNats
<1> QED BY <1>2, <1>3, <1>4

\* What the lines of a sheet withhold, and what they have earned after it.
Earns(s, work, stored, earned) ==
    /\ DOMAIN s = Lines
    /\ \A i \in Lines :
          /\ WorkToDate(s[i]) \in Int /\ s[i].f \in Int
          /\ work[i] = ApplyBp(WorkToDate(s[i]), OwnRates(s, i).work)
          /\ stored[i] = ApplyBp(s[i].f, OwnRates(s, i).stored)
          /\ work[i] \in Int /\ stored[i] \in Int
          /\ earned[i] = CompletedStored(s[i]) - (work[i] + stored[i])

\* Line 6 is what the lines have earned: work and material less what they withhold.
LEMMA EarnedIsSummed ==
    ASSUME NEW s, NEW work, NEW stored, NEW earned, Earns(s, work, stored, earned)
    PROVE  /\ Requested(s).line6 = SumFunctionOnSet(earned, Lines)
           /\ IntegersOn(earned, Lines)
<1> DEFINE withheld == Withhold(spec, s)
           g == [i \in Lines |-> CompletedStored(s[i])]
           w == [i \in Lines |-> withheld[i].work]
           k == [i \in Lines |-> withheld[i].stored]
           b == [i \in Lines |-> work[i] + stored[i]]
<1>0. IsFiniteSet(Lines)
  BY ArgumentsAreNumbers
<1>1. Requested(s).line6 = SumOver(g) - (SumOver(w) + SumOver(k))
  <2>1. DOMAIN s = Lines
    BY DEF Earns
  <2> QED BY <2>1 DEF Requested, Compute
<1>2. ASSUME NEW i \in Lines
      PROVE  withheld[i].work = work[i] /\ withheld[i].stored = stored[i]
  <2>1. withheld[i] = [work |-> ApplyBp(WorkToDate(s[i]), OwnRates(s, i).work),
                       stored |-> ApplyBp(s[i].f, OwnRates(s, i).stored)]
    BY LineWithholds DEF Earns
  <2> HIDE DEF withheld
  <2> QED BY <2>1 DEF Earns
<1> HIDE DEF withheld
<1>3. /\ DOMAIN g = Lines /\ DOMAIN w = Lines /\ DOMAIN k = Lines
      /\ \A i \in Lines : /\ g[i] \in Int /\ w[i] = work[i] /\ k[i] = stored[i]
                           /\ b[i] = w[i] + k[i] /\ b[i] \in Int
                           /\ g[i] = earned[i] + b[i] /\ earned[i] \in Int
  <2>1. \A i \in Lines : CompletedStored(s[i]) \in Int
    BY DEF CompletedStored, Earns
  <2> QED BY <1>2, <2>1 DEF Earns
<1> HIDE DEF g, w, k, b
<1>4. /\ IntegersOn(g, Lines) /\ IntegersOn(w, Lines) /\ IntegersOn(k, Lines)
      /\ IntegersOn(b, Lines) /\ IntegersOn(earned, Lines)
  BY <1>3 DEF IntegersOn, Earns
<1>5. SumFunctionOnSet(b, Lines) = SumFunctionOnSet(w, Lines) + SumFunctionOnSet(k, Lines)
  BY <1>0, <1>3, <1>4, SumOfSums
<1>6. SumFunctionOnSet(g, Lines) = SumFunctionOnSet(earned, Lines) + SumFunctionOnSet(b, Lines)
  BY <1>0, <1>3, <1>4, SumOfSums
<1>7. /\ SumFunctionOnSet(g, Lines) \in Int /\ SumFunctionOnSet(w, Lines) \in Int
      /\ SumFunctionOnSet(k, Lines) \in Int /\ SumFunctionOnSet(earned, Lines) \in Int
  BY <1>0, <1>4, SumSplits
<1>8. /\ SumOver(g) = SumFunctionOnSet(g, Lines) /\ SumOver(w) = SumFunctionOnSet(w, Lines)
      /\ SumOver(k) = SumFunctionOnSet(k, Lines)
  BY <1>3, SumOverIs
<1> QED BY <1>1, <1>4, <1>5, <1>6, <1>7, <1>8

\* A sheet that grows has earned no less.
LEMMA GrowthEarns ==
    ASSUME NEW s, NEW m, Grows(s, m), spec \in Specs, RatesAreShares
    PROVE  Requested(m).line6 >= Requested(s).line6
<1> DEFINE work(x) == [i \in Lines |-> ApplyBp(WorkToDate(x[i]), OwnRates(x, i).work)]
           stored(x) == [i \in Lines |-> ApplyBp(x[i].f, OwnRates(x, i).stored)]
           earned(x) == [i \in Lines |-> CompletedStored(x[i]) - (work(x)[i] + stored(x)[i])]
           ws == work(s)
           ks == stored(s)
           es == earned(s)
           wm == work(m)
           km == stored(m)
           em == earned(m)
<1>0. IsFiniteSet(Lines)
  BY ArgumentsAreNumbers
<1>1. ASSUME NEW i \in Lines
      PROVE  /\ WorkToDate(s[i]) \in Nat /\ WorkToDate(m[i]) \in Nat
             /\ WorkToDate(s[i]) <= WorkToDate(m[i])
             /\ s[i].f \in Nat /\ m[i].f \in Nat /\ s[i].f <= m[i].f
  BY DEF Grows
<1>2. ASSUME NEW i \in Lines
      PROVE  /\ ws[i] \in Int /\ ks[i] \in Int /\ wm[i] \in Int /\ km[i] \in Int
             /\ WorkToDate(s[i]) - ws[i] <= WorkToDate(m[i]) - wm[i]
             /\ s[i].f - ks[i] <= m[i].f - km[i]
  <2>1. /\ OwnRates(s, i).work \in 0..BpScale /\ OwnRates(m, i).work \in 0..BpScale
        /\ OwnRates(s, i).stored \in 0..BpScale /\ OwnRates(m, i).stored \in 0..BpScale
        /\ OwnRates(m, i).work <= OwnRates(s, i).work
        /\ OwnRates(m, i).stored <= OwnRates(s, i).stored
    BY RatesOnlyDrop
  <2>2. /\ ApplyBp(WorkToDate(s[i]), OwnRates(s, i).work) \in Int
        /\ ApplyBp(WorkToDate(m[i]), OwnRates(m, i).work) \in Int
        /\ WorkToDate(s[i]) - ApplyBp(WorkToDate(s[i]), OwnRates(s, i).work)
              <= WorkToDate(m[i]) - ApplyBp(WorkToDate(m[i]), OwnRates(m, i).work)
    BY <1>1, <2>1, LeavesNoLess
  <2>3. /\ ApplyBp(s[i].f, OwnRates(s, i).stored) \in Int
        /\ ApplyBp(m[i].f, OwnRates(m, i).stored) \in Int
        /\ s[i].f - ApplyBp(s[i].f, OwnRates(s, i).stored)
              <= m[i].f - ApplyBp(m[i].f, OwnRates(m, i).stored)
    BY <1>1, <2>1, LeavesNoLess
  <2> QED BY <2>2, <2>3
<1>3. /\ \A i \in Lines : es[i] = CompletedStored(s[i]) - (ws[i] + ks[i])
      /\ \A i \in Lines : em[i] = CompletedStored(m[i]) - (wm[i] + km[i])
  OBVIOUS
<1>4. Earns(s, ws, ks, es) /\ Earns(m, wm, km, em)
  <2>1. DOMAIN s = Lines /\ DOMAIN m = Lines
    BY DEF Grows
  <2>2. /\ \A i \in Lines : /\ ws[i] = ApplyBp(WorkToDate(s[i]), OwnRates(s, i).work)
                             /\ ks[i] = ApplyBp(s[i].f, OwnRates(s, i).stored)
        /\ \A i \in Lines : /\ wm[i] = ApplyBp(WorkToDate(m[i]), OwnRates(m, i).work)
                             /\ km[i] = ApplyBp(m[i].f, OwnRates(m, i).stored)
    OBVIOUS
  <2> HIDE DEF ws, ks, es, wm, km, em
  <2> QED BY <1>1, <1>2, <1>3, <2>1, <2>2 DEF Earns
<1> HIDE DEF ws, ks, es, wm, km, em
<1>5. Requested(s).line6 = SumFunctionOnSet(es, Lines) /\ IntegersOn(es, Lines)
  BY <1>4, EarnedIsSummed
<1>6. Requested(m).line6 = SumFunctionOnSet(em, Lines) /\ IntegersOn(em, Lines)
  BY <1>4, EarnedIsSummed
<1>7. \A i \in Lines : es[i] <= em[i]
  BY <1>1, <1>2, <1>3 DEF CompletedStored
<1>8. SumFunctionOnSet(es, Lines) <= SumFunctionOnSet(em, Lines)
  BY <1>0, <1>5, <1>6, <1>7, SumIsMonotone
<1>9. SumFunctionOnSet(es, Lines) \in Int /\ SumFunctionOnSet(em, Lines) \in Int
  BY <1>0, <1>5, <1>6, SumSplits
<1> QED BY <1>5, <1>6, <1>8, <1>9

\* More work or more material on a line never lowers what the sheet has earned
\* less retainage, for rates that are shares.
THEOREM MoreBilledIsMoreEarned ==
    ASSUME RatesAreShares
    PROVE  CoreSpec => []BillingMoreNeverEarnsLess
<1>1. ArgumentsTyped => BillingMoreNeverEarnsLess
  <2> SUFFICES ASSUME ArgumentsTyped,
                      \A i \in Lines : /\ WorkToDate(sheet[i]) >= 0
                                       /\ sheet[i].f >= 0 /\ sheet[i].c >= 0,
                      NEW i \in Lines, NEW work \in Increments, NEW stored \in Increments
               PROVE  Requested([sheet EXCEPT ![i].e = @ + work, ![i].f = @ + stored]).line6
                          >= Requested(sheet).line6
    BY DEF BillingMoreNeverEarnsLess
  <2> DEFINE more == [sheet EXCEPT ![i].e = @ + work, ![i].f = @ + stored]
  <2>1. work \in Nat /\ stored \in Nat
    BY ArgumentsAreNumbers
  <2>2. DOMAIN sheet = Lines /\ DOMAIN more = Lines
    BY DEF ArgumentsTyped
  <2>3. \A k \in Lines : /\ sheet[k].c \in Int /\ sheet[k].d \in Int /\ sheet[k].e \in Int
                         /\ sheet[k].f \in Int
                         /\ sheet[k] \in [c : Int, d : Int, e : Int, f : Int, rate : Int]
    BY EntriesAreNumbers DEF ArgumentsTyped
  <2>4. \A k \in Lines : k # i => more[k] = sheet[k]
    BY <2>2
  <2>5. /\ more[i].c = sheet[i].c /\ more[i].d = sheet[i].d /\ more[i].rate = sheet[i].rate
        /\ more[i].e = sheet[i].e + work /\ more[i].f = sheet[i].f + stored
    BY <2>2, <2>3
  <2>6. \A k \in Lines : sheet[k].rate = NoRate \/ sheet[k].rate \in 0..BpScale
    <3>1. \A k \in Lines : sheet[k] \in SheetLines
      BY DEF ArgumentsTyped
    <3>2. Blank.rate = NoRate
      BY DEF Blank
    <3> QED BY <3>1, <3>2 DEF SheetLines, RatesAreShares
  <2> HIDE DEF more
  <2>7. Grows(sheet, more)
    <3> SUFFICES ASSUME NEW k \in Lines
                 PROVE  /\ sheet[k].c \in Nat /\ more[k].c = sheet[k].c
                        /\ WorkToDate(sheet[k]) \in Nat /\ WorkToDate(more[k]) \in Nat
                        /\ WorkToDate(sheet[k]) <= WorkToDate(more[k])
                        /\ sheet[k].f \in Nat /\ more[k].f \in Nat
                        /\ sheet[k].f <= more[k].f
                        /\ more[k].rate = sheet[k].rate
                        /\ sheet[k].rate = NoRate \/ sheet[k].rate \in 0..BpScale
      BY <2>2 DEF Grows
    <3>1. /\ sheet[k].c \in Nat /\ sheet[k].f \in Nat /\ WorkToDate(sheet[k]) \in Nat
      BY <2>3 DEF WorkToDate
    <3>2. CASE k = i
      BY <2>1, <2>3, <2>5, <2>6, <3>1, <3>2 DEF WorkToDate
    <3>3. CASE k # i
      BY <2>4, <2>6, <3>1, <3>3
    <3> QED BY <3>2, <3>3
  <2>8. Requested(more).line6 >= Requested(sheet).line6
    BY <2>7, GrowthEarns DEF ArgumentsTyped
  <2> QED BY <2>8 DEF more
<1> QED BY <1>1, ArgumentsStayTyped, PTL

-----------------------------------------------------------------------------
(* SubmissionGate: the inductive invariant                                  *)

ValuesOf(ms) == [k \in DOMAIN ms |-> ms[k].value]
Worth(ms, K) == SumFunctionOnSet(ValuesOf(ms), K)

Statuses == {"draft", "submitted", "certified", "paid", "void"}

\* A row of an application; while it is open nobody has submitted or certified it.
IsApp(a, ms) ==
    /\ a \in [status: Statuses, end: Int, line: Int,
              d: Int, e: Int, f: Int, line7: Int, request: Int,
              certificate: Int \cup {None}, counted: SUBSET DOMAIN ms,
              required: {None} \cup SUBSET Nat]
    /\ IsEditable(a) => a.required = None /\ a.certificate = None

\* What column F was read from: materials of the line, worth as much as F says;
\* while the period is open they were installed in it or not at all, and after
\* its submission only later.
IsRegistered(n, a, ms) ==
    /\ a.counted # {} => a.f = Worth(ms, a.counted)
    /\ \A k \in a.counted : ms[k].line = a.line
    /\ IsEditable(a) => \A k \in a.counted : ms[k].installed \in {None, n}
    /\ WasSubmitted(a) /\ (\A k \in a.counted : ms[k].value >= 0) =>
          \A k \in a.counted :
              ms[k].installed # None /\ ms[k].value > 0 => ms[k].installed > n

\* Each demand of a submitted application has its document.
IsDocumented(n, a, rs, ds) ==
    WasSubmitted(a) =>
        /\ a.required \subseteq DOMAIN rs
        /\ \A r \in a.required : \E doc \in ds :
              /\ doc.requirement = r
              /\ rs[r].recurring => doc.app = n
              /\ IsCurrent(doc, a.end)

IsMaterial(m, as) ==
    m \in [line: Int, value: Int, billed: DOMAIN as \cup {None},
           installed: DOMAIN as \cup {None}]

\* A waiver that was asked for early fits what its application requests.
Fits(w, a) ==
    w.early /\ WasSubmitted(a) => w.amount <= a.request /\ w.through <= a.end

IsWaiver(w, as) ==
    /\ w.app \in DOMAIN as
    /\ w.amount \in Int /\ w.through \in Int
    /\ Fits(w, as[w.app])

GateHolds(as, ms, ws, rs, ds) ==
    /\ IsSequence(as) /\ IsSequence(ms) /\ IsSequence(rs)
    /\ \A n \in DOMAIN as :
          /\ IsApp(as[n], ms)
          /\ IsRegistered(n, as[n], ms)
          /\ IsDocumented(n, as[n], rs, ds)
          /\ IsEditable(as[n]) => n = Len(as)
    /\ \A k \in DOMAIN ms : IsMaterial(ms[k], as)
    /\ \A w \in ws : IsWaiver(w, as)

GateInvariant ==
    /\ line \in Int
    /\ GateHolds(apps, materials, waivers, requirements, documents)

\* What an action of the gate leaves of everything but the applications.
RestIsKept == UNCHANGED <<line, materials, waivers, requirements, documents>>

-----------------------------------------------------------------------------
(* What the register is worth                                               *)

\* Any materials of the register are finitely many, and worth whole cents.
LEMMA WorthIsWhole ==
    ASSUME NEW as, NEW ms, IsSequence(ms), \A k \in DOMAIN ms : IsMaterial(ms[k], as),
           NEW K \in SUBSET DOMAIN ms
    PROVE  /\ IsFiniteSet(K) /\ IntegersOn(ValuesOf(ms), K)
           /\ Worth(ms, K) \in Int
<1>1. IsFiniteSet(DOMAIN ms)
  <2>1. DOMAIN ms = 1..Len(ms) /\ Len(ms) \in Nat
    BY SequenceFacts
  <2>2. \A a, b \in Int : IsFiniteSet(a..b)
    BY FS_Interval
  <2> QED BY <2>1, <2>2
<1>2. IsFiniteSet(K)
  BY <1>1, FS_Subset
<1>3. IntegersOn(ValuesOf(ms), K)
  BY DEF IntegersOn, ValuesOf, IsMaterial
<1> QED BY <1>2, <1>3, SumSplits DEF Worth

\* The register keeps what was recorded in it, and may get more.
KeepsRegister(ms, us) ==
    /\ DOMAIN ms \subseteq DOMAIN us
    /\ \A k \in DOMAIN ms : /\ us[k].value = ms[k].value
                            /\ us[k].line = ms[k].line
                            /\ us[k].installed = ms[k].installed

\* What is recorded later changes no worth.
LEMMA WorthIsKept ==
    ASSUME NEW as, NEW ms, IsSequence(ms), \A k \in DOMAIN ms : IsMaterial(ms[k], as),
           NEW us, DOMAIN ms \subseteq DOMAIN us,
           \A k \in DOMAIN ms : us[k].value = ms[k].value,
           NEW K \in SUBSET DOMAIN ms
    PROVE  Worth(us, K) = Worth(ms, K)
<1>1. IsFiniteSet(K) /\ IntegersOn(ValuesOf(ms), K)
  BY WorthIsWhole
<1>2. \A k \in K : ValuesOf(us)[k] = ValuesOf(ms)[k]
  BY DEF ValuesOf
<1> QED BY <1>1, <1>2, SumOfEquals DEF Worth

\* Without credits, materials are worth at least as much as each of them.
LEMMA WorthCoversEach ==
    ASSUME NEW as, NEW ms, IsSequence(ms), \A k \in DOMAIN ms : IsMaterial(ms[k], as),
           NEW K \in SUBSET DOMAIN ms, \A k \in K : ms[k].value >= 0, NEW k \in K
    PROVE  Worth(ms, K) >= ms[k].value
<1> DEFINE f == ValuesOf(ms)
           R == K \ {k}
           zero == [x \in R |-> 0]
<1>1. IsFiniteSet(K) /\ IntegersOn(f, K)
  BY WorthIsWhole
<1>2. IsFiniteSet(R) /\ IntegersOn(f, R)
  BY <1>1, FS_Subset DEF IntegersOn
<1>3. SumFunctionOnSet(f, K) = f[k] + SumFunctionOnSet(f, R) /\ SumFunctionOnSet(f, R) \in Int
  BY <1>1, <1>2, SumSplits
<1>4. SumFunctionOnSet(zero, R) = 0
  BY <1>2, SumOfZeros
<1>5. SumFunctionOnSet(zero, R) <= SumFunctionOnSet(f, R)
  <2>1. IntegersOn(zero, R)
    BY DEF IntegersOn
  <2>2. \A x \in R : zero[x] <= f[x]
    BY DEF ValuesOf
  <2> HIDE DEF f, zero, R
  <2> QED BY <1>2, <2>1, <2>2, SumIsMonotone
<1>6. f[k] = ms[k].value /\ f[k] \in Int
  BY <1>1 DEF ValuesOf, IntegersOn
<1> HIDE DEF f, zero, R
<1> QED BY <1>3, <1>4, <1>5, <1>6 DEF Worth, f

-----------------------------------------------------------------------------
(* Steps of the register and of one application                             *)

\* An application reads the same from a register that kept what it had.
LEMMA RowOutlastsRegister ==
    ASSUME NEW as, NEW ms, IsSequence(ms), \A k \in DOMAIN ms : IsMaterial(ms[k], as),
           NEW us, KeepsRegister(ms, us),
           NEW n, NEW a, IsApp(a, ms), IsRegistered(n, a, ms)
    PROVE  IsApp(a, us) /\ IsRegistered(n, a, us)
<1>1. a.counted \in SUBSET DOMAIN ms
  BY DEF IsApp
<1>2. Worth(us, a.counted) = Worth(ms, a.counted)
  BY <1>1, WorthIsKept DEF KeepsRegister
<1>3. \A k \in a.counted : /\ us[k].value = ms[k].value
                           /\ us[k].line = ms[k].line
                           /\ us[k].installed = ms[k].installed
  BY <1>1 DEF KeepsRegister
<1>4. IsApp(a, us)
  BY <1>1 DEF IsApp, KeepsRegister
<1>5. IsRegistered(n, a, us)
  BY <1>2, <1>3 DEF IsRegistered
<1> QED BY <1>4, <1>5

\* A step that rewrites one application and leaves the register what it was
\* keeps the invariant if the row it writes fits.
LEMMA RowStep ==
    ASSUME GateInvariant, NEW n \in DOMAIN apps, NEW b, apps' = [apps EXCEPT ![n] = b],
           IsSequence(materials'), DOMAIN materials' = DOMAIN materials,
           KeepsRegister(materials, materials'),
           \A k \in DOMAIN materials : IsMaterial(materials'[k], apps),
           UNCHANGED <<line, waivers, requirements, documents>>,
           IsApp(b, materials), IsRegistered(n, b, materials),
           IsDocumented(n, b, requirements, documents),
           IsEditable(b) => IsEditable(apps[n]),
           \A w \in waivers : w.app = n => Fits(w, b)
    PROVE  GateInvariant'
<1>1. Replaces(apps', apps, n, b)
  BY ReplacedElement DEF GateInvariant, GateHolds
<1>2. IsSequence(materials) /\ \A k \in DOMAIN materials : IsMaterial(materials[k], apps)
  BY DEF GateInvariant, GateHolds
<1>3. ASSUME NEW m \in DOMAIN apps'
      PROVE  /\ IsApp(apps'[m], materials')
             /\ IsRegistered(m, apps'[m], materials')
             /\ IsDocumented(m, apps'[m], requirements, documents)
             /\ IsEditable(apps'[m]) => m = Len(apps')
  <2>1. CASE m = n
    <3>1. IsApp(b, materials') /\ IsRegistered(n, b, materials')
      BY <1>2, RowOutlastsRegister
    <3>2. IsEditable(b) => n = Len(apps)
      BY DEF GateInvariant, GateHolds
    <3> QED BY <1>1, <2>1, <3>1, <3>2 DEF Replaces
  <2>2. CASE m # n
    <3>1. /\ apps'[m] = apps[m] /\ m \in DOMAIN apps /\ Len(apps') = Len(apps)
      BY <1>1, <2>2 DEF Replaces
    <3>2. /\ IsApp(apps[m], materials) /\ IsRegistered(m, apps[m], materials)
          /\ IsDocumented(m, apps[m], requirements, documents)
          /\ IsEditable(apps[m]) => m = Len(apps)
      BY <3>1 DEF GateInvariant, GateHolds
    <3>3. IsApp(apps[m], materials') /\ IsRegistered(m, apps[m], materials')
      BY <1>2, <3>2, RowOutlastsRegister
    <3> QED BY <3>1, <3>2, <3>3
  <2> QED BY <2>1, <2>2
<1>4. \A k \in DOMAIN materials' : IsMaterial(materials'[k], apps')
  BY <1>1 DEF IsMaterial, Replaces
<1>5. ASSUME NEW w \in waivers PROVE IsWaiver(w, apps')
  <2>1. IsWaiver(w, apps)
    BY DEF GateInvariant, GateHolds
  <2>2. w.app = n => Fits(w, apps'[w.app])
    BY <1>1 DEF Replaces
  <2>3. w.app # n => apps'[w.app] = apps[w.app]
    BY <1>1, <2>1 DEF Replaces, IsWaiver
  <2> QED BY <1>1, <2>1, <2>2, <2>3 DEF IsWaiver, Replaces
<1>6. IsSequence(apps') /\ IsSequence(requirements)
  BY <1>1 DEF Replaces, GateInvariant, GateHolds
<1> QED BY <1>3, <1>4, <1>5, <1>6 DEF GateInvariant, GateHolds

\* The invariant of one row, as the steps below use it.
LEMMA RowFacts ==
    ASSUME GateInvariant, NEW n \in DOMAIN apps
    PROVE  /\ IsApp(apps[n], materials) /\ IsRegistered(n, apps[n], materials)
           /\ IsDocumented(n, apps[n], requirements, documents)
           /\ IsEditable(apps[n]) => n = Len(apps)
           /\ n \in Nat /\ Len(apps) \in Nat /\ DOMAIN apps = 1..Len(apps)
<1>1. IsSequence(apps)
  BY DEF GateInvariant, GateHolds
<1>2. Len(apps) \in Nat /\ DOMAIN apps = 1..Len(apps)
  BY <1>1, SequenceFacts
<1> QED BY <1>2 DEF GateInvariant, GateHolds

\* The same when the register stays as it is.
LEMMA RowStepAlone ==
    ASSUME GateInvariant, NEW n \in DOMAIN apps, NEW b, apps' = [apps EXCEPT ![n] = b],
           RestIsKept,
           IsApp(b, materials), IsRegistered(n, b, materials),
           IsDocumented(n, b, requirements, documents),
           IsEditable(b) => IsEditable(apps[n]),
           \A w \in waivers : w.app = n => Fits(w, b)
    PROVE  GateInvariant'
<1>1. KeepsRegister(materials, materials')
  BY DEF RestIsKept, KeepsRegister
<1>2. /\ IsSequence(materials') /\ DOMAIN materials' = DOMAIN materials
      /\ \A k \in DOMAIN materials : IsMaterial(materials'[k], apps)
  BY DEF RestIsKept, GateInvariant, GateHolds
<1>3. UNCHANGED <<line, waivers, requirements, documents>>
  BY DEF RestIsKept
<1> QED BY <1>1, <1>2, <1>3, RowStep

-----------------------------------------------------------------------------
(* What an application carries                                              *)

\* Column D and line 7 of the application before are whole numbers.
LEMMA PreviousIsWhole ==
    ASSUME GateInvariant, NEW n
    PROVE  Previous(n).d \in Int /\ Previous(n).line7 \in Int
<1>1. CASE IssuedBefore(n) = {}
  BY <1>1 DEF Previous
<1>2. CASE IssuedBefore(n) # {}
  <2>1. DOMAIN apps = 1..Len(apps) /\ Len(apps) \in Nat
    BY SequenceFacts DEF GateInvariant, GateHolds
  <2>2. IssuedBefore(n) \subseteq 1..Len(apps)
    BY <2>1 DEF IssuedBefore
  <2>3. IsFiniteSet(IssuedBefore(n)) /\ IssuedBefore(n) \subseteq Int
    <3>1. \A a, b \in Int : IsFiniteSet(a..b)
      BY FS_Interval
    <3> QED BY <2>1, <2>2, <3>1, FS_Subset
  <2>4. Max(IssuedBefore(n)) \in IssuedBefore(n)
    <3>1. \E x \in IssuedBefore(n) : \A y \in IssuedBefore(n) : y <= x
      BY <1>2, <2>3, LargestNumber
    <3>2. \E x \in IssuedBefore(n) : \A y \in IssuedBefore(n) : x >= y
      BY <2>3, <3>1
    <3> QED BY <3>2 DEF Max
  <2> DEFINE p == apps[Max(IssuedBefore(n))]
  <2>5. IsApp(p, materials)
    BY <2>1, <2>2, <2>4 DEF GateInvariant, GateHolds
  <2> HIDE DEF p
  <2>6. p.d + p.e \in Int /\ p.line7 + CertifiedPayment(p) \in Int
    BY <2>5 DEF IsApp, CertifiedPayment
  <2>7. Previous(n) = [d |-> p.d + p.e, line7 |-> p.line7 + CertifiedPayment(p)]
    BY <1>2 DEF Previous, p
  <2> QED BY <2>6, <2>7
<1> QED BY <1>1, <1>2

\* A row with its figures recomputed.
Recomputes(b, a, ms) ==
    /\ IsApp(b, ms)
    /\ b.status = a.status /\ b.end = a.end /\ b.line = a.line
    /\ b.f = a.f /\ b.counted = a.counted /\ b.required = a.required

\* recompute writes line 7 and the request, and nothing else of the row.
LEMMA RecomputedRow ==
    ASSUME GateInvariant, NEW n, NEW a, NEW ms, IsApp(a, ms)
    PROVE  Recomputes(Recomputed(n, a), a, ms)
<1>1. Previous(n).line7 \in Int
  BY PreviousIsWhole
<1>2. (a.d + a.e + a.f) - Previous(n).line7 \in Int
  BY <1>1 DEF IsApp
<1> DEFINE line7 == Previous(n).line7
           request == (a.d + a.e + a.f) - line7
           b == [a EXCEPT !.line7 = line7, !.request = request]
<1>3. Recomputed(n, a) = b
  BY DEF Recomputed
<1> HIDE DEF line7, request
<1> QED BY <1>1, <1>2, <1>3 DEF Recomputes, IsApp, IsEditable, line7, request

\* What recomputing writes to an open row fits the register and what is on file.
LEMMA RecomputeKeeps ==
    ASSUME GateInvariant, NEW n \in DOMAIN apps, IsEditable(apps[n]),
           NEW a, IsApp(a, materials), IsRegistered(n, a, materials),
           a.status = "draft", a.required = None
    PROVE  LET b == Recomputed(n, a)
           IN  /\ IsApp(b, materials) /\ IsRegistered(n, b, materials)
               /\ IsDocumented(n, b, requirements, documents)
               /\ IsEditable(b) => IsEditable(apps[n])
               /\ \A w \in waivers : w.app = n => Fits(w, b)
<1> DEFINE b == Recomputed(n, a)
<1>1. Recomputes(b, a, materials)
  BY RecomputedRow
<1> HIDE DEF b
<1>2. ~WasSubmitted(b)
  BY <1>1 DEF Recomputes, WasSubmitted
<1>3. IsRegistered(n, b, materials)
  BY <1>1, <1>2 DEF Recomputes, IsRegistered, IsEditable
<1>4. IsApp(b, materials) /\ IsDocumented(n, b, requirements, documents)
  BY <1>1, <1>2 DEF Recomputes, IsDocumented
<1>5. \A w \in waivers : w.app = n => Fits(w, b)
  BY <1>2 DEF Fits
<1> QED BY <1>3, <1>4, <1>5 DEF b

-----------------------------------------------------------------------------
(* The steps of billing                                                     *)

\* open_period opens a row that has counted nothing.
LEMMA OpenKeeps ==
    ASSUME GateInvariant, OpenPeriod
    PROVE  GateInvariant'
<1> DEFINE n == Len(apps) + 1
           end == PeriodEnds[n]
           d == Previous(n).d
           a == [status |-> "draft", end |-> end, line |-> line,
                 d |-> d, e |-> 0, f |-> 0,
                 line7 |-> 0, request |-> 0, certificate |-> None,
                 counted |-> {}, required |-> None]
           b == Recomputed(n, a)
<1>1. /\ n <= Len(PeriodEnds) /\ apps' = Append(apps, b)
      /\ \A m \in DOMAIN apps : ~IsEditable(apps[m])
      /\ RestIsKept
  BY DEF OpenPeriod, RestIsKept
<1>2. DOMAIN apps = 1..Len(apps) /\ Len(apps) \in Nat
  BY SequenceFacts DEF GateInvariant, GateHolds
<1>3. end \in Int
  BY <1>1, <1>2, AmountsAreNumbers DEF AmountsAreNumbers
<1>4. d \in Int
  BY PreviousIsWhole
<1> HIDE DEF end, d
<1>5. IsApp(a, materials)
  <2>1. line \in Int /\ "draft" \in Statuses /\ {} \in SUBSET DOMAIN materials
    BY DEF GateInvariant, Statuses
  <2>2. a \in [status: Statuses, end: Int, line: Int,
                d: Int, e: Int, f: Int, line7: Int, request: Int,
                certificate: Int \cup {None}, counted: SUBSET DOMAIN materials,
                required: {None} \cup SUBSET Nat]
    BY <1>3, <1>4, <2>1
  <2>3. a.required = None /\ a.certificate = None
    OBVIOUS
  <2> HIDE DEF a
  <2> QED BY <2>2, <2>3 DEF IsApp
<1>6. a.counted = {} /\ a.required = None
  OBVIOUS
<1> HIDE DEF a
<1>7. Recomputes(b, a, materials)
  BY <1>5, RecomputedRow
<1> HIDE DEF b
<1>8. Extends(apps', apps, b)
  BY <1>1, AppendedElement DEF GateInvariant, GateHolds
<1> HIDE DEF n
<1>9. DOMAIN apps' = 1..n /\ Len(apps') = n /\ apps'[n] = b /\ n \notin DOMAIN apps
      /\ DOMAIN apps' = DOMAIN apps \cup {n}
  BY <1>2, <1>8 DEF Extends, n
<1>10. IsApp(b, materials) /\ b.counted = {} /\ ~WasSubmitted(b)
  BY <1>6, <1>7 DEF Recomputes, WasSubmitted
<1>11. ASSUME NEW m \in DOMAIN apps'
       PROVE  /\ IsApp(apps'[m], materials)
              /\ IsRegistered(m, apps'[m], materials)
              /\ IsDocumented(m, apps'[m], requirements, documents)
              /\ IsEditable(apps'[m]) => m = Len(apps')
  <2>1. CASE m = n
    <3>1. IsRegistered(n, b, materials) /\ IsDocumented(n, b, requirements, documents)
      BY <1>10 DEF IsRegistered, IsDocumented
    <3> QED BY <1>9, <1>10, <2>1, <3>1
  <2>2. CASE m # n
    <3>1. m \in DOMAIN apps /\ apps'[m] = apps[m]
      BY <1>8, <1>9, <2>2 DEF Extends
    <3>2. /\ IsApp(apps[m], materials) /\ IsRegistered(m, apps[m], materials)
          /\ IsDocumented(m, apps[m], requirements, documents)
      BY <3>1, RowFacts
    <3> QED BY <1>1, <3>1, <3>2
  <2> QED BY <2>1, <2>2
<1>12. \A k \in DOMAIN materials : IsMaterial(materials[k], apps')
  BY <1>9 DEF GateInvariant, GateHolds, IsMaterial
<1>13. \A w \in waivers : IsWaiver(w, apps')
  <2> SUFFICES ASSUME NEW w \in waivers PROVE IsWaiver(w, apps')
    OBVIOUS
  <2>1. IsWaiver(w, apps)
    BY DEF GateInvariant, GateHolds
  <2>2. apps'[w.app] = apps[w.app] /\ w.app \in DOMAIN apps'
    BY <1>8, <1>9, <2>1 DEF IsWaiver, Extends
  <2> QED BY <2>1, <2>2 DEF IsWaiver
<1>14. IsSequence(apps') /\ IsSequence(materials) /\ IsSequence(requirements)
  BY <1>8 DEF Extends, GateInvariant, GateHolds
<1>15. line' \in Int /\ UNCHANGED <<materials, waivers, requirements, documents>>
  BY <1>1 DEF RestIsKept, GateInvariant
<1>16. GateHolds(apps', materials, waivers, requirements, documents)
  BY <1>11, <1>12, <1>13, <1>14 DEF GateHolds
<1> QED BY <1>15, <1>16 DEF GateInvariant

\* enter forgets what column F was read from unless it keeps what F says.
LEMMA EnterKeeps ==
    ASSUME GateInvariant, NEW n \in DOMAIN apps, NEW e \in Work,
           NEW f \in Typed \cup {apps[n].f}, Enter(n, e, f)
    PROVE  GateInvariant'
<1> DEFINE old == apps[n]
           kept == IF f = old.f THEN old.counted ELSE {}
           a == [old EXCEPT !.e = e, !.f = f, !.counted = kept]
           b == Recomputed(n, a)
<1>1. IsEditable(old) /\ apps' = [apps EXCEPT ![n] = b] /\ RestIsKept
  <2>1. IsEditable(old) /\ RestIsKept
    BY DEF Enter, RestIsKept
  <2>2. apps' = [apps EXCEPT ![n] = b]
    BY Zenon DEF Enter
  <2> QED BY <2>1, <2>2
<1>2. IsApp(old, materials) /\ IsRegistered(n, old, materials)
  BY RowFacts
<1>3. e \in Int /\ f \in Int
  BY <1>2, AmountsAreNumbers DEF AmountsAreNumbers, IsApp
<1>4. IsApp(a, materials)
  BY <1>2, <1>3 DEF IsApp, IsEditable
<1>5. /\ a.counted = kept /\ a.f = f /\ a.line = old.line /\ a.status = old.status
      /\ a.required = old.required
  BY <1>2 DEF IsApp
<1>6. a.status = "draft" /\ a.required = None
  BY <1>1, <1>2, <1>5 DEF IsEditable, IsApp
<1>7. IsRegistered(n, a, materials)
  <2> HIDE DEF a
  <2>1. kept # {} => kept = old.counted /\ f = old.f
    OBVIOUS
  <2> QED BY <1>1, <1>2, <1>5, <1>6, <2>1 DEF IsRegistered, IsEditable, WasSubmitted
<1> HIDE DEF a
<1>8. /\ IsApp(b, materials) /\ IsRegistered(n, b, materials)
      /\ IsDocumented(n, b, requirements, documents)
      /\ IsEditable(b) => IsEditable(apps[n])
      /\ \A w \in waivers : w.app = n => Fits(w, b)
  BY <1>1, <1>4, <1>6, <1>7, RecomputeKeeps
<1> QED BY <1>1, <1>8, RowStepAlone

\* submit lets through what STORED-DOUBLE, WAIVER-AMOUNT, WAIVER-THROUGH-DATE
\* and COMPLIANCE-MISSING leave.
LEMMA SubmitKeeps ==
    ASSUME GateInvariant, NEW n \in DOMAIN apps, Submit(n)
    PROVE  GateInvariant'
<1> DEFINE a == apps[n]
           b == [a EXCEPT !.status = "submitted", !.required = Blocking]
<1>1. apps' = [apps EXCEPT ![n] = b] /\ RestIsKept
  BY DEF Submit, RestIsKept
<1>2. /\ IsEditable(a) /\ ~InstalledStillInF(n) /\ WaiversAllow(n) /\ ComplianceAllows(n)
  BY DEF Submit
<1>3. /\ IsApp(a, materials) /\ IsRegistered(n, a, materials)
      /\ n \in Nat
  BY RowFacts
<1>4. IsSequence(materials) /\ \A k \in DOMAIN materials : IsMaterial(materials[k], apps)
  BY DEF GateInvariant, GateHolds
<1>5. Blocking \subseteq DOMAIN requirements /\ Blocking \subseteq Nat
  <2>1. DOMAIN requirements = 1..Len(requirements) /\ Len(requirements) \in Nat
    BY SequenceFacts DEF GateInvariant, GateHolds
  <2> QED BY <2>1 DEF Blocking
<1>6. IsApp(b, materials)
  BY <1>3, <1>5 DEF IsApp, IsEditable, Statuses
<1>7. /\ b.status = "submitted" /\ b.required = Blocking /\ b.counted = a.counted
      /\ b.f = a.f /\ b.line = a.line /\ b.request = a.request /\ b.end = a.end
  BY <1>3 DEF IsApp
<1> HIDE DEF b
<1>8. IsRegistered(n, b, materials)
  <2> SUFFICES ASSUME \A k \in a.counted : materials[k].value >= 0,
                      NEW k \in a.counted,
                      materials[k].installed # None, materials[k].value > 0
               PROVE  FALSE
    BY <1>3, <1>7 DEF IsRegistered, IsEditable
  <2>1. a.counted \in SUBSET DOMAIN materials
    BY <1>3 DEF IsApp
  <2>2. a.f >= materials[k].value
    <3>1. Worth(materials, a.counted) >= materials[k].value
      BY <1>4, <2>1, WorthCoversEach
    <3>2. a.f = Worth(materials, a.counted)
      BY <1>3 DEF IsRegistered
    <3> QED BY <3>1, <3>2
  <2>3. materials[k].installed = n /\ materials[k].line = a.line
    BY <1>2, <1>3 DEF IsRegistered
  <2>4. k \in OnLineOf(apps[n])
    BY <2>1, <2>3 DEF OnLineOf
  <2> QED BY <1>2, <2>2, <2>3, <2>4 DEF InstalledStillInF
<1>9. IsDocumented(n, b, requirements, documents)
  <2>1. \A r \in Blocking : \E doc \in documents :
           Serves(doc, r, n) /\ IsCurrent(doc, a.end)
    BY <1>2 DEF ComplianceAllows, Satisfied
  <2> QED BY <1>5, <1>7, <2>1 DEF IsDocumented, Serves
<1>10. ASSUME NEW w \in waivers, w.app = n PROVE Fits(w, b)
  <2>1. w.amount \in Int /\ w.through \in Int
    BY DEF GateInvariant, GateHolds, IsWaiver
  <2>2. ~ReleasesTooMuch(w) /\ ~RunsPastPeriod(w)
    BY <1>2, <1>10 DEF WaiversAllow, WaiversOf
  <2>3. CertifiedPayment(a) = a.request /\ a.request \in Int /\ a.end \in Int
    BY <1>2, <1>3 DEF CertifiedPayment, IsApp
  <2> QED BY <1>7, <1>10, <2>1, <2>2, <2>3 DEF Fits, ReleasesTooMuch, RunsPastPeriod
<1>11. IsEditable(b) => IsEditable(apps[n])
  BY <1>2
<1> QED BY <1>1, <1>6, <1>8, <1>9, <1>10, <1>11, RowStepAlone

\* certify, a payment and void move the status and the certificate of a row that
\* is not in draft, or leave a draft that nobody submitted.
LEMMA StatusKeeps ==
    ASSUME GateInvariant, NEW n \in DOMAIN apps,
           (\E amount \in Certificates : Certify(n, amount)) \/ Pay(n) \/ Void(n)
    PROVE  GateInvariant'
<1> DEFINE a == apps[n]
<1>1. /\ IsApp(a, materials) /\ IsRegistered(n, a, materials)
      /\ IsDocumented(n, a, requirements, documents)
  BY RowFacts
<1>2. RestIsKept
  BY DEF Certify, Pay, Void, RestIsKept
<1>3. PICK b : /\ apps' = [apps EXCEPT ![n] = b]
               /\ IsApp(b, materials) /\ b.status # "draft"
               /\ b.counted = a.counted /\ b.f = a.f /\ b.line = a.line
               /\ b.required = a.required /\ b.request = a.request /\ b.end = a.end
  <2>1. ASSUME NEW amount \in Certificates, Certify(n, amount)
        PROVE  LET b == [a EXCEPT !.status = "certified", !.certificate = amount]
               IN  /\ apps' = [apps EXCEPT ![n] = b]
                   /\ IsApp(b, materials) /\ b.status # "draft"
                   /\ b.counted = a.counted /\ b.f = a.f /\ b.line = a.line
                   /\ b.required = a.required /\ b.request = a.request /\ b.end = a.end
    BY <1>1, <2>1, AmountsAreNumbers
       DEF Certify, AmountsAreNumbers, IsApp, IsEditable, Statuses
  <2>2. ASSUME NEW status \in {"paid", "void"}
        PROVE  LET b == [a EXCEPT !.status = status]
               IN  /\ IsApp(b, materials) /\ b.status # "draft"
                   /\ b.counted = a.counted /\ b.f = a.f /\ b.line = a.line
                   /\ b.required = a.required /\ b.request = a.request /\ b.end = a.end
    BY <1>1 DEF IsApp, IsEditable, Statuses
  <2>3. Pay(n) => apps' = [apps EXCEPT ![n] = [a EXCEPT !.status = "paid"]]
    BY DEF Pay
  <2>4. Void(n) => apps' = [apps EXCEPT ![n] = [a EXCEPT !.status = "void"]]
    BY DEF Void
  <2> HIDE DEF a
  <2> QED BY <2>1, <2>2, <2>3, <2>4
<1>4. IsRegistered(n, b, materials) /\ IsDocumented(n, b, requirements, documents)
  BY <1>1, <1>3 DEF IsRegistered, IsDocumented, IsEditable, WasSubmitted
<1>5. ASSUME NEW w \in waivers, w.app = n PROVE Fits(w, b)
  <2>1. Fits(w, a)
    BY <1>5 DEF GateInvariant, GateHolds, IsWaiver
  <2> QED BY <1>3, <2>1 DEF Fits, WasSubmitted
<1>6. ~IsEditable(b)
  BY <1>3 DEF IsEditable
<1> QED BY <1>2, <1>3, <1>4, <1>5, <1>6, RowStepAlone

-----------------------------------------------------------------------------
(* The steps of the register and of what is on file                         *)

\* New material is in nobody's column F yet.
LEMMA AddMaterialKeeps ==
    ASSUME GateInvariant, NEW n, NEW value \in Values, AddMaterial(n, value)
    PROVE  GateInvariant'
<1> DEFINE m == [line |-> line, value |-> value, billed |-> None, installed |-> None]
<1>1. materials' = Append(materials, m) /\ UNCHANGED <<apps, line, waivers, requirements, documents>>
  BY DEF AddMaterial
<1>2. IsSequence(materials) /\ \A k \in DOMAIN materials : IsMaterial(materials[k], apps)
  BY DEF GateInvariant, GateHolds
<1>3. IsMaterial(m, apps)
  BY AmountsAreNumbers DEF GateInvariant, IsMaterial, AmountsAreNumbers
<1> HIDE DEF m
<1>4. Extends(materials', materials, m)
  BY <1>1, <1>2, AppendedElement
<1>5. DOMAIN materials' = DOMAIN materials \cup {Len(materials) + 1}
  BY <1>4 DEF Extends
<1>6. KeepsRegister(materials, materials')
  BY <1>4, <1>5 DEF Extends, KeepsRegister
<1>7. \A k \in DOMAIN materials' : IsMaterial(materials'[k], apps)
  BY <1>2, <1>3, <1>4, <1>5 DEF Extends
<1>8. ASSUME NEW k \in DOMAIN apps
      PROVE  /\ IsApp(apps[k], materials') /\ IsRegistered(k, apps[k], materials')
             /\ IsDocumented(k, apps[k], requirements, documents)
             /\ IsEditable(apps[k]) => k = Len(apps)
  <2>1. IsApp(apps[k], materials) /\ IsRegistered(k, apps[k], materials)
    BY RowFacts
  <2> QED BY <1>2, <1>6, <2>1, RowFacts, RowOutlastsRegister
<1>9. GateHolds(apps, materials', waivers, requirements, documents)
  BY <1>4, <1>7, <1>8 DEF GateInvariant, GateHolds, Extends
<1> QED BY <1>1, <1>9 DEF GateInvariant

\* apply_stored_materials counts what is on the line and not installed.
LEMMA ApplyKeeps ==
    ASSUME GateInvariant, NEW n \in DOMAIN apps, ApplyMaterials(n)
    PROVE  GateInvariant'
<1> DEFINE old == apps[n]
           stored == StoredFor(old)
           worth == WorthOf(stored)
           a == [old EXCEPT !.f = worth, !.counted = stored]
           b == Recomputed(n, a)
           u == [k \in DOMAIN materials |->
                    IF k \in stored /\ materials[k].billed = None
                    THEN [materials[k] EXCEPT !.billed = n] ELSE materials[k]]
<1>1. /\ IsEditable(old) /\ apps' = [apps EXCEPT ![n] = b] /\ materials' = u
      /\ UNCHANGED <<line, waivers, requirements, documents>>
  BY DEF ApplyMaterials, ApplyStored
<1>2. IsApp(old, materials) /\ IsRegistered(n, old, materials)
  BY RowFacts
<1>3. IsSequence(materials) /\ \A k \in DOMAIN materials : IsMaterial(materials[k], apps)
  BY DEF GateInvariant, GateHolds
<1>4. /\ stored \in SUBSET DOMAIN materials
      /\ \A k \in stored : materials[k].line = old.line /\ materials[k].installed = None
  BY DEF StoredFor, OnLineOf, IsInstalled
<1>5. worth = Worth(materials, stored)
  BY DEF WorthOf, Worth, ValuesOf
<1>6. worth \in Int
  BY <1>3, <1>4, <1>5, WorthIsWhole
<1> HIDE DEF worth, stored
<1>7. /\ IsApp(a, materials) /\ a.status = "draft" /\ a.required = None
      /\ a.counted = stored /\ a.f = worth /\ a.line = old.line
  BY <1>1, <1>2, <1>4, <1>6 DEF IsApp, IsEditable
<1> HIDE DEF a
<1>8. IsRegistered(n, a, materials)
  BY <1>4, <1>5, <1>7 DEF IsRegistered, WasSubmitted
<1>9. /\ IsApp(b, materials) /\ IsRegistered(n, b, materials)
      /\ IsDocumented(n, b, requirements, documents)
      /\ IsEditable(b) => IsEditable(apps[n])
      /\ \A w \in waivers : w.app = n => Fits(w, b)
  BY <1>1, <1>7, <1>8, RecomputeKeeps
<1>10. ASSUME NEW k \in DOMAIN materials
       PROVE  /\ IsMaterial(u[k], apps) /\ u[k].value = materials[k].value
              /\ u[k].line = materials[k].line /\ u[k].installed = materials[k].installed
  BY <1>3 DEF IsMaterial
<1>11. IsSequence(u) /\ DOMAIN u = DOMAIN materials
  <2>1. DOMAIN materials = 1..Len(materials) /\ Len(materials) \in Nat
    BY <1>3, SequenceFacts
  <2>2. u = [k \in 1..Len(materials) |-> u[k]]
    BY <2>1
  <2> HIDE DEF u
  <2> QED BY <2>1, <2>2, SequenceFromFunction
<1> HIDE DEF u, b, old
<1>12. KeepsRegister(materials, materials')
  BY <1>1, <1>10, <1>11 DEF KeepsRegister
<1>13. IsSequence(materials') /\ DOMAIN materials' = DOMAIN materials
       /\ \A k \in DOMAIN materials : IsMaterial(materials'[k], apps)
  BY <1>1, <1>10, <1>11
<1> QED BY <1>1, <1>9, <1>12, <1>13, RowStep

\* install_material installs in the open application, which is the newest: after
\* every submitted one.
LEMMA InstallKeeps ==
    ASSUME GateInvariant, NEW n \in DOMAIN apps, NEW k \in DOMAIN materials,
           InstallMaterial(k, n)
    PROVE  GateInvariant'
<1> DEFINE m == [materials[k] EXCEPT !.installed = n]
<1>1. /\ IsEditable(apps[n]) /\ ~IsInstalled(k) /\ materials' = [materials EXCEPT ![k] = m]
      /\ UNCHANGED <<apps, line, waivers, requirements, documents>>
  BY DEF InstallMaterial
<1>2. IsSequence(materials) /\ \A j \in DOMAIN materials : IsMaterial(materials[j], apps)
  BY DEF GateInvariant, GateHolds
<1>3. /\ IsMaterial(m, apps) /\ m.value = materials[k].value /\ m.line = materials[k].line
      /\ m.installed = n
  BY <1>2 DEF IsMaterial
<1> HIDE DEF m
<1>4. Replaces(materials', materials, k, m)
  BY <1>1, <1>2, ReplacedElement
<1>5. n = Len(apps) /\ n \in Nat /\ DOMAIN apps = 1..Len(apps)
  BY <1>1, RowFacts
<1>6. /\ DOMAIN materials' = DOMAIN materials
      /\ \A j \in DOMAIN materials : /\ materials'[j].value = materials[j].value
                                     /\ materials'[j].line = materials[j].line
                                     /\ j # k => materials'[j] = materials[j]
      /\ materials'[k].installed = n
  BY <1>3, <1>4 DEF Replaces
<1>7. ASSUME NEW x \in DOMAIN apps
      PROVE  /\ IsApp(apps[x], materials') /\ IsRegistered(x, apps[x], materials')
             /\ IsDocumented(x, apps[x], requirements, documents)
             /\ IsEditable(apps[x]) => x = Len(apps)
  <2> DEFINE a == apps[x]
  <2>1. /\ IsApp(a, materials) /\ IsRegistered(x, a, materials)
        /\ IsDocumented(x, a, requirements, documents)
        /\ IsEditable(a) => x = Len(apps)
    BY RowFacts
  <2>2. IsEditable(a) => ~WasSubmitted(a)
    BY <2>1 DEF IsApp, WasSubmitted
  <2>3. a.counted \in SUBSET DOMAIN materials
    BY <2>1 DEF IsApp
  <2>4. Worth(materials', a.counted) = Worth(materials, a.counted)
    BY <1>2, <1>6, <2>3, WorthIsKept
  <2>5. WasSubmitted(a) => n > x
    <3>1. WasSubmitted(a) => x # n
      BY <1>1, <2>2
    <3> QED BY <1>5, <3>1
  <2> HIDE DEF a
  <2>6. IsApp(a, materials')
    BY <1>6, <2>1 DEF IsApp
  <2>7. IsRegistered(x, a, materials')
    <3>1. a.counted # {} => a.f = Worth(materials', a.counted)
      BY <2>1, <2>4 DEF IsRegistered
    <3>2. \A j \in a.counted : materials'[j].line = a.line
      BY <1>6, <2>1, <2>3 DEF IsRegistered
    <3>3. IsEditable(a) => \A j \in a.counted : materials'[j].installed \in {None, x}
      <4>1. IsEditable(a) => x = n
        BY <1>5, <2>1
      <4> QED BY <1>6, <2>1, <2>3, <4>1 DEF IsRegistered
    <3>4. WasSubmitted(a) /\ (\A j \in a.counted : materials'[j].value >= 0) =>
            \A j \in a.counted :
                materials'[j].installed # None /\ materials'[j].value > 0 =>
                    materials'[j].installed > x
      BY <1>6, <2>1, <2>3, <2>5 DEF IsRegistered
    <3> QED BY <3>1, <3>2, <3>3, <3>4 DEF IsRegistered
  <2> QED BY <2>1, <2>6, <2>7 DEF a
<1>8. \A j \in DOMAIN materials' : IsMaterial(materials'[j], apps)
  BY <1>2, <1>3, <1>4 DEF Replaces
<1>9. GateHolds(apps, materials', waivers, requirements, documents)
  BY <1>4, <1>7, <1>8 DEF GateInvariant, GateHolds, Replaces
<1> QED BY <1>1, <1>9 DEF GateInvariant

\* A waiver asked for early is for a period nobody has submitted yet.
LEMMA RequestKeepsGate ==
    ASSUME GateInvariant, NEW n \in DOMAIN apps, NEW amount \in Amounts,
           NEW through \in OrNone(Days), RequestWaiver(n, amount, through)
    PROVE  GateInvariant'
<1> DEFINE until == IF through = None THEN apps[n].end ELSE through
           w == [app |-> n, amount |-> amount, early |-> IsEditable(apps[n]),
                 through |-> until]
<1>1. waivers' = waivers \cup {w} /\ UNCHANGED <<apps, line, materials, requirements, documents>>
  BY DEF RequestWaiver
<1>2. IsApp(apps[n], materials)
  BY RowFacts
<1>3. amount \in Int /\ until \in Int
  BY <1>2, AmountsAreNumbers DEF AmountsAreNumbers, OrNone, IsApp
<1>4. IsWaiver(w, apps)
  BY <1>2, <1>3 DEF IsWaiver, Fits, IsApp, WasSubmitted
<1> HIDE DEF w
<1>5. GateHolds(apps, materials, waivers', requirements, documents)
  BY <1>1, <1>4 DEF GateInvariant, GateHolds
<1> QED BY <1>1, <1>5 DEF GateInvariant

\* A demand made later is not one an application was submitted under.
LEMMA DemandKeeps ==
    ASSUME GateInvariant, NEW blocks, NEW recurring, AddRequirement(blocks, recurring)
    PROVE  GateInvariant'
<1> DEFINE r == Demanded(blocks, recurring)
<1>1. requirements' = Append(requirements, r) /\ UNCHANGED <<apps, line, materials, waivers, documents>>
  BY DEF AddRequirement
<1> HIDE DEF r
<1>2. Extends(requirements', requirements, r)
  BY <1>1, AppendedElement DEF GateInvariant, GateHolds
<1>3. ASSUME NEW n \in DOMAIN apps
      PROVE  IsDocumented(n, apps[n], requirements', documents)
  <2>1. IsDocumented(n, apps[n], requirements, documents)
    BY RowFacts
  <2>2. DOMAIN requirements \subseteq DOMAIN requirements'
    BY <1>2 DEF Extends
  <2>3. \A k \in DOMAIN requirements : requirements'[k] = requirements[k]
    BY <1>2 DEF Extends
  <2> QED BY <2>1, <2>2, <2>3 DEF IsDocumented
<1>4. GateHolds(apps, materials, waivers, requirements', documents)
  BY <1>2, <1>3 DEF GateInvariant, GateHolds, Extends
<1> QED BY <1>1, <1>4 DEF GateInvariant

\* Documents are only added.
LEMMA FileKeeps ==
    ASSUME GateInvariant, NEW r, NEW n, NEW from, NEW until, FileDocument(r, n, from, until)
    PROVE  GateInvariant'
<1>1. documents \subseteq documents' /\ UNCHANGED <<apps, line, materials, waivers, requirements>>
  BY DEF FileDocument
<1>2. \A k \in DOMAIN apps : IsDocumented(k, apps[k], requirements, documents')
  BY <1>1, RowFacts DEF IsDocumented
<1>3. GateHolds(apps, materials, waivers, requirements, documents')
  BY <1>2 DEF GateInvariant, GateHolds
<1> QED BY <1>1, <1>3 DEF GateInvariant

-----------------------------------------------------------------------------
(* The theorems                                                             *)

\* Nothing is on file in a new project.
LEMMA GateAtFirst == GateInit => GateInvariant
<1> SUFFICES ASSUME GateInit PROVE GateInvariant
  OBVIOUS
<1>1. IsSequence(<<>>) /\ DOMAIN <<>> = {}
  BY DEF IsSequence
<1> QED BY <1>1 DEF GateInit, GateInvariant, GateHolds

\* Every request around the submission keeps the invariant.
LEMMA GateStep == GateInvariant /\ [GateNext]_gateVars => GateInvariant'
<1> SUFFICES ASSUME GateInvariant, [GateNext]_gateVars PROVE GateInvariant'
  OBVIOUS
<1>1. CASE Revise
  <2>1. GateHolds(apps, materials, waivers, requirements, documents)
    BY DEF GateInvariant
  <2> QED BY <1>1, <2>1 DEF Revise, GateInvariant
<1>2. ASSUME NEW n \in DOMAIN apps, NEW value \in Values, AddMaterial(n, value)
      PROVE  GateInvariant'
  BY <1>2, AddMaterialKeeps
<1>3. ASSUME NEW n \in DOMAIN apps, ApplyMaterials(n) PROVE GateInvariant'
  BY <1>3, ApplyKeeps
<1>4. ASSUME NEW n \in DOMAIN apps, NEW k \in DOMAIN materials, InstallMaterial(k, n)
      PROVE  GateInvariant'
  BY <1>4, InstallKeeps
<1>5. CASE OnFile
  BY <1>5, RequestKeepsGate, DemandKeeps, FileKeeps DEF OnFile
<1>6. CASE OpenPeriod
  BY <1>6, OpenKeeps
<1>7. ASSUME NEW n \in DOMAIN apps, NEW e \in Work, NEW f \in Typed \cup {apps[n].f},
             Enter(n, e, f)
      PROVE  GateInvariant'
  BY <1>7, EnterKeeps
<1>8. ASSUME NEW n \in DOMAIN apps, Submit(n) PROVE GateInvariant'
  BY <1>8, SubmitKeeps
<1>9. ASSUME NEW n \in DOMAIN apps,
             (\E amount \in Certificates : Certify(n, amount)) \/ Pay(n) \/ Void(n)
      PROVE  GateInvariant'
  BY <1>9, StatusKeeps
<1>10. CASE UNCHANGED gateVars
  <2>1. GateHolds(apps, materials, waivers, requirements, documents)
    BY DEF GateInvariant
  <2> QED BY <1>10, <2>1 DEF gateVars, GateInvariant
<1>11. Register => GateInvariant'
  BY <1>1, <1>2, <1>3, <1>4 DEF Register
<1>12. Billing => GateInvariant'
  BY <1>6, <1>7, <1>8, <1>9 DEF Billing
<1> QED BY <1>5, <1>10, <1>11, <1>12 DEF GateNext

\* In every reachable state the register, the waivers and the documents fit the
\* applications they were used for.
THEOREM GateInvariantHolds == GateSpec => []GateInvariant
BY GateAtFirst, GateStep, PTL DEF GateSpec

\* What a submitted application took from the register was not rolled into
\* column E in it or before it.
THEOREM NothingIsBilledTwice == GateSpec => []InstalledLeavesColumnF
<1>1. GateInvariant => InstalledLeavesColumnF
  BY RowFacts DEF InstalledLeavesColumnF, IsRegistered, IsInstalled
<1> QED BY <1>1, GateInvariantHolds, PTL

\* A waiver asked for while the period was open fits what was issued.
THEOREM WaiversFit == GateSpec => []EarlyWaiversFitTheRequest
<1>1. GateInvariant => EarlyWaiversFitTheRequest
  BY DEF GateInvariant, GateHolds, IsWaiver, Fits, EarlyWaiversFitTheRequest
<1> QED BY <1>1, GateInvariantHolds, PTL

\* Whatever was demanded of a submitted period stays documented, each recurring
\* demand by a paper of its own.
THEOREM PeriodsStayDocumented == GateSpec => []EveryPeriodIsDocumented
<1>1. GateInvariant => EveryPeriodIsDocumented
  <2> SUFFICES ASSUME GateInvariant,
                      NEW m \in {n \in DOMAIN apps : WasSubmitted(apps[n])},
                      NEW n \in {n \in DOMAIN apps : WasSubmitted(apps[n])},
                      NEW r \in apps[m].required \cap apps[n].required
               PROVE  LET Backing(k) == {doc \in documents : doc.requirement = r
                                                             /\ IsCurrent(doc, apps[k].end)}
                      IN  /\ Backing(m) # {}
                          /\ m # n /\ requirements[r].recurring =>
                                \E one \in Backing(m), other \in Backing(n) : one # other
    BY DEF EveryPeriodIsDocumented
  <2>1. \E doc \in documents : /\ doc.requirement = r
                               /\ requirements[r].recurring => doc.app = m
                               /\ IsCurrent(doc, apps[m].end)
    BY RowFacts DEF IsDocumented
  <2>2. \E doc \in documents : /\ doc.requirement = r
                               /\ requirements[r].recurring => doc.app = n
                               /\ IsCurrent(doc, apps[n].end)
    BY RowFacts DEF IsDocumented
  <2> QED BY <2>1, <2>2
<1> QED BY <1>1, GateInvariantHolds, PTL
=============================================================================
