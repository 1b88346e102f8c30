--------------------------- MODULE WebhooksProofs ---------------------------
(***************************************************************************)
(* Theorems about Webhooks, for any number of subscriptions, changes and    *)
(* drains, any limits and any number of crashes.                            *)
(***************************************************************************)
EXTENDS Webhooks, DataTheorems

-----------------------------------------------------------------------------
(* The inductive invariant                                                  *)

Row == [status: Statuses, attempts: Nat, wait: Never..LongestWait]

Sub == [disabled: BOOLEAN, failures: Nat]

\* What a delivery row says of delivery d, given what was missed and accepted.
\* misses stops counting at MissesCounted, so attempts may pass it.  The attempts
\* of a row that was not delivered are failures that happened.
IsRow(row, d, missed, taken) ==
    /\ row \in Row
    /\ row.wait = Never => Settled(row)
    /\ row.status = "delivered" => d \in taken
    /\ row.status = "abandoned" => missed[d] >= MaxAttempts
    /\ row.status # "delivered" => row.attempts <= missed[d] \/ missed[d] >= MaxAttempts

\* The deliveries to s.
DeliveriesTo(s) == {d \in Delivery : d[2] = s}

MissesTo(s, missed) == SumFunctionOnSet(missed, DeliveriesTo(s))

\* What a subscription row says, given what was missed to it.
IsSub(sub, s, missed) ==
    /\ sub \in Sub
    /\ sub.failures >= DisableAfter => sub.disabled
    /\ sub.disabled => MissesTo(s, missed) >= DisableAfter
    /\ sub.failures <= MissesTo(s, missed) \/ MissesTo(s, missed) >= DisableAfter

\* A row that was due when it was read, and what the drain makes of it: nothing
\* before it is posted, one more attempt after it.
IsHeld(read, mine, waiting) ==
    /\ read.status \in {"pending", "failed"}
    /\ read.attempts \in Nat
    /\ mine.attempts = IF waiting THEN read.attempts ELSE read.attempts + 1
    /\ waiting => mine.status = read.status

\* A drain holds rows that were due, and subscriptions that since then may have
\* been switched off, never on.
IsDrain(session, rows, subs, missed, taken) ==
    /\ session = [batch |-> session.batch, left |-> session.left,
                  read |-> session.read, mine |-> session.mine,
                  readSub |-> session.readSub, mineSub |-> session.mineSub]
    /\ session.batch \subseteq DOMAIN rows
    /\ session.left \subseteq session.batch
    /\ DOMAIN session.mine = session.batch
    /\ \A d \in session.batch :
          /\ IsHeld(session.read[d], session.mine[d], d \in session.left)
          /\ IsRow(session.mine[d], d, missed, taken)
    /\ DOMAIN session.mineSub \subseteq DOMAIN subs
    /\ DOMAIN session.readSub = DOMAIN session.mineSub
    /\ \A s \in DOMAIN session.mineSub :
          /\ session.readSub[s].disabled \in BOOLEAN
          /\ IsSub(session.mineSub[s], s, missed)
          /\ session.readSub[s].disabled =>
                session.mineSub[s].disabled /\ subs[s].disabled

\* The rows themselves.
AreRows(rows, subs, missed, taken) ==
    /\ DOMAIN rows \subseteq Announcements \X DOMAIN subs
    /\ \A d \in DOMAIN rows : IsRow(rows[d], d, missed, taken)

AreSubs(subs, missed) ==
    /\ DOMAIN subs \subseteq Subscriptions \ Unreachable
    /\ \A s \in DOMAIN subs : IsSub(subs[s], s, missed)

\* The rows of an open request are for what it changes.
IsStaged(stage, subs) ==
    /\ stage = [changes |-> stage.changes, rows |-> stage.rows]
    /\ stage.changes \subseteq Changes
    /\ stage.rows \subseteq stage.changes \X DOMAIN subs

\* The inductive invariant.  It speaks of the sessions as well as of the
\* committed rows: a drain writes what it made of rows that another drain has
\* written since.
OutboxInvariant ==
    /\ AreSubs(subscriptions, misses)
    /\ AreRows(deliveries, subscriptions, misses, accepted)
    /\ \A d \in DOMAIN deliveries : d[1] \in made
    /\ IsStaged(staged, subscriptions)
    /\ \A w \in Workers : IsDrain(drains[w], deliveries, subscriptions, misses, accepted)
    /\ drains = [w \in Workers |-> drains[w]]
    /\ misses \in [Delivery -> 0..MissesCounted]

-----------------------------------------------------------------------------
(* Limits and counts                                                        *)

\* The counters stop at a number that both limits have reached.
LEMMA CountedUpTo ==
    /\ MissesCounted \in Nat \ {0} /\ MissesCounted >= MaxAttempts
    /\ MissesCounted >= DisableAfter /\ MaxAttempts \in Nat \ {0} /\ DisableAfter \in Nat \ {0}
<1>1. MaxAttempts \in Nat \ {0} /\ DisableAfter \in Nat \ {0}
  BY SettingsArePositive
<1>2. MissesCounted = CHOOSE x \in {MaxAttempts, DisableAfter} :
                        \A y \in {MaxAttempts, DisableAfter} : x >= y
  BY DEF MissesCounted, Max
<1>3. \E x \in {MaxAttempts, DisableAfter} : \A y \in {MaxAttempts, DisableAfter} : x >= y
  BY <1>1
<1> QED BY <1>1, <1>2, <1>3

\* The lesser of two numbers.
LEMMA LesserOfTwo ==
    \A x, y \in Int : Min({x, y}) = IF x <= y THEN x ELSE y
<1> SUFFICES ASSUME NEW x \in Int, NEW y \in Int
             PROVE  Min({x, y}) = IF x <= y THEN x ELSE y
  OBVIOUS
<1>1. Min({x, y}) = CHOOSE n \in {x, y} : \A m \in {x, y} : n <= m
  BY DEF Min
<1> QED BY <1>1

\* Subsets are counted by powers of two, and there is always the empty one.
LEMMA PowerIsPositive == \A n \in Nat : 2 ^ n \in Nat \ {0}
<1> SUFFICES ASSUME NEW n \in Nat PROVE 2 ^ n \in Nat \ {0}
  OBVIOUS
<1>1. IsFiniteSet(1..n) /\ Cardinality(1..n) = n
  BY FS_Interval
<1>2. IsFiniteSet(SUBSET (1..n)) /\ Cardinality(SUBSET (1..n)) = 2 ^ n
  BY <1>1, FS_SUBSET
<1>3. {} \in SUBSET (1..n)
  OBVIOUS
<1>4. Cardinality(SUBSET (1..n)) # 0
  BY <1>2, <1>3, FS_EmptySet
<1> QED BY <1>2, <1>4, FS_CardinalityType

\* backoff waits a while, and no longer than its cap.
LEMMA BackoffIsCapped ==
    ASSUME NEW n \in Nat
    PROVE  Backoff(n) \in 1..LongestWait
<1>1. Max({0, n - 1}) \in Nat
  <2>1. Max({0, n - 1}) = CHOOSE x \in {0, n - 1} : \A y \in {0, n - 1} : x >= y
    BY DEF Max
  <2>2. \E x \in {0, n - 1} : \A y \in {0, n - 1} : x >= y
    OBVIOUS
  <2> QED BY <2>1, <2>2
<1> DEFINE p == 2 ^ Max({0, n - 1})
<1>2. p \in Nat \ {0} /\ LongestWait \in Nat \ {0}
  BY <1>1, PowerIsPositive, SettingsArePositive
<1>3. Backoff(n) = Min({p, LongestWait})
  BY DEF Backoff
<1> HIDE DEF p
<1> QED BY <1>2, <1>3, LesserOfTwo

\* The deliveries to one subscription are finitely many.
LEMMA DeliveriesAreFinite ==
    ASSUME NEW s
    PROVE  IsFiniteSet(DeliveriesTo(s)) /\ DeliveriesTo(s) \subseteq Delivery
<1>1. IsFiniteSet(Announcements \X {s})
  BY SettingsArePositive, FS_Singleton, FS_Product DEF Announcements
<1>2. DeliveriesTo(s) \subseteq Announcements \X {s}
  BY DEF DeliveriesTo, Delivery
<1> QED BY <1>1, <1>2, FS_Subset DEF DeliveriesTo

Counts == [Delivery -> 0..MissesCounted]

\* How much was missed to a subscription is a number, and grows.
LEMMA PostsGrow ==
    ASSUME NEW s, NEW missed \in Counts, NEW after \in Counts,
           \A d \in Delivery : missed[d] <= after[d]
    PROVE  /\ MissesTo(s, missed) \in Int /\ MissesTo(s, after) \in Int
           /\ MissesTo(s, missed) <= MissesTo(s, after)
<1>1. IsFiniteSet(DeliveriesTo(s)) /\ DeliveriesTo(s) \subseteq Delivery
  BY DeliveriesAreFinite
<1>2. IntegersOn(missed, DeliveriesTo(s)) /\ IntegersOn(after, DeliveriesTo(s))
  BY <1>1 DEF Counts, IntegersOn
<1> QED BY <1>1, <1>2, SumSplits, SumIsMonotone DEF MissesTo

\* after is missed with one more failure of d, if there was one.
Posts(after, missed, d, fails) ==
    /\ after \in Counts
    /\ \A e \in Delivery : missed[e] <= after[e]
    /\ fails => after[d] = missed[d] + 1 \/ after[d] >= MaxAttempts
    /\ fails => \/ MissesTo(d[2], after) = MissesTo(d[2], missed) + 1
                \/ MissesTo(d[2], after) >= DisableAfter

\* A failure is counted, unless the counter has reached both limits.
LEMMA OneMoreMiss ==
    ASSUME NEW missed \in Counts, NEW d \in Delivery, NEW fails
    PROVE  Posts([missed EXCEPT ![d] = Min({@ + 1, MissesCounted})], missed, d, fails)
<1> DEFINE D == DeliveriesTo(d[2])
           n == Min({missed[d] + 1, MissesCounted})
           after == [missed EXCEPT ![d] = n]
<1>1. missed[d] \in 0..MissesCounted /\ missed[d] \in Nat
  BY CountedUpTo DEF Counts
<1>2. n = IF missed[d] + 1 <= MissesCounted THEN missed[d] + 1 ELSE MissesCounted
  BY <1>1, CountedUpTo, LesserOfTwo
<1> HIDE DEF n
<1>3. /\ n \in 0..MissesCounted /\ missed[d] <= n
      /\ n = missed[d] + 1 \/ (n >= MaxAttempts /\ n >= DisableAfter)
  BY <1>1, <1>2, CountedUpTo
<1>4. /\ after \in Counts /\ after[d] = n
      /\ \A e \in Delivery : e # d => after[e] = missed[e]
  BY <1>3 DEF Counts
<1>5. \A e \in Delivery : missed[e] \in Int /\ missed[e] <= missed[e]
                          /\ after[e] \in Int /\ after[e] >= 0
  BY <1>4, CountedUpTo DEF Counts
<1> HIDE DEF after
<1>6. IsFiniteSet(D) /\ D \subseteq Delivery /\ d \in D
  BY DeliveriesAreFinite DEF DeliveriesTo
<1>7. IntegersOn(missed, D) /\ IntegersOn(after, D)
  BY <1>5, <1>6 DEF IntegersOn
<1> DEFINE rest == D \ {d}
           p == SumFunctionOnSet(missed, rest)
           a == SumFunctionOnSet(after, rest)
<1>8. /\ SumFunctionOnSet(missed, D) = missed[d] + p
      /\ SumFunctionOnSet(after, D) = after[d] + a
  BY <1>6, <1>7, SumSplits
<1>9. IsFiniteSet(rest) /\ IntegersOn(missed, rest) /\ IntegersOn(after, rest)
      /\ rest \subseteq Delivery /\ \A e \in rest : after[e] = missed[e]
  BY <1>4, <1>6, <1>7, FS_RemoveElement DEF IntegersOn
<1> HIDE DEF D, rest
<1>10. a = p /\ p \in Int
  BY <1>9, SumOfEquals, SumSplits
<1>11. a >= 0
  <2> DEFINE zero == [e \in rest |-> 0]
  <2>1. SumFunctionOnSet(zero, rest) = 0
    <3>1. \A e \in rest : zero[e] = 0
      OBVIOUS
    <3> HIDE DEF zero
    <3> QED BY <1>9, <3>1, SumOfZeros
  <2>2. IntegersOn(zero, rest) /\ \A e \in rest : zero[e] <= after[e]
    BY <1>5, <1>9 DEF IntegersOn
  <2> HIDE DEF zero
  <2>3. SumFunctionOnSet(zero, rest) <= SumFunctionOnSet(after, rest)
    BY <1>9, <2>2, SumIsMonotone
  <2> QED BY <1>10, <2>1, <2>3
<1> HIDE DEF a, p
<1>12. \/ SumFunctionOnSet(after, D) = SumFunctionOnSet(missed, D) + 1
       \/ SumFunctionOnSet(after, D) >= DisableAfter
  BY <1>1, <1>3, <1>4, <1>8, <1>10, <1>11, CountedUpTo
<1>13. \A e \in Delivery : missed[e] <= after[e]
  BY <1>3, <1>4, <1>5
<1>14. Posts(after, missed, d, fails)
  BY <1>3, <1>4, <1>12, <1>13 DEF Posts, MissesTo, D
<1> QED BY <1>14 DEF after, n

-----------------------------------------------------------------------------
(* Rows                                                                     *)

\* More posts and more acceptances make no row wrong.
LEMMA RowStays ==
    ASSUME NEW row, NEW d \in Delivery, NEW missed \in Counts, NEW after \in Counts,
           NEW taken, NEW later, missed[d] <= after[d], taken \subseteq later,
           IsRow(row, d, missed, taken)
    PROVE  IsRow(row, d, after, later)
<1>1. missed[d] \in Int /\ after[d] \in Int /\ MaxAttempts \in Int
  BY CountedUpTo DEF Counts
<1>2. row.attempts \in Int
  BY DEF IsRow, Row
<1> QED BY <1>1, <1>2 DEF IsRow

\* Nor do they make a subscription row wrong.
LEMMA SubStays ==
    ASSUME NEW sub, NEW s, NEW missed \in Counts, NEW after \in Counts,
           \A d \in Delivery : missed[d] <= after[d], IsSub(sub, s, missed)
    PROVE  IsSub(sub, s, after)
<1> DEFINE p == MissesTo(s, missed)
           a == MissesTo(s, after)
<1>1. p \in Int /\ a \in Int /\ p <= a
  BY PostsGrow
<1>2. DisableAfter \in Int
  BY CountedUpTo
<1>3. /\ sub.failures \in Int /\ (sub.disabled => p >= DisableAfter)
      /\ sub.failures <= p \/ p >= DisableAfter
  BY DEF IsSub, Sub
<1> HIDE DEF p, a
<1>4. (sub.disabled => a >= DisableAfter) /\ (sub.failures <= a \/ a >= DisableAfter)
  BY <1>1, <1>2, <1>3
<1> QED BY <1>4 DEF IsSub, a

\* An attempt leaves a row that says what was missed and what was accepted.
LEMMA AttemptedRow ==
    ASSUME NEW row, NEW d \in Delivery, NEW missed \in Counts, NEW after,
           NEW taken, NEW outcome \in Outcomes, NEW later,
           later = IF outcome = "2xx" THEN taken \cup {d} ELSE taken,
           Posts(after, missed, d, outcome # "2xx"), IsRow(row, d, missed, taken),
           row.status # "delivered"
    PROVE  IsRow(Attempted(row, outcome), d, after, later)
<1> DEFINE tried == row.attempts + 1
<1>1. /\ missed[d] \in Int /\ after[d] \in Int /\ missed[d] <= after[d] /\ MaxAttempts \in Nat \ {0}
      /\ outcome # "2xx" => after[d] = missed[d] + 1 \/ after[d] >= MaxAttempts
  BY CountedUpTo DEF Posts, Counts
<1>2. row.attempts \in Nat /\ (row.attempts <= missed[d] \/ missed[d] >= MaxAttempts)
  BY DEF IsRow, Row
<1>3. tried \in Nat /\ (outcome # "2xx" => tried <= after[d] \/ after[d] >= MaxAttempts)
  BY <1>1, <1>2
<1>4. Never \in Never..LongestWait /\ Never = -1 /\ LongestWait \in Nat
  BY SettingsArePositive DEF Never
<1>5. Backoff(tried) \in Never..LongestWait /\ Backoff(tried) # Never
  BY <1>3, <1>4, BackoffIsCapped
<1> DEFINE wait == Backoff(tried)
<1> HIDE DEF tried, wait
<1>6. CASE outcome = "2xx"
  <2>1. Attempted(row, outcome) = [status |-> "delivered", attempts |-> tried, wait |-> Never]
    BY <1>6 DEF Attempted, Ok, tried
  <2> DEFINE new == [status |-> "delivered", attempts |-> tried, wait |-> Never]
  <2>2. /\ new.status = "delivered" /\ new.attempts = tried /\ new.wait = Never
        /\ new \in Row
    BY <1>3, <1>4 DEF Row, Statuses
  <2>3. d \in later
    BY <1>6
  <2> HIDE DEF new
  <2>4. IsRow(new, d, after, later)
    BY <2>2, <2>3 DEF IsRow, Settled
  <2> QED BY <2>1, <2>4 DEF new
<1>7. CASE outcome # "2xx" /\ tried >= MaxAttempts
  <2>1. Attempted(row, outcome) = [status |-> "abandoned", attempts |-> tried, wait |-> Never]
    BY <1>7 DEF Attempted, Ok, GivesUp, tried
  <2>2. after[d] >= MaxAttempts
    BY <1>1, <1>3, <1>7
  <2> QED BY <1>3, <1>4, <2>1, <2>2 DEF IsRow, Row, Settled, Statuses
<1>8. CASE outcome # "2xx" /\ ~(tried >= MaxAttempts)
  <2>1. Attempted(row, outcome) = [status |-> "failed", attempts |-> tried, wait |-> wait]
    BY <1>8 DEF Attempted, Ok, GivesUp, tried, wait
  <2> QED BY <1>3, <1>5, <1>8, <2>1 DEF IsRow, Row, Statuses, wait
<1> QED BY <1>6, <1>7, <1>8

\* The endpoint after an answer: off with the count it was given, never on again.
LEMMA CountedSub ==
    ASSUME NEW sub, NEW d \in Delivery, NEW missed \in Counts, NEW after,
           NEW outcome \in Outcomes, Posts(after, missed, d, outcome # "2xx"), IsSub(sub, d[2], missed)
    PROVE  /\ IsSub(Counted(sub, outcome), d[2], after)
           /\ sub.disabled => Counted(sub, outcome).disabled
<1> DEFINE p == MissesTo(d[2], missed)
           a == MissesTo(d[2], after)
           failed == IF outcome = "2xx" THEN 0 ELSE sub.failures + 1
           off == sub.disabled \/ (outcome # "2xx" /\ failed >= DisableAfter)
<1>1. p \in Int /\ a \in Int /\ p <= a /\ (outcome # "2xx" => a = p + 1 \/ a >= DisableAfter)
  BY PostsGrow DEF Posts
<1>2. DisableAfter \in Nat \ {0}
  BY CountedUpTo
<1>3. /\ sub.failures \in Nat /\ sub.disabled \in BOOLEAN
      /\ sub.disabled => p >= DisableAfter
      /\ sub.failures <= p \/ p >= DisableAfter
      /\ sub.failures >= DisableAfter => sub.disabled
  BY DEF IsSub, Sub
<1>4. p >= 0
  <2> DEFINE none == [e \in Delivery |-> 0]
  <2>1. none \in Counts /\ \A e \in Delivery : none[e] <= missed[e]
    BY CountedUpTo DEF Counts
  <2>2. MissesTo(d[2], none) = 0
    <3>1. \A e \in DeliveriesTo(d[2]) : none[e] = 0
      BY DeliveriesAreFinite
    <3> HIDE DEF none
    <3> QED BY <3>1, DeliveriesAreFinite, SumOfZeros DEF MissesTo
  <2> HIDE DEF none
  <2> QED BY <2>1, <2>2, PostsGrow
<1>5. Counted(sub, outcome) = [failures |-> failed, disabled |-> off]
  BY DEF Counted, Ok
<1> HIDE DEF p, a
<1>6. /\ failed \in Nat
      /\ failed <= a \/ a >= DisableAfter
      /\ off => a >= DisableAfter
      /\ failed >= DisableAfter => off
  BY <1>1, <1>2, <1>3, <1>4
<1>7. off \in BOOLEAN /\ (sub.disabled => off)
  BY <1>3
<1> HIDE DEF failed, off
<1> QED BY <1>5, <1>6, <1>7 DEF IsSub, Sub, a

\* What a drain writes over a row: columns of its own and columns of the row.
Written(read, mine, row) == [Merged(read, mine, row) EXCEPT !.wait = mine.wait]

\* Two drains on one row: whichever columns win, the row is true.
LEMMA WrittenRow ==
    ASSUME NEW read, NEW mine, NEW row, NEW d, NEW missed, NEW taken,
           IsHeld(read, mine, FALSE),
           IsRow(mine, d, missed, taken), IsRow(row, d, missed, taken)
    PROVE  IsRow(Written(read, mine, row), d, missed, taken)
<1> DEFINE status == IF mine.status # read.status THEN mine.status ELSE row.status
           attempts == IF mine.attempts # read.attempts THEN mine.attempts ELSE row.attempts
<1>1. mine \in Row /\ row \in Row
  BY DEF IsRow
<1>2. row = [status |-> row.status, attempts |-> row.attempts, wait |-> row.wait]
  BY <1>1 DEF Row
<1>3. Written(read, mine, row) = [status |-> status, attempts |-> attempts, wait |-> mine.wait]
  <2> DEFINE wait == IF mine.wait # read.wait THEN mine.wait ELSE row.wait
             merged == Merged(read, mine, row)
             mineWait == mine.wait
  <2>1. merged = [status |-> status, attempts |-> attempts, wait |-> wait]
    BY <1>2 DEF Merged
  <2> HIDE DEF status, attempts, wait, merged, mineWait
  <2>2. [merged EXCEPT !.wait = mineWait] = [status |-> status, attempts |-> attempts, wait |-> mineWait]
    BY <2>1
  <2> QED BY <2>2 DEF Written, merged, mineWait
<1> HIDE DEF status, attempts
<1>4. /\ status \in {mine.status, row.status} /\ attempts = mine.attempts
      /\ mine.status \notin {"pending", "failed"} => status = mine.status
  BY DEF status, attempts, IsHeld
<1> QED BY <1>1, <1>3, <1>4 DEF IsRow, Row, Settled

\* Two drains on one subscription: none switches it on again.
LEMMA MergedSub ==
    ASSUME NEW read, NEW mine, NEW sub, NEW s, NEW missed,
           read.disabled \in BOOLEAN, read.disabled => mine.disabled /\ sub.disabled,
           IsSub(mine, s, missed), IsSub(sub, s, missed)
    PROVE  /\ IsSub(Merged(read, mine, sub), s, missed)
           /\ sub.disabled => Merged(read, mine, sub).disabled
<1> DEFINE failures == IF mine.failures # read.failures THEN mine.failures ELSE sub.failures
           disabled == IF mine.disabled # read.disabled THEN mine.disabled ELSE sub.disabled
<1>1. mine \in Sub /\ sub \in Sub
  BY DEF IsSub
<1>2. sub = [disabled |-> sub.disabled, failures |-> sub.failures]
  BY <1>1 DEF Sub
<1>3. Merged(read, mine, sub) = [disabled |-> disabled, failures |-> failures]
  BY <1>2 DEF Merged
<1>4. mine.disabled \in BOOLEAN /\ sub.disabled \in BOOLEAN
  BY <1>1 DEF Sub
<1>5. disabled = (mine.disabled \/ sub.disabled) /\ disabled \in BOOLEAN
  BY <1>4
<1>6. failures \in {mine.failures, sub.failures}
  OBVIOUS
<1> HIDE DEF failures, disabled
<1> QED BY <1>1, <1>3, <1>4, <1>5, <1>6 DEF IsSub, Sub

\* A minute passes on a row.
OneMinute(row) == [row EXCEPT !.wait = IF @ > 0 THEN @ - 1 ELSE @]

\* A row a minute later is one, and only a settled one has no next attempt.
LEMMA ElapsedRow ==
    ASSUME NEW row, NEW d, NEW missed, NEW taken, IsRow(row, d, missed, taken)
    PROVE  IsRow(OneMinute(row), d, missed, taken)
<1> DEFINE wait == IF row.wait > 0 THEN row.wait - 1 ELSE row.wait
<1>1. row \in Row /\ LongestWait \in Nat
  BY SettingsArePositive DEF IsRow
<1>2. /\ wait \in Never..LongestWait /\ (wait = Never => row.wait = Never)
  BY <1>1 DEF Row, Never
<1>3. row = [status |-> row.status, attempts |-> row.attempts, wait |-> row.wait]
  BY <1>1 DEF Row
<1> HIDE DEF wait
<1>4. OneMinute(row) = [status |-> row.status, attempts |-> row.attempts, wait |-> wait]
  <2>1. OneMinute(row) = [row EXCEPT !.wait = wait]
    BY DEF OneMinute, wait
  <2> QED BY <1>3, <2>1
<1> QED BY <1>1, <1>2, <1>4 DEF IsRow, Row, Settled

-----------------------------------------------------------------------------
(* Drains while others act                                                  *)

\* after follows subs: rows are added, and none is switched on again.
Follows(after, subs) ==
    /\ DOMAIN subs \subseteq DOMAIN after
    /\ \A s \in DOMAIN subs : subs[s].disabled => after[s].disabled

\* A drain stays one when rows are added, posts are made and endpoints are
\* switched off.
LEMMA DrainStays ==
    ASSUME NEW session, NEW rows, NEW subs, NEW missed \in Counts, NEW taken,
           IsDrain(session, rows, subs, missed, taken),
           DOMAIN rows \subseteq Delivery,
           NEW rowsAfter, DOMAIN rows \subseteq DOMAIN rowsAfter,
           NEW subsAfter, Follows(subsAfter, subs),
           NEW after \in Counts, \A d \in Delivery : missed[d] <= after[d],
           NEW later, taken \subseteq later
    PROVE  IsDrain(session, rowsAfter, subsAfter, after, later)
<1>1. session.batch \subseteq Delivery
  BY DEF IsDrain
<1>2. \A d \in session.batch : IsRow(session.mine[d], d, after, later)
  BY <1>1, RowStays DEF IsDrain
<1>3. \A s \in DOMAIN session.mineSub : IsSub(session.mineSub[s], s, after)
  BY SubStays DEF IsDrain
<1> QED BY <1>2, <1>3 DEF IsDrain, Follows

\* A drain that has not begun.
LEMMA IdleDrain ==
    \A rows, subs, missed, taken : IsDrain(Idle, rows, subs, missed, taken)
<1>1. /\ Idle.batch = {} /\ Idle.left = {} /\ Idle.mine = <<>> /\ Idle.read = <<>>
      /\ Idle.readSub = <<>> /\ Idle.mineSub = <<>>
      /\ Idle = [batch |-> {}, left |-> {}, read |-> <<>>, mine |-> <<>>,
                 readSub |-> <<>>, mineSub |-> <<>>]
  BY DEF Idle
<1>2. DOMAIN <<>> = {}
  OBVIOUS
<1> QED BY <1>1, <1>2 DEF IsDrain

\* What the steps that no drain takes leave of the drains.
LEMMA DrainsStay ==
    ASSUME OutboxInvariant, drains' = drains, misses' = misses, accepted' = accepted,
           DOMAIN deliveries \subseteq DOMAIN deliveries',
           Follows(subscriptions', subscriptions)
    PROVE  /\ \A w \in Workers :
                 IsDrain(drains'[w], deliveries', subscriptions', misses', accepted')
           /\ drains' = [w \in Workers |-> drains'[w]]
           /\ misses' \in Counts
<1>1. misses \in Counts /\ \A d \in Delivery : misses[d] <= misses[d]
  <2>1. misses \in Counts
    BY DEF OutboxInvariant, Counts
  <2> QED BY <2>1, CountedUpTo DEF Counts
<1>2. DOMAIN deliveries \subseteq Delivery
  BY DEF OutboxInvariant, AreRows, AreSubs, Delivery
<1>3. ASSUME NEW w \in Workers, NEW rows, rows = deliveries', NEW subs, subs = subscriptions'
      PROVE  IsDrain(drains[w], rows, subs, misses, accepted)
  <2>1. IsDrain(drains[w], deliveries, subscriptions, misses, accepted)
    BY DEF OutboxInvariant
  <2> QED BY <1>1, <1>2, <1>3, <2>1, DrainStays
<1> QED BY <1>1, <1>3 DEF OutboxInvariant

\* Adding rows for new announcements.
LEMMA RowsWith ==
    ASSUME NEW rows, NEW subs, NEW missed \in Counts, NEW taken, AreRows(rows, subs, missed, taken),
           DOMAIN subs \subseteq Subscriptions,
           NEW new, new \subseteq Announcements \X DOMAIN subs
    PROVE  /\ AreRows(WithRows(rows, new), subs, missed, taken)
           /\ DOMAIN WithRows(rows, new) = DOMAIN rows \cup new
<1> DEFINE after == WithRows(rows, new)
<1>1. /\ DOMAIN after = DOMAIN rows \cup new
      /\ \A d \in DOMAIN rows : after[d] = rows[d]
      /\ \A d \in DOMAIN after : d \notin DOMAIN rows => after[d] = Queued
  BY DEF WithRows
<1>2. \A d \in Delivery : IsRow(Queued, d, missed, taken)
  <2>1. LongestWait \in Nat /\ \A d \in Delivery : missed[d] \in Nat
    BY SettingsArePositive, CountedUpTo DEF Counts
  <2> QED BY <2>1 DEF IsRow, Row, Queued, Statuses, Never
<1> HIDE DEF after
<1>3. DOMAIN after \subseteq Announcements \X DOMAIN subs /\ DOMAIN after \subseteq Delivery
  BY <1>1 DEF AreRows, Delivery
<1>4. AreRows(after, subs, missed, taken)
  BY <1>1, <1>2, <1>3 DEF AreRows
<1> QED BY <1>1, <1>4 DEF after

-----------------------------------------------------------------------------
(* The steps                                                                *)

\* The parts of the invariant, as facts about a state.
LEMMA OutboxFacts ==
    ASSUME OutboxInvariant
    PROVE  /\ misses \in Counts /\ DOMAIN deliveries \subseteq Delivery
           /\ DOMAIN subscriptions \subseteq Subscriptions
           /\ \A subs : DOMAIN subs = DOMAIN subscriptions
                        /\ (\A s \in DOMAIN subs : subs[s] = subscriptions[s])
                           => Follows(subs, subscriptions)
  BY DEF OutboxInvariant, AreRows, AreSubs, Delivery, Counts, Follows

\* No row and no session at first.
LEMMA InitOutbox == Init => OutboxInvariant
<1> SUFFICES ASSUME Init PROVE OutboxInvariant
  OBVIOUS
<1>1. DOMAIN <<>> = {}
  OBVIOUS
<1>2. AreSubs(subscriptions, misses) /\ AreRows(deliveries, subscriptions, misses, accepted)
  BY <1>1 DEF Init, AreSubs, AreRows
<1>3. IsStaged(staged, subscriptions)
  BY DEF Init, NoChange, IsStaged
<1>4. \A w \in Workers : drains[w] = Idle
  BY DEF Init
<1>5. misses \in [Delivery -> 0..MissesCounted]
  BY CountedUpTo DEF Init
<1>6. drains = [w \in Workers |-> drains[w]] /\ \A d \in DOMAIN deliveries : d[1] \in made
  BY <1>1 DEF Init
<1> QED BY <1>2, <1>3, <1>4, <1>5, <1>6, IdleDrain DEF OutboxInvariant

\* subscribe: a row of which nothing was missed.
LEMMA SubscribeKeepsOutbox ==
    ASSUME OutboxInvariant, NEW s \in Subscriptions, Subscribe(s)
    PROVE  OutboxInvariant'
<1> DEFINE fresh == [disabled |-> FALSE, failures |-> 0]
           subs == [t \in DOMAIN subscriptions \cup {s} |->
                       IF t = s THEN fresh ELSE subscriptions[t]]
<1>1. /\ s \notin Unreachable /\ s \notin DOMAIN subscriptions /\ subscriptions' = subs
      /\ deliveries' = deliveries /\ made' = made /\ staged' = staged /\ drains' = drains
      /\ misses' = misses /\ accepted' = accepted
  BY DEF Subscribe, posts
<1>2. /\ DOMAIN subs = DOMAIN subscriptions \cup {s} /\ subs[s] = fresh
      /\ \A t \in DOMAIN subscriptions : subs[t] = subscriptions[t]
  BY <1>1
<1>3. misses \in Counts
  BY OutboxFacts
<1>4. IsSub(fresh, s, misses)
  <2> DEFINE none == [e \in Delivery |-> 0]
  <2>1. none \in Counts /\ \A e \in Delivery : none[e] <= misses[e]
    BY <1>3, CountedUpTo DEF Counts
  <2>2. MissesTo(s, none) = 0
    <3>1. \A e \in DeliveriesTo(s) : none[e] = 0
      BY DeliveriesAreFinite
    <3> HIDE DEF none
    <3> QED BY <3>1, DeliveriesAreFinite, SumOfZeros DEF MissesTo
  <2> HIDE DEF none
  <2>3. MissesTo(s, misses) >= 0
    BY <1>3, <2>1, <2>2, PostsGrow
  <2> QED BY <2>3, CountedUpTo DEF IsSub, Sub
<1> HIDE DEF subs, fresh
<1>5. AreSubs(subs, misses)
  BY <1>1, <1>2, <1>4 DEF OutboxInvariant, AreSubs
<1>6. AreRows(deliveries, subs, misses, accepted) /\ IsStaged(staged, subs)
  BY <1>2 DEF OutboxInvariant, AreRows, IsStaged
<1>7. Follows(subs, subscriptions)
  BY <1>2 DEF Follows
<1>8. /\ \A w \in Workers : IsDrain(drains'[w], deliveries', subscriptions', misses', accepted')
      /\ drains' = [w \in Workers |-> drains'[w]]
  BY <1>1, <1>7, DrainsStay
<1> QED BY <1>1, <1>5, <1>6, <1>8 DEF OutboxInvariant

\* What a request announces stays in its session until it commits.
LEMMA AnnounceKeepsOutbox ==
    ASSUME OutboxInvariant, NEW c \in Changes, Announce(c)
    PROVE  OutboxInvariant'
<1>1. /\ staged' = [changes |-> staged.changes \cup {c}, rows |-> staged.rows \cup Emitted(c)]
      /\ UNCHANGED <<subscriptions, deliveries, made, drains, misses, accepted>>
  BY DEF Announce, posts
<1>2. Emitted(c) \subseteq {c} \X DOMAIN subscriptions
  BY DEF Emitted
<1>3. IsStaged(staged', subscriptions)
  <2>1. IsStaged(staged, subscriptions)
    BY DEF OutboxInvariant
  <2> QED BY <1>1, <1>2, <2>1 DEF IsStaged
<1> QED BY <1>1, <1>3 DEF OutboxInvariant

\* The commit of a request makes its changes and its rows together.
LEMMA CommitKeepsOutbox ==
    ASSUME OutboxInvariant, CommitRequest
    PROVE  OutboxInvariant'
<1>1. /\ made' = made \cup staged.changes /\ deliveries' = WithRows(deliveries, staged.rows)
      /\ staged' = NoChange
      /\ subscriptions' = subscriptions /\ drains' = drains /\ misses' = misses
      /\ accepted' = accepted
  BY DEF CommitRequest, posts
<1>2. staged.rows \subseteq Announcements \X DOMAIN subscriptions
      /\ \A d \in staged.rows : d[1] \in staged.changes
  BY DEF OutboxInvariant, IsStaged, Announcements
<1>3. AreRows(deliveries', subscriptions, misses, accepted)
      /\ DOMAIN deliveries' = DOMAIN deliveries \cup staged.rows
  BY <1>1, <1>2, RowsWith, OutboxFacts DEF OutboxInvariant
<1>4. \A d \in DOMAIN deliveries' : d[1] \in made'
  BY <1>1, <1>2, <1>3 DEF OutboxInvariant
<1>5. IsStaged(NoChange, subscriptions)
  BY DEF NoChange, IsStaged
<1>6. Follows(subscriptions', subscriptions) /\ DOMAIN deliveries \subseteq DOMAIN deliveries'
  BY <1>1, <1>3 DEF Follows
<1>7. /\ \A w \in Workers : IsDrain(drains'[w], deliveries', subscriptions', misses', accepted')
      /\ drains' = [w \in Workers |-> drains'[w]]
  BY <1>1, <1>6, DrainsStay
<1> QED BY <1>1, <1>3, <1>4, <1>5, <1>7 DEF OutboxInvariant

\* A request that is rolled back leaves nothing.
LEMMA RollbackKeepsOutbox ==
    ASSUME OutboxInvariant, RollbackRequest
    PROVE  OutboxInvariant'
<1>1. /\ staged' = NoChange
      /\ UNCHANGED <<subscriptions, deliveries, made, drains, misses, accepted>>
  BY DEF RollbackRequest, posts
<1>2. IsStaged(NoChange, subscriptions)
  BY DEF NoChange, IsStaged
<1> QED BY <1>1, <1>2 DEF OutboxInvariant

\* The sweep commits what it announces.
LEMMA SweepKeepsOutbox ==
    ASSUME OutboxInvariant, NEW a \in Drafts, SweepOpenPeriods(a)
    PROVE  OutboxInvariant'
<1>1. /\ made' = made \cup {a} /\ deliveries' = WithRows(deliveries, Emitted(a))
      /\ subscriptions' = subscriptions /\ drains' = drains /\ misses' = misses
      /\ accepted' = accepted /\ staged' = staged
  BY DEF SweepOpenPeriods, CheckAndAnnounce, posts
<1>2. Emitted(a) \subseteq {a} \X DOMAIN subscriptions /\ a \in Announcements
  BY DEF Emitted, Announcements
<1>3. Emitted(a) \subseteq Announcements \X DOMAIN subscriptions
  BY <1>2
<1>4. AreRows(deliveries', subscriptions, misses, accepted)
      /\ DOMAIN deliveries' = DOMAIN deliveries \cup Emitted(a)
  BY <1>1, <1>3, RowsWith, OutboxFacts DEF OutboxInvariant
<1>5. \A d \in DOMAIN deliveries' : d[1] \in made'
  BY <1>1, <1>2, <1>4 DEF OutboxInvariant
<1>6. Follows(subscriptions', subscriptions) /\ DOMAIN deliveries \subseteq DOMAIN deliveries'
  BY <1>1, <1>4 DEF Follows
<1>7. /\ \A w \in Workers : IsDrain(drains'[w], deliveries', subscriptions', misses', accepted')
      /\ drains' = [w \in Workers |-> drains'[w]]
  BY <1>1, <1>6, DrainsStay
<1> QED BY <1>1, <1>4, <1>5, <1>7 DEF OutboxInvariant

\* A drain takes rows that are due.
LEMMA BeginKeepsOutbox ==
    ASSUME OutboxInvariant, NEW w \in Workers, Begin(w)
    PROVE  OutboxInvariant'
<1>1. PICK batch \in SUBSET Due :
         LET rows == [d \in batch |-> deliveries[d]]
         IN  drains' = [drains EXCEPT ![w] =
                 [Idle EXCEPT !.batch = batch, !.left = batch, !.read = rows, !.mine = rows]]
  BY DEF Begin, posts
<1>2. UNCHANGED <<subscriptions, deliveries, made, staged, misses, accepted>>
  BY DEF Begin, posts
<1> DEFINE rows == [d \in batch |-> deliveries[d]]
           session == [batch |-> batch, left |-> batch, read |-> rows, mine |-> rows,
                       readSub |-> <<>>, mineSub |-> <<>>]
<1>3. DOMAIN rows = batch /\ \A d \in batch : rows[d] = deliveries[d]
  OBVIOUS
<1>4. drains' = [drains EXCEPT ![w] = session]
  <2> HIDE DEF rows
  <2>1. [Idle EXCEPT !.batch = batch, !.left = batch, !.read = rows, !.mine = rows] = session
    <3> DEFINE begun == [Idle EXCEPT !.batch = batch, !.left = batch, !.read = rows, !.mine = rows]
               nothing == <<>>
    <3>1. begun = [Idle EXCEPT !.batch = batch, !.left = batch, !.read = rows, !.mine = rows]
      OBVIOUS
    <3> HIDE DEF begun, nothing
    <3>2. Idle = [batch |-> {}, left |-> {}, read |-> nothing, mine |-> nothing,
                  readSub |-> nothing, mineSub |-> nothing]
      BY DEF Idle, nothing
    <3>3. begun = [batch |-> batch, left |-> batch, read |-> rows, mine |-> rows,
                   readSub |-> nothing, mineSub |-> nothing]
      BY <3>1, <3>2
    <3> QED BY <3>1, <3>3 DEF nothing
  <2> HIDE DEF session
  <2> QED BY <1>1, <2>1 DEF rows
<1>5. DOMAIN <<>> = {} /\ batch \subseteq DOMAIN deliveries
      /\ \A d \in batch : deliveries[d].status \in {"pending", "failed"}
  BY DEF Due
<1>6. \A d \in DOMAIN deliveries : IsRow(deliveries[d], d, misses, accepted)
  BY DEF OutboxInvariant, AreRows
<1> HIDE DEF rows
<1>7. /\ session.batch = batch /\ session.left = batch /\ session.read = rows
      /\ session.mine = rows /\ session.readSub = <<>> /\ session.mineSub = <<>>
      /\ session = [batch |-> session.batch, left |-> session.left,
                    read |-> session.read, mine |-> session.mine,
                    readSub |-> session.readSub, mineSub |-> session.mineSub]
  OBVIOUS
<1> HIDE DEF session
<1>8. \A d \in batch : IsHeld(rows[d], rows[d], TRUE) /\ IsRow(rows[d], d, misses, accepted)
  BY <1>3, <1>5, <1>6 DEF IsHeld, IsRow, Row
<1>9. IsDrain(session, deliveries, subscriptions, misses, accepted)
  <2>1. \A d \in session.batch :
           /\ IsHeld(session.read[d], session.mine[d], d \in session.left)
           /\ IsRow(session.mine[d], d, misses, accepted)
    <3> SUFFICES ASSUME NEW d \in batch
                 PROVE  IsHeld(rows[d], rows[d], d \in batch) /\ IsRow(rows[d], d, misses, accepted)
      BY <1>7
    <3>1. (d \in batch) = TRUE
      OBVIOUS
    <3> QED BY <1>8, <3>1
  <2> QED BY <1>3, <1>5, <1>7, <2>1 DEF IsDrain
<1>10. /\ \A v \in Workers : IsDrain(drains'[v], deliveries, subscriptions, misses, accepted)
       /\ drains' = [v \in Workers |-> drains'[v]]
  BY <1>4, <1>9 DEF OutboxInvariant
<1> QED BY <1>2, <1>10 DEF OutboxInvariant

\* A drain that dies leaves the rows as they were.
LEMMA CrashKeepsOutbox ==
    ASSUME OutboxInvariant, NEW w \in Workers, Crash(w)
    PROVE  OutboxInvariant'
<1>1. drains' = [drains EXCEPT ![w] = Idle]
      /\ UNCHANGED <<subscriptions, deliveries, made, staged, misses, accepted>>
  BY DEF Crash, posts
<1>2. /\ \A v \in Workers : IsDrain(drains'[v], deliveries, subscriptions, misses, accepted)
      /\ drains' = [v \in Workers |-> drains'[v]]
  BY <1>1, IdleDrain DEF OutboxInvariant
<1> QED BY <1>1, <1>2 DEF OutboxInvariant

\* A post: the row the drain holds, and the count of its endpoint.
LEMMA SendKeepsOutbox ==
    ASSUME OutboxInvariant, NEW w \in Workers, NEW d \in Delivery, NEW outcome \in Outcomes,
           Send(w, d, outcome)
    PROVE  OutboxInvariant'
<1> DEFINE s == d[2]
           old == drains[w]
           loaded == Loaded(old.mineSub, s, subscriptions[s])
           mine == [old.mine EXCEPT ![d] = Attempted(old.mine[d], outcome)]
           readSub == Loaded(old.readSub, s, subscriptions[s])
           mineSub == [loaded EXCEPT ![s] = Counted(loaded[s], outcome)]
           session == [old EXCEPT !.left = old.left \ {d}, !.mine = mine,
                                  !.readSub = readSub, !.mineSub = mineSub]
<1>1. /\ d \in old.left
      /\ drains' = [drains EXCEPT ![w] = session]
      /\ misses' = IF outcome = "2xx" THEN misses
                   ELSE [misses EXCEPT ![d] = Min({@ + 1, MissesCounted})]
      /\ accepted' = IF outcome = "2xx" THEN accepted \cup {d} ELSE accepted
      /\ subscriptions' = subscriptions /\ deliveries' = deliveries
      /\ made' = made /\ staged' = staged
  BY DEF Send, Witness
<1>2. misses \in Counts /\ DOMAIN deliveries \subseteq Delivery
  BY OutboxFacts
<1>3. Posts(misses', misses, d, outcome # "2xx")
  <2>1. CASE outcome = "2xx"
    BY <1>1, <1>2, <2>1, CountedUpTo DEF Posts, Counts
  <2>2. CASE outcome # "2xx"
    BY <1>1, <1>2, <2>2, OneMoreMiss
  <2> QED BY <2>1, <2>2
<1>4. misses' \in Counts /\ \A e \in Delivery : misses[e] <= misses'[e]
  BY <1>3 DEF Posts
<1>5. accepted \subseteq accepted'
  BY <1>1
<1>6. Follows(subscriptions, subscriptions)
  BY OutboxFacts
<1>7. \A v \in Workers : IsDrain(drains[v], deliveries, subscriptions, misses', accepted')
  <2> SUFFICES ASSUME NEW v \in Workers, NEW after, after = misses', NEW later, later = accepted'
               PROVE  IsDrain(drains[v], deliveries, subscriptions, after, later)
    OBVIOUS
  <2>1. IsDrain(drains[v], deliveries, subscriptions, misses, accepted)
    BY DEF OutboxInvariant
  <2> QED BY <1>2, <1>4, <1>5, <1>6, <2>1, DrainStays
<1>8. AreRows(deliveries, subscriptions, misses', accepted')
  <2> SUFFICES ASSUME NEW e \in DOMAIN deliveries, NEW after, after = misses',
                      NEW later, later = accepted'
               PROVE  IsRow(deliveries[e], e, after, later)
    BY DEF OutboxInvariant, AreRows
  <2>1. IsRow(deliveries[e], e, misses, accepted)
    BY DEF OutboxInvariant, AreRows
  <2> QED BY <1>2, <1>4, <1>5, <2>1, RowStays
<1>9. AreSubs(subscriptions, misses')
  <2> SUFFICES ASSUME NEW t \in DOMAIN subscriptions, NEW after, after = misses'
               PROVE  IsSub(subscriptions[t], t, after)
    BY DEF OutboxInvariant, AreSubs
  <2>1. IsSub(subscriptions[t], t, misses)
    BY DEF OutboxInvariant, AreSubs
  <2> QED BY <1>2, <1>4, <2>1, SubStays
<1>10. IsDrain(old, deliveries, subscriptions, misses, accepted)
  BY DEF OutboxInvariant
<1>11. IsDrain(old, deliveries, subscriptions, misses', accepted')
  BY <1>7
<1> HIDE DEF old
<1>12. d \in old.batch /\ d \in DOMAIN old.mine /\ s \in DOMAIN subscriptions
  BY <1>1, <1>10 DEF IsDrain, OutboxInvariant, AreRows
<1>13. /\ session.batch = old.batch /\ session.left = old.left \ {d} /\ session.read = old.read
       /\ session.mine = mine /\ session.readSub = readSub /\ session.mineSub = mineSub
       /\ session = [batch |-> session.batch, left |-> session.left,
                     read |-> session.read, mine |-> session.mine,
                     readSub |-> session.readSub, mineSub |-> session.mineSub]
  <2> DEFINE b == old.batch
             l == old.left
             r == old.read
             m == old.mine
             rs == old.readSub
             ms == old.mineSub
             rest == l \ {d}
  <2>1. old = [batch |-> b, left |-> l, read |-> r, mine |-> m, readSub |-> rs, mineSub |-> ms]
    BY <1>10 DEF IsDrain
  <2>2. session = [old EXCEPT !.left = rest, !.mine = mine, !.readSub = readSub,
                              !.mineSub = mineSub]
    OBVIOUS
  <2> HIDE DEF session, mine, readSub, mineSub, b, l, r, m, rs, ms, rest
  <2>3. session = [batch |-> b, left |-> rest, read |-> r, mine |-> mine,
                   readSub |-> readSub, mineSub |-> mineSub]
    BY <2>1, <2>2
  <2> QED BY <2>3 DEF b, l, r, rest
<1>14. \A e \in old.batch : IsRow(mine[e], e, misses', accepted') /\ DOMAIN mine = old.batch
  <2>1. DOMAIN mine = old.batch /\ mine[d] = Attempted(old.mine[d], outcome)
        /\ \A e \in old.batch : e # d => mine[e] = old.mine[e]
    BY <1>10, <1>12 DEF IsDrain
  <2>2. ASSUME NEW after, after = misses', NEW later, later = accepted'
        PROVE  IsRow(Attempted(old.mine[d], outcome), d, after, later)
    <3>1. IsRow(old.mine[d], d, misses, accepted) /\ IsHeld(old.read[d], old.mine[d], TRUE)
      BY <1>1, <1>10, <1>12 DEF IsDrain, IsHeld
    <3>2. old.mine[d].status # "delivered"
      BY <3>1 DEF IsHeld
    <3> QED BY <1>1, <1>2, <1>3, <2>2, <3>1, <3>2, AttemptedRow
  <2>3. \A e \in old.batch : IsRow(old.mine[e], e, misses', accepted')
    BY <1>11 DEF IsDrain
  <2> HIDE DEF mine
  <2> QED BY <2>1, <2>2, <2>3
<1>15. /\ DOMAIN readSub = DOMAIN mineSub
       /\ DOMAIN mineSub \subseteq DOMAIN subscriptions
       /\ mineSub[s] = Counted(loaded[s], outcome)
       /\ IsSub(loaded[s], s, misses)
       /\ readSub[s].disabled \in BOOLEAN
       /\ readSub[s].disabled => loaded[s].disabled /\ subscriptions[s].disabled
       /\ \A t \in DOMAIN mineSub : t # s =>
             /\ t \in DOMAIN old.mineSub
             /\ mineSub[t] = old.mineSub[t] /\ readSub[t] = old.readSub[t]
  <2>1. DOMAIN old.readSub = DOMAIN old.mineSub /\ DOMAIN old.mineSub \subseteq DOMAIN subscriptions
    BY <1>10 DEF IsDrain
  <2>2. /\ DOMAIN loaded = DOMAIN old.mineSub \cup {s}
        /\ DOMAIN readSub = DOMAIN old.mineSub \cup {s}
        /\ \A t \in DOMAIN old.mineSub : loaded[t] = old.mineSub[t] /\ readSub[t] = old.readSub[t]
        /\ s \notin DOMAIN old.mineSub => loaded[s] = subscriptions[s] /\ readSub[s] = subscriptions[s]
    BY <2>1 DEF Loaded
  <2>3. /\ IsSub(subscriptions[s], s, misses)
        /\ subscriptions[s].disabled \in BOOLEAN
    BY <1>12 DEF OutboxInvariant, AreSubs, IsSub, Sub
  <2>4. s \in DOMAIN old.mineSub =>
          /\ IsSub(old.mineSub[s], s, misses)
          /\ old.readSub[s].disabled \in BOOLEAN
          /\ old.readSub[s].disabled => old.mineSub[s].disabled /\ subscriptions[s].disabled
    BY <1>10 DEF IsDrain
  <2> HIDE DEF loaded, readSub
  <2>5. /\ DOMAIN mineSub = DOMAIN loaded /\ mineSub[s] = Counted(loaded[s], outcome)
        /\ \A t \in DOMAIN loaded : t # s => mineSub[t] = loaded[t]
    BY <2>2
  <2> HIDE DEF mineSub
  <2> QED BY <1>12, <2>1, <2>2, <2>3, <2>4, <2>5
<1>16. /\ IsSub(mineSub[s], s, misses')
       /\ loaded[s].disabled => mineSub[s].disabled
  <2> SUFFICES ASSUME NEW after, after = misses'
               PROVE  /\ IsSub(Counted(loaded[s], outcome), s, after)
                      /\ loaded[s].disabled => Counted(loaded[s], outcome).disabled
    BY <1>15
  <2> HIDE DEF loaded
  <2> QED BY <1>2, <1>3, <1>15, CountedSub
<1>17. /\ mine[d].attempts = old.mine[d].attempts + 1
       /\ \A e \in old.batch : e # d => mine[e] = old.mine[e]
  <2>1. /\ mine[d] = Attempted(old.mine[d], outcome)
        /\ \A e \in old.batch : e # d => mine[e] = old.mine[e]
    BY <1>10, <1>12 DEF IsDrain
  <2>2. \A row : Attempted(row, outcome).attempts = row.attempts + 1
    BY DEF Attempted
  <2> QED BY <2>1, <2>2
<1> HIDE DEF mine, readSub, mineSub, loaded, session, s
<1>18. IsDrain(session, deliveries, subscriptions, misses', accepted')
  <2>1. session.batch \subseteq DOMAIN deliveries /\ session.left \subseteq session.batch
        /\ DOMAIN session.mine = session.batch
    BY <1>10, <1>12, <1>13, <1>14 DEF IsDrain
  <2>2. ASSUME NEW e \in session.batch
        PROVE  /\ IsHeld(session.read[e], session.mine[e], e \in session.left)
               /\ IsRow(session.mine[e], e, misses', accepted')
    <3>1. IsHeld(old.read[e], old.mine[e], e \in old.left)
      BY <1>10, <1>13 DEF IsDrain
    <3>2. CASE e = d
      BY <1>1, <1>13, <1>14, <1>17, <3>1, <3>2 DEF IsHeld
    <3>3. CASE e # d
      BY <1>13, <1>14, <1>17, <3>1, <3>3 DEF IsHeld
    <3> QED BY <3>2, <3>3
  <2>3. ASSUME NEW t \in DOMAIN mineSub
        PROVE  /\ readSub[t].disabled \in BOOLEAN
               /\ IsSub(mineSub[t], t, misses')
               /\ readSub[t].disabled => mineSub[t].disabled /\ subscriptions[t].disabled
    <3>1. CASE t = s
      BY <1>15, <1>16, <3>1
    <3>2. CASE t # s
      BY <1>11, <1>15, <3>2 DEF IsDrain
    <3> QED BY <3>1, <3>2
  <2> QED BY <1>13, <1>15, <2>1, <2>2, <2>3 DEF IsDrain
<1>19. /\ \A v \in Workers : IsDrain(drains'[v], deliveries, subscriptions, misses', accepted')
       /\ drains' = [v \in Workers |-> drains'[v]]
  BY <1>1, <1>7, <1>18 DEF OutboxInvariant
<1> QED BY <1>1, <1>4, <1>8, <1>9, <1>19 DEF OutboxInvariant, Counts

\* The commit of a drain, over whatever other drains have committed since.
LEMMA CommitDrainKeepsOutbox ==
    ASSUME OutboxInvariant, NEW w \in Workers, CommitDrain(w)
    PROVE  OutboxInvariant'
<1> DEFINE old == drains[w]
           rows == [d \in DOMAIN deliveries |->
                      IF d \in old.batch THEN Written(old.read[d], old.mine[d], deliveries[d])
                      ELSE deliveries[d]]
           subs == [s \in DOMAIN subscriptions |->
                      IF s \in DOMAIN old.mineSub
                      THEN Merged(old.readSub[s], old.mineSub[s], subscriptions[s])
                      ELSE subscriptions[s]]
<1>1. /\ old.left = {} /\ deliveries' = rows /\ subscriptions' = subs
      /\ drains' = [drains EXCEPT ![w] = Idle]
      /\ UNCHANGED <<made, staged, misses, accepted>>
  BY DEF CommitDrain, Written, posts
<1>2. IsDrain(old, deliveries, subscriptions, misses, accepted)
  BY DEF OutboxInvariant
<1> HIDE DEF old
<1>3. misses \in Counts /\ DOMAIN deliveries \subseteq Delivery
  BY OutboxFacts
<1>4. /\ DOMAIN rows = DOMAIN deliveries /\ DOMAIN subs = DOMAIN subscriptions
      /\ \A d \in DOMAIN deliveries : rows[d] =
            IF d \in old.batch THEN Written(old.read[d], old.mine[d], deliveries[d])
            ELSE deliveries[d]
      /\ \A s \in DOMAIN subscriptions : subs[s] =
            IF s \in DOMAIN old.mineSub
            THEN Merged(old.readSub[s], old.mineSub[s], subscriptions[s])
            ELSE subscriptions[s]
  OBVIOUS
<1> HIDE DEF rows, subs
<1>5. ASSUME NEW d \in DOMAIN deliveries PROVE IsRow(rows[d], d, misses, accepted)
  <2>1. IsRow(deliveries[d], d, misses, accepted)
    BY DEF OutboxInvariant, AreRows
  <2>2. CASE d \in old.batch
    <3>1. /\ IsHeld(old.read[d], old.mine[d], FALSE)
          /\ IsRow(old.mine[d], d, misses, accepted)
      BY <1>1, <1>2, <2>2 DEF IsDrain, IsHeld
    <3>2. IsRow(Written(old.read[d], old.mine[d], deliveries[d]), d, misses, accepted)
      BY <2>1, <3>1, WrittenRow
    <3> QED BY <1>4, <2>2, <3>2
  <2>3. CASE d \notin old.batch
    BY <1>4, <2>1, <2>3
  <2> QED BY <2>2, <2>3
<1>6. ASSUME NEW s \in DOMAIN subscriptions
      PROVE  /\ IsSub(subs[s], s, misses)
             /\ subscriptions[s].disabled => subs[s].disabled
  <2>1. IsSub(subscriptions[s], s, misses)
    BY DEF OutboxInvariant, AreSubs
  <2>2. CASE s \in DOMAIN old.mineSub
    <3>1. /\ old.readSub[s].disabled \in BOOLEAN
          /\ IsSub(old.mineSub[s], s, misses)
          /\ old.readSub[s].disabled => old.mineSub[s].disabled /\ subscriptions[s].disabled
      BY <1>2, <2>2 DEF IsDrain
    <3> QED BY <1>4, <2>1, <2>2, <3>1, MergedSub
  <2>3. CASE s \notin DOMAIN old.mineSub
    BY <1>4, <2>1, <2>3
  <2> QED BY <2>2, <2>3
<1>7. AreRows(rows, subs, misses, accepted)
  BY <1>4, <1>5 DEF OutboxInvariant, AreRows
<1>8. AreSubs(subs, misses) /\ Follows(subs, subscriptions)
  BY <1>4, <1>6 DEF OutboxInvariant, AreSubs, Follows
<1>9. IsStaged(staged, subs)
  BY <1>4 DEF OutboxInvariant, IsStaged
<1>10. \A v \in Workers : IsDrain(drains[v], rows, subs, misses, accepted)
  <2> SUFFICES ASSUME NEW v \in Workers PROVE IsDrain(drains[v], rows, subs, misses, accepted)
    OBVIOUS
  <2>1. IsDrain(drains[v], deliveries, subscriptions, misses, accepted)
    BY DEF OutboxInvariant
  <2>2. DOMAIN deliveries \subseteq DOMAIN rows /\ \A d \in Delivery : misses[d] <= misses[d]
    BY <1>3, <1>4, CountedUpTo DEF Counts
  <2> QED BY <1>3, <1>8, <2>1, <2>2, DrainStays
<1>11. /\ \A v \in Workers : IsDrain(drains'[v], rows, subs, misses, accepted)
       /\ drains' = [v \in Workers |-> drains'[v]]
  BY <1>1, <1>10, IdleDrain DEF OutboxInvariant
<1>12. \A d \in DOMAIN rows : d[1] \in made
  BY <1>4 DEF OutboxInvariant
<1> QED BY <1>1, <1>7, <1>8, <1>9, <1>11, <1>12 DEF OutboxInvariant

\* A minute passes on the committed rows and on those in a session.
LEMMA TickKeepsOutbox ==
    ASSUME OutboxInvariant, Tick
    PROVE  OutboxInvariant'
<1>1. /\ deliveries' = Elapsed(deliveries)
      /\ drains' = [w \in Workers |-> [drains[w] EXCEPT !.mine = Elapsed(drains[w].mine)]]
      /\ UNCHANGED <<subscriptions, made, staged, misses, accepted>>
  BY DEF Tick, posts
<1>2. \A rows : /\ DOMAIN Elapsed(rows) = DOMAIN rows
                /\ \A d \in DOMAIN rows : Elapsed(rows)[d] = OneMinute(rows[d])
  BY DEF Elapsed, OneMinute
<1>3. AreRows(deliveries', subscriptions, misses, accepted)
  <2>1. \A d \in DOMAIN deliveries : IsRow(OneMinute(deliveries[d]), d, misses, accepted)
    BY ElapsedRow DEF OutboxInvariant, AreRows
  <2> QED BY <1>1, <1>2, <2>1 DEF OutboxInvariant, AreRows
<1>4. ASSUME NEW w \in Workers
      PROVE  IsDrain(drains'[w], deliveries', subscriptions, misses, accepted)
  <2> DEFINE old == drains[w]
             mine == Elapsed(old.mine)
             b == old.batch
             l == old.left
             r == old.read
             rs == old.readSub
             ms == old.mineSub
             session == [batch |-> b, left |-> l, read |-> r, mine |-> mine,
                         readSub |-> rs, mineSub |-> ms]
  <2>1. IsDrain(old, deliveries, subscriptions, misses, accepted)
    BY DEF OutboxInvariant
  <2>2. drains'[w] = [old EXCEPT !.mine = mine]
    BY <1>1
  <2> HIDE DEF old
  <2>3. DOMAIN mine = old.batch
        /\ \A d \in old.batch : IsRow(mine[d], d, misses, accepted)
    BY <1>2, <2>1, ElapsedRow DEF IsDrain
  <2>4. old = [batch |-> b, left |-> l, read |-> r, mine |-> old.mine,
               readSub |-> rs, mineSub |-> ms]
    BY <2>1 DEF IsDrain
  <2> HIDE DEF mine, b, l, r, rs, ms
  <2>5. [old EXCEPT !.mine = mine] = session
    <3> DEFINE was == old.mine
    <3> HIDE DEF was
    <3>1. old = [batch |-> b, left |-> l, read |-> r, mine |-> was, readSub |-> rs, mineSub |-> ms]
      BY <2>4 DEF was
    <3> QED BY <3>1
  <2>6. /\ session.batch = b /\ session.left = l /\ session.read = r /\ session.mine = mine
        /\ session.readSub = rs /\ session.mineSub = ms
        /\ session = [batch |-> session.batch, left |-> session.left,
                      read |-> session.read, mine |-> session.mine,
                      readSub |-> session.readSub, mineSub |-> session.mineSub]
    OBVIOUS
  <2> HIDE DEF session
  <2>7. DOMAIN deliveries' = DOMAIN deliveries
    BY <1>1, <1>2
  <2>8. \A d \in b : IsHeld(r[d], mine[d], d \in l)
    <3>1. \A d \in b : IsHeld(r[d], old.mine[d], d \in l) /\ old.mine[d] \in Row
      BY <2>1 DEF IsDrain, IsRow, b, l, r
    <3>2. \A row \in Row : OneMinute(row).status = row.status /\ OneMinute(row).attempts = row.attempts
      BY DEF OneMinute, Row
    <3>3. \A d \in b : mine[d] = OneMinute(old.mine[d])
      BY <1>2, <2>1 DEF IsDrain, mine, b
    <3> QED BY <3>1, <3>2, <3>3 DEF IsHeld
  <2>9. IsDrain(session, deliveries', subscriptions, misses, accepted)
    BY <2>1, <2>3, <2>6, <2>7, <2>8 DEF IsDrain, b, l, r, rs, ms
  <2> QED BY <2>2, <2>5, <2>9
<1>5. drains' = [w \in Workers |-> drains'[w]]
  BY <1>1
<1>6. \A d \in DOMAIN deliveries' : d[1] \in made
  BY <1>1, <1>2 DEF OutboxInvariant
<1> QED BY <1>1, <1>3, <1>4, <1>5, <1>6 DEF OutboxInvariant

-----------------------------------------------------------------------------
(* The theorems                                                             *)

\* Every step keeps the invariant.
LEMMA NextKeepsOutbox ==
    ASSUME OutboxInvariant, [Next]_vars
    PROVE  OutboxInvariant'
<1>1. CASE UNCHANGED vars
  BY <1>1 DEF vars, posts, OutboxInvariant
<1>2. ASSUME NEW w \in Workers, Step(w) PROVE OutboxInvariant'
  BY <1>2, BeginKeepsOutbox, SendKeepsOutbox, CommitDrainKeepsOutbox DEF Step
<1> QED BY <1>1, <1>2, SubscribeKeepsOutbox, AnnounceKeepsOutbox, CommitKeepsOutbox,
           RollbackKeepsOutbox, SweepKeepsOutbox, CrashKeepsOutbox, TickKeepsOutbox DEF Next

\* The inductive invariant holds in every state, whatever drains overlap, die or
\* write over each other.
THEOREM OutboxInvariantHolds == Spec => []OutboxInvariant
<1>1. Init => OutboxInvariant
  BY InitOutbox
<1>2. OutboxInvariant /\ [Next]_vars => OutboxInvariant'
  BY NextKeepsOutbox
<1> QED BY <1>1, <1>2, PTL DEF Spec

\* Rows keep their shape, a wait stays within the cap of backoff, and only a
\* settled row has no next attempt.
THEOREM RowsKeepTheirShape == Spec => []TypeOK
<1>1. OutboxInvariant => TypeOK
  BY DEF OutboxInvariant, TypeOK, AreSubs, AreRows, IsSub, IsRow, Row, Sub
<1> QED BY <1>1, OutboxInvariantHolds, PTL

\* Nothing is announced that did not happen.
THEOREM AnnouncedHasHappened == Spec => []OnlyCommittedChangesAreAnnounced
<1>1. OutboxInvariant => OnlyCommittedChangesAreAnnounced
  BY DEF OutboxInvariant, OnlyCommittedChangesAreAnnounced
<1> QED BY <1>1, OutboxInvariantHolds, PTL

\* A delivered row was accepted, and of one given up at least as many posts
\* failed as the limit says.
THEOREM SettledIsTrue == Spec => []SettledRowsTellTheTruth
<1>1. OutboxInvariant => SettledRowsTellTheTruth
  BY DEF OutboxInvariant, SettledRowsTellTheTruth, AreRows, IsRow
<1> QED BY <1>1, OutboxInvariantHolds, PTL

\* An endpoint is switched off only if at least as many posts to it failed as the
\* limit says, and no drain writes one that reached the limit back on.
THEOREM OffForACause == Spec => []DisabledWithCause
<1>1. OutboxInvariant => DisabledWithCause
  BY DEF OutboxInvariant, DisabledWithCause, AreSubs, IsSub, MissesTo, DeliveriesTo
<1> QED BY <1>1, OutboxInvariantHolds, PTL
=============================================================================
