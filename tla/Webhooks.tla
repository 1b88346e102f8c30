------------------------------ MODULE Webhooks ------------------------------
(***************************************************************************)
(* The webhook outbox: events queued in the transaction of the change that  *)
(* caused them, and sent later by drain commands that cron starts whether   *)
(* or not the previous one has ended.                                       *)
(*                                                                         *)
(* Code: services/webhooks.py, services/events.py, the subscription and     *)
(* delivery rows of models/apikey.py, and the drain command of cli.py.      *)
(* A drain reads its batch once, keeps every change in its session, and     *)
(* commits once at the end, writing the columns it changed.                 *)
(***************************************************************************)
EXTENDS Integers, FiniteSets, FiniteSetsExt, Functions

CONSTANTS
    Subscriptions,   \* subscription rows that may be created
    Unreachable,     \* those whose URL subscribe refuses
    Changes,         \* changes a request announces: submitted, certified, ...
    Drafts,          \* open applications that fail the tie-out
    Workers,         \* drain commands running at the same time
    MaxAttempts,     \* webhook_max_attempts
    DisableAfter,    \* webhook_disable_after_failures
    Limit,           \* rows one drain takes
    LongestWait,     \* the cap of backoff, in minutes
    MaxCrashes       \* bound: drains that die before they commit

ASSUME SettingsArePositive ==
    /\ {MaxAttempts, DisableAfter, Limit, LongestWait} \subseteq Nat \ {0}
    /\ MaxCrashes \in Nat
    /\ Unreachable \subseteq Subscriptions
    /\ IsFiniteSet(Changes \cup Drafts)

VARIABLES
    subscriptions,   \* committed subscription rows
    deliveries,      \* committed delivery rows
    made,            \* changes that are committed
    staged,          \* the open request's session: [changes, rows]
    drains,          \* the session of each drain
    misses,          \* history: posts of each delivery that failed, up to MissesCounted
    accepted,        \* history: deliveries a receiver answered with 2xx
    crashes

posts == <<misses, accepted>>
vars == <<subscriptions, deliveries, made, staged, drains, posts, crashes>>

-----------------------------------------------------------------------------
(* Rows                                                                    *)

Announcements == Changes \cup Drafts

\* One event for one subscriber.
Delivery == Announcements \X Subscriptions

Statuses == {"pending", "delivered", "failed", "abandoned"}
Settled(row) == row.status \in {"delivered", "abandoned"}

\* wait is the time to next_attempt_at, 0 when it is due, Never when null.
Never == -1
Queued == [status |-> "pending", attempts |-> 0, wait |-> 0]

NoChange == [changes |-> {}, rows |-> {}]
Idle == [batch |-> {}, left |-> {}, read |-> <<>>, mine |-> <<>>,
         readSub |-> <<>>, mineSub |-> <<>>]

WithRows(rows, new) ==
    [d \in DOMAIN rows \cup new |-> IF d \in DOMAIN rows THEN rows[d] ELSE Queued]

\* Its event list is taken to name every event; no code clears is_active.
Wants(s) == ~subscriptions[s].disabled

Init ==
    /\ subscriptions = <<>>
    /\ deliveries = <<>>
    /\ made = {}
    /\ staged = NoChange
    /\ drains = [w \in Workers |-> Idle]
    /\ misses = [d \in Delivery |-> 0]
    /\ accepted = {}
    /\ crashes = 0

-----------------------------------------------------------------------------
(* Queueing                                                                *)

\* An address the deployment does not allow is refused before the row exists.
Subscribe(s) ==
    /\ s \notin Unreachable \cup DOMAIN subscriptions
    /\ subscriptions' = [t \in DOMAIN subscriptions \cup {s} |->
                            IF t = s THEN [disabled |-> FALSE, failures |-> 0]
                                     ELSE subscriptions[t]]
    /\ UNCHANGED <<deliveries, made, staged, drains, posts, crashes>>

\* A row for every subscriber that wants the event.
Emitted(announcement) ==
    {<<announcement, s>> : s \in {t \in DOMAIN subscriptions : Wants(t)}}

\* A service changes the row and announces it, in the session of its request.
AnnounceAtOnce(c) ==
    /\ c \notin made \cup staged.changes
    /\ staged' = [staged EXCEPT !.changes = @ \cup {c}]
    /\ deliveries' = WithRows(deliveries, Emitted(c))
    /\ UNCHANGED <<subscriptions, made, drains, posts, crashes>>

Announce(c) ==
    /\ c \notin made \cup staged.changes
    /\ staged' = [changes |-> staged.changes \cup {c}, rows |-> staged.rows \cup Emitted(c)]
    /\ UNCHANGED <<subscriptions, deliveries, made, drains, posts, crashes>>

CommitRequest ==
    /\ staged # NoChange
    /\ made' = made \cup staged.changes
    /\ deliveries' = WithRows(deliveries, staged.rows)
    /\ staged' = NoChange
    /\ UNCHANGED <<subscriptions, drains, posts, crashes>>

\* A later refusal in the same request.
RollbackRequest ==
    /\ staged # NoChange
    /\ staged' = NoChange
    /\ UNCHANGED <<subscriptions, deliveries, made, drains, posts, crashes>>

\* check_and_announce: a draft that does not tie out.
CheckAndAnnounce(a) ==
    /\ made' = made \cup {a}
    /\ deliveries' = WithRows(deliveries, Emitted(a))

\* The command that sweeps commits what it announced.  (Bound: once for each
\* draft.)
SweepOpenPeriods(a) ==
    /\ a \notin made
    /\ CheckAndAnnounce(a)
    /\ UNCHANGED <<subscriptions, staged, drains, posts, crashes>>

-----------------------------------------------------------------------------
(* Draining                                                                *)

Backoff(attempts) == Min({2 ^ Max({0, attempts - 1}), LongestWait})

DuePending == {d \in DOMAIN deliveries : deliveries[d].status = "pending"}
Due == {d \in DOMAIN deliveries :
          deliveries[d].status \in {"pending", "failed"} /\ deliveries[d].wait = 0}

\* The code takes the Limit rows due longest; here any rows that are due.
Begin(w) ==
    /\ drains[w] = Idle
    /\ \E batch \in SUBSET Due :
          /\ batch # {}
          /\ Cardinality(batch) = Min({Limit, Cardinality(Due)})
          /\ LET rows == [d \in batch |-> deliveries[d]]
             IN  drains' = [drains EXCEPT ![w] =
                     [Idle EXCEPT !.batch = batch, !.left = batch, !.read = rows, !.mine = rows]]
    /\ UNCHANGED <<subscriptions, deliveries, made, staged, posts, crashes>>

Outcomes == {"2xx", "failure"}
Answered(outcome) == outcome \in Outcomes
Ok(outcome) == outcome = "2xx"

GivesUp(attempts) == attempts >= MaxAttempts

AttemptedForgettingWhen(row, outcome) ==
    LET tried == row.attempts + 1
    IN  IF Ok(outcome)
        THEN [status |-> "delivered", attempts |-> tried, wait |-> Never]
        ELSE [status |-> IF GivesUp(tried) THEN "abandoned" ELSE "failed",
              attempts |-> tried, wait |-> Never]

Attempted(row, outcome) ==
    LET tried == row.attempts + 1
    IN  IF Ok(outcome)
        THEN [status |-> "delivered", attempts |-> tried, wait |-> Never]
        ELSE IF GivesUp(tried)
        THEN [status |-> "abandoned", attempts |-> tried, wait |-> Never]
        ELSE [status |-> "failed", attempts |-> tried, wait |-> Backoff(tried)]

\* The endpoint after one answer.
CountedFirst(sub, outcome) ==
    LET failed == sub.failures + 1
    IN  [failures |-> IF Ok(outcome) THEN 0 ELSE failed,
         disabled |-> sub.disabled \/ failed >= DisableAfter]


Counted(sub, outcome) ==
    LET failed == IF Ok(outcome) THEN 0 ELSE sub.failures + 1
    IN  [failures |-> failed,
         disabled |-> sub.disabled \/ (~Ok(outcome) /\ failed >= DisableAfter)]

\* Bound: failed posts beyond what the properties tell apart are not counted.
MissesCounted == Max({MaxAttempts, DisableAfter})

\* What a post of d shows, whatever the code makes of it.
Witness(d, outcome) ==
    /\ misses' = IF outcome = "2xx" THEN misses
                 ELSE [misses EXCEPT ![d] = Min({@ + 1, MissesCounted})]
    /\ accepted' = IF outcome = "2xx" THEN accepted \cup {d} ELSE accepted

\* f with an entry for x, unless it has one.
Loaded(f, x, entry) == [y \in DOMAIN f \cup {x} |-> IF y \in DOMAIN f THEN f[y] ELSE entry]

\* The row is as it was read with the batch; its subscription is read now,
\* unless an earlier row of the batch loaded it.
Send(w, d, outcome) ==
    LET s == d[2]
        session == drains[w]
        attempted == [session.mine EXCEPT ![d] = Attempted(@, outcome)]
        loaded == Loaded(session.mineSub, s, subscriptions[s])
        counted == [loaded EXCEPT ![s] = Counted(@, outcome)]
    IN  /\ d \in session.left
        /\ drains' = [drains EXCEPT ![w] =
               [session EXCEPT
                   !.left = @ \ {d},
                   !.mine = attempted,
                   !.readSub = Loaded(@, s, subscriptions[s]),
                   !.mineSub = counted]]
        /\ Witness(d, outcome)
        /\ UNCHANGED <<subscriptions, deliveries, made, staged, crashes>>

\* An UPDATE writes the columns that differ from what the session read.
Merged(read, mine, row) ==
    [column \in DOMAIN row |-> IF mine[column] # read[column] THEN mine[column] ELSE row[column]]

\* The load of another subscription may flush the session earlier, so that a
\* counter that failed and was cleared in one batch is written as 0; here a
\* column that ends as it was read is not written.
CommitDrain(w) ==
    LET session == drains[w]
    IN  /\ session.batch # {}
        /\ session.left = {}
        /\ deliveries' = [d \in DOMAIN deliveries |->
               IF d \in session.batch
               THEN [Merged(session.read[d], session.mine[d], deliveries[d])
                        EXCEPT !.wait = session.mine[d].wait]
               ELSE deliveries[d]]
        /\ subscriptions' = [s \in DOMAIN subscriptions |->
               IF s \in DOMAIN session.mineSub
               THEN Merged(session.readSub[s], session.mineSub[s], subscriptions[s])
               ELSE subscriptions[s]]
        /\ drains' = [drains EXCEPT ![w] = Idle]
        /\ UNCHANGED <<made, staged, posts, crashes>>

\* Killed, or an exception before the commit: the audit entry of a disabled
\* endpoint that loses the race for its sequence number, a deadlock.
Crash(w) ==
    /\ crashes < MaxCrashes
    /\ drains[w] # Idle
    /\ drains' = [drains EXCEPT ![w] = Idle]
    /\ crashes' = crashes + 1
    /\ UNCHANGED <<subscriptions, deliveries, made, staged, posts>>

\* A minute passes, for committed rows and for those in a session.
Elapsed(rows) ==
    [d \in DOMAIN rows |-> [rows[d] EXCEPT !.wait = IF @ > 0 THEN @ - 1 ELSE @]]

Tick ==
    /\ \E d \in DOMAIN deliveries : deliveries[d].wait > 0
    /\ deliveries' = Elapsed(deliveries)
    /\ drains' = [w \in Workers |-> [drains[w] EXCEPT !.mine = Elapsed(@)]]
    /\ UNCHANGED <<subscriptions, made, staged, posts, crashes>>

-----------------------------------------------------------------------------
Step(w) == Begin(w) \/ (\E d \in Delivery, o \in Outcomes : Send(w, d, o)) \/ CommitDrain(w)

Next ==
    \/ \E s \in Subscriptions : Subscribe(s)
    \/ \E c \in Changes : Announce(c)
    \/ CommitRequest
    \/ RollbackRequest
    \/ \E a \in Drafts : SweepOpenPeriods(a)
    \/ \E w \in Workers : Step(w)
    \/ \E w \in Workers : Crash(w)
    \/ Tick

\* Cron starts the drain again and again and the transport has a timeout, so
\* no drain stands still; nobody has to subscribe, commit or crash.
Spec == Init /\ [][Next]_vars /\ WF_vars(Tick) /\ \A w \in Workers : WF_vars(Step(w))

-----------------------------------------------------------------------------
(* Properties                                                              *)

\* Rows keep their shape: a wait never exceeds the cap of backoff, and only a
\* settled row has no next attempt.
TypeOK ==
    /\ DOMAIN subscriptions \subseteq Subscriptions \ Unreachable
    /\ DOMAIN deliveries \subseteq Announcements \X DOMAIN subscriptions
    /\ \A s \in DOMAIN subscriptions :
          subscriptions[s] \in [disabled: BOOLEAN, failures: Nat]
    /\ \A d \in DOMAIN deliveries :
          /\ deliveries[d] \in [status: Statuses, attempts: Nat, wait: Never..LongestWait]
          /\ deliveries[d].wait = Never => Settled(deliveries[d])

\* What is announced has happened: a rolled-back change leaves no delivery for
\* any drain to send (emit flushes into the caller's transaction).
OnlyCommittedChangesAreAnnounced ==
    \A d \in DOMAIN deliveries : d[1] \in made

\* A row says "delivered" only if the receiver accepted it, and "abandoned"
\* only after at least max_attempts posts of it that failed, whichever drains
\* raced on the row or died after posting (drain).  Two drains that raced may
\* have posted an abandoned row with success as well.
SettledRowsTellTheTruth ==
    \A d \in DOMAIN deliveries :
        /\ deliveries[d].status = "delivered" => d \in accepted
        /\ deliveries[d].status = "abandoned" => misses[d] >= MaxAttempts

\* An endpoint is switched off only if that many posts to it failed in all, and
\* one whose counter reached the limit is off, whatever two drains wrote over
\* each other.  That they failed one after the other is asked in DrainStreaks.
DisabledWithCause ==
    \A s \in DOMAIN subscriptions :
        /\ subscriptions[s].failures >= DisableAfter => subscriptions[s].disabled
        /\ subscriptions[s].disabled =>
              SumFunctionOnSet(misses, {d \in Delivery : d[2] = s}) >= DisableAfter

\* Every queued delivery is delivered or given up in the end, although drains
\* crash, overlap and lose each other's counts (pending, backoff, drain).
EveryDeliverySettles ==
    \A d \in Delivery :
        d \in DOMAIN deliveries ~> d \in DOMAIN deliveries /\ Settled(deliveries[d])
=============================================================================
