---------------------------- MODULE Entitlements ----------------------------
(***************************************************************************)
(* What a plan allows, as one process of the application believes it: the   *)
(* cache of the massing.cloud adapter, its grace period and its cooldown,   *)
(* and the gates that ask it.  Requests of one process share the adapter    *)
(* and overlap while one of them waits for the network.                     *)
(*                                                                         *)
(* Code: services/entitlement/massing_cloud.py, services/entitlement/       *)
(* base.py, services/limits.py and the gates that call it.                  *)
(***************************************************************************)
EXTENDS Integers, FiniteSets

CONSTANTS
    Requests,       \* requests of one process that overlap
    Capabilities,   \* gc_billing, esign, ...
    Plans,          \* answers of the service: [entitled, limits, cap]
    Counts,         \* what a caller may count before it creates one more
    Unlimited,
    Nothing,
    CacheTime, GraceTime, RetryAfterFailure, RequestTimeout   \* in ticks

ASSUME TimesFit ==
    /\ {CacheTime, GraceTime, RetryAfterFailure, RequestTimeout} \subseteq Nat \ {0}
    /\ CacheTime <= GraceTime
    /\ Capabilities # {}
    /\ \A p \in Plans :
          /\ DOMAIN p = {"entitled", "limits", "cap"} /\ p.entitled \in BOOLEAN
          /\ p.limits \in [DOMAIN p.limits -> BOOLEAN] /\ DOMAIN p.limits \subseteq Capabilities

VARIABLES
    plan,        \* what the service would answer
    reachable,
    cache,       \* Nothing or [answer, age]: _cache
    failed,      \* Nothing or the age of the last failure: _failed_at
    requests,    \* request -> [at, cached, age, answer]; known is history
    ungranted,   \* history: capability -> ticks since the plan granted it
    sinceGood    \* history: ticks since the newest answered fetch was begun

planVars == <<plan, reachable, cache, failed, requests, ungranted, sinceGood>>

-----------------------------------------------------------------------------
(* Answers                                                                 *)

\* Bound: ages beyond the last limit are not told apart.
Oldest == GraceTime + RequestTimeout + 1
Aged(age) == IF age < Oldest THEN age + 1 ELSE age

Fresh(entry) == entry # Nothing /\ entry.age < CacheTime
WithinGraceOfCache(entry) == entry # Nothing /\ entry.age < CacheTime
WithinGrace(entry) == entry # Nothing /\ entry.age < GraceTime

Unreachable == [entitled |-> FALSE, limits |-> <<>>, cap |-> Unlimited]

\* _parse: a capability the service does not name is not granted.  Every plan of
\* the model names its cap; one that is not named would be False, a cap of 0.
ParsedAsSent(payload) == payload
Parsed(payload) ==
    [payload EXCEPT !.limits = [c \in Capabilities |->
        IF c \in DOMAIN payload.limits THEN payload.limits[c] ELSE FALSE]]

\* An entry of the cache is not the empty cache.
ASSUME NothingIsNoEntry ==
    \A p \in Plans, age \in 0..Oldest : [answer |-> Parsed(p), age |-> age] # Nothing

\* allows and within: a missing key is permitted.
Allows(answer, capability) ==
    /\ answer.entitled
    /\ capability \in DOMAIN answer.limits => answer.limits[capability]

Within(answer, count) == answer.cap = Unlimited \/ count < answer.cap

\* require and require_within; a lapsed plan is refused before any count.
Passes(answer, capability, count) ==
    /\ Allows(answer, capability)
    /\ answer.entitled
    /\ Within(answer, count)

Fallback(entry) == IF WithinGrace(entry) THEN entry.answer ELSE Unreachable

-----------------------------------------------------------------------------
\* known: sinceGood when the request asked.
Idle == [at |-> "idle", cached |-> Nothing, age |-> 0, answer |-> Unreachable, known |-> 0]
Answered(answer, known) == [Idle EXCEPT !.at = "answered", !.answer = answer, !.known = known]

Granted(c) == plan.entitled /\ c \in DOMAIN plan.limits /\ plan.limits[c]

PlanInit ==
    /\ plan \in Plans
    /\ reachable = TRUE
    /\ cache = Nothing
    /\ failed = Nothing
    /\ requests = [r \in Requests |-> Idle]
    /\ ungranted = [c \in Capabilities |-> IF Granted(c) THEN 0 ELSE Oldest]
    /\ sinceGood = Oldest

CoolingDown == failed # Nothing /\ failed < RetryAfterFailure

\* effective, when it answers without the network.
AnswerFromMemory(r) ==
    /\ requests[r].at = "idle"
    /\ \/ Fresh(cache) /\ requests' = [requests EXCEPT ![r] = Answered(cache.answer, sinceGood)]
       \/ /\ ~Fresh(cache) /\ CoolingDown
          /\ requests' = [requests EXCEPT ![r] = Answered(Fallback(cache), sinceGood)]
    /\ UNCHANGED <<plan, reachable, cache, failed, ungranted, sinceGood>>

\* effective, when it asks; now and the cached entry are those it has read.
BeginFetch(r) ==
    /\ requests[r].at = "idle"
    /\ ~Fresh(cache) /\ ~CoolingDown
    /\ requests' = [requests EXCEPT ![r] = 
          [Idle EXCEPT !.at = "fetching", !.cached = cache, !.known = sinceGood]]
    /\ UNCHANGED <<plan, reachable, cache, failed, ungranted, sinceGood>>

\* The entry and the time of the request were read before the network.
FetchSucceeds(r) ==
    /\ requests[r].at = "fetching"
    /\ reachable
    /\ cache' = [answer |-> Parsed(plan), age |-> requests[r].age]
    /\ failed' = Nothing
    /\ requests' = [requests EXCEPT ![r] = Answered(Parsed(plan), requests[r].known)]
    /\ sinceGood' = IF requests[r].age < sinceGood THEN requests[r].age ELSE sinceGood
    /\ UNCHANGED <<plan, reachable, ungranted>>

\* A refused connection, a timeout or an answer that does not parse.  One of
\* another type than an object escapes the except and ends the request with an
\* error, which changes nothing and is not an action here.
FetchFails(r) ==
    /\ requests[r].at = "fetching"
    /\ failed' = requests[r].age
    /\ requests' = [requests EXCEPT ![r] = 
          Answered(Fallback(requests[r].cached), requests[r].known)]
    /\ UNCHANGED <<plan, reachable, cache, ungranted, sinceGood>>

\* The operation behind the gate is done or refused with the answer of this
\* request, kept on g: open_period, create_project, sign, a new subcontract.
Gate(r, capability, count) ==
    /\ requests[r].at = "answered"
    /\ requests' = [requests EXCEPT ![r] =
                      [Idle EXCEPT !.at = IF Passes(requests[r].answer, capability, count)
                                          THEN "done" ELSE "refused"]]
    /\ UNCHANGED <<plan, reachable, cache, failed, ungranted, sinceGood>>

\* The next request starts with an empty g.
NextRequest(r) ==
    /\ requests[r].at \in {"done", "refused"}
    /\ requests' = [requests EXCEPT ![r] = Idle]
    /\ UNCHANGED <<plan, reachable, cache, failed, ungranted, sinceGood>>

\* The memory of the process is gone; sinceGood is about that memory.
Restart ==
    /\ cache' = Nothing /\ failed' = Nothing
    /\ requests' = [r \in Requests |-> Idle]
    /\ sinceGood' = Oldest
    /\ UNCHANGED <<plan, reachable, ungranted>>

-----------------------------------------------------------------------------
(* The service and the clock                                               *)

ChangePlan(p) ==
    /\ p # plan
    /\ plan' = p
    /\ ungranted' = [c \in Capabilities |->
                        IF p.entitled /\ c \in DOMAIN p.limits /\ p.limits[c]
                        THEN 0 ELSE ungranted[c]]
    /\ UNCHANGED <<reachable, cache, failed, requests, sinceGood>>

Outage(up) ==
    /\ reachable # up
    /\ reachable' = up
    /\ UNCHANGED <<plan, cache, failed, requests, ungranted, sinceGood>>

\* A fetch ends within its timeout.
TimePasses ==
    /\ \A r \in Requests : requests[r].at = "fetching" => requests[r].age < RequestTimeout
    /\ cache' = IF cache = Nothing THEN Nothing ELSE [cache EXCEPT !.age = Aged(@)]
    /\ failed' = IF failed = Nothing THEN Nothing ELSE Aged(failed)
    /\ requests' = [r \in Requests |->
          IF requests[r].at # "fetching" THEN requests[r]
          ELSE [requests[r] EXCEPT !.age = @ + 1]]
    /\ ungranted' = [c \in Capabilities |-> IF Granted(c) THEN 0 ELSE Aged(ungranted[c])]
    /\ sinceGood' = Aged(sinceGood)
    /\ UNCHANGED <<plan, reachable>>

\* The prefix of PlanInit, PlanNext and PlanSpec keeps them apart where
\* AccessProofs extends this module beside Access.
PlanNext ==
    \/ \E r \in Requests :
          \/ AnswerFromMemory(r)
          \/ BeginFetch(r)
          \/ FetchSucceeds(r)
          \/ FetchFails(r)
          \/ \E c \in Capabilities, count \in Counts : Gate(r, c, count)
          \/ NextRequest(r)
    \/ Restart
    \/ \E p \in Plans : ChangePlan(p)
    \/ \E up \in BOOLEAN : Outage(up)
    \/ TimePasses

PlanSpec == PlanInit /\ [][PlanNext]_planVars

-----------------------------------------------------------------------------
(* Properties                                                              *)

Answers(r) == requests[r].at # "answered" /\ requests'[r].at = "answered"

\* If the service had answered before a request asked, no outage and no overlap
\* with other requests makes it fall back to read-only before the grace period,
\* less one request timeout, is over (_fallback, GRACE_SECONDS: a week of outage should not stop
\* the monthly requisition).
OutageWithinGraceStopsNobody ==
    [][\A r \in Requests :
          Answers(r) /\ requests'[r].answer = Unreachable
              => requests'[r].known >= GraceTime - RequestTimeout]_planVars

\* Whatever is allowed was granted by the plan less than a grace period and a
\* request timeout ago, also by an answer that overtook a newer one: a lapse or
\* a downgrade takes effect in the end even while the service is down, and a
\* capability the service does not name is never allowed (_parse, allows).
WhatIsAllowedWasGranted ==
    [][\A r \in Requests, c \in Capabilities :
          Answers(r) /\ Allows(requests'[r].answer, c)
              => ungranted[c] < GraceTime + RequestTimeout]_planVars
=============================================================================
