------------------------------- MODULE Access -------------------------------
(***************************************************************************)
(* Who is signed in: passwords with lockout, two-factor codes, hand-offs    *)
(* from the bridge, and the members of an organization.                     *)
(*                                                                         *)
(* Code: services/accounts.py, services/mfa.py, services/handoff.py,        *)
(* services/identity/massing_handoff.py, blueprints/auth.py, the member     *)
(* views of blueprints/projects.py, and their rows.  A password, a code and *)
(* a signature are only right or wrong; users.is_active, which no code      *)
(* clears, is taken to be true.                                             *)
(***************************************************************************)
EXTENDS Integers, FiniteSets

CONSTANTS
    Users, Organizations, Browsers,
    Roles,              \* the roles members are given
    Assertions,         \* jti values of the bridge
    HandoffRequests,    \* callbacks served at the same time
    MemberRequests,     \* role changes and removals served at the same time
    None,
    MaxFailedLogins,
    LockoutDuration,    \* in ticks, as the three below
    MaxAge,             \* of an assertion
    Skew,               \* how far the bridge's clock may be ahead
    KeepSpentFor        \* of a spent jti

ASSUME SettingsFit ==
    /\ {MaxFailedLogins, LockoutDuration, MaxAge, Skew, KeepSpentFor} \subseteq Nat \ {0}
    /\ KeepSpentFor >= MaxAge + Skew
    /\ "owner" \in Roles
    /\ None \notin Users \cup Organizations \cup Browsers \cup Assertions \cup Roles

VARIABLES
    users,          \* user -> [failures, locked, mfa]
    organizations,  \* created ones
    memberships,    \* <<organization, user>> -> role
    sessions,       \* browser -> [user, org, pending, pendingOrg]
    assertions,     \* minted ones: jti -> [user, org, age]
    spent,          \* jti -> age of the row
    handoffs,       \* open callbacks: the jti is inserted and not committed
    changes,        \* open member changes: the owners are counted, nothing is written
                    \* (overtaken, a history: another one was written meanwhile)
    proved,         \* history: browser -> what its user and its pending user showed
    accepted        \* history: jti -> how often it was accepted

accounts == <<users, organizations, memberships>>
bridge == <<assertions, spent, handoffs, accepted>>
vars == <<accounts, sessions, bridge, changes, proved>>

-----------------------------------------------------------------------------
(* Rows                                                                    *)

NewUser == [failures |-> 0, locked |-> 0, mfa |-> FALSE]
Anonymous == [user |-> None, org |-> None, pending |-> None, pendingOrg |-> None]
Registered == DOMAIN users

MayManage == {"owner", "admin"}
IsMember(org, user) == <<org, user>> \in DOMAIN memberships
MembershipsOf(user) == {o \in organizations : IsMember(o, user)}
IsLocked(u) == users[u].locked > 0
Owners(org) == {u \in Users : IsMember(org, u) /\ memberships[<<org, u>>] = "owner"}

\* The membership is read again in every request.
ActiveMembership(b) == <<sessions[b].org, sessions[b].user>>

Manages(b) ==
    /\ ActiveMembership(b) \in DOMAIN memberships
    /\ memberships[ActiveMembership(b)] \in MayManage

SignedIn(session, u, o) == [session EXCEPT !.user = u, !.org = o]
OwingCode(session, u, o) == [session EXCEPT !.pending = u, !.pendingOrg = o]

With(f, x, value) == [y \in DOMAIN f \cup {x} |-> IF y = x THEN value ELSE f[y]]
Without(f, x) == [y \in DOMAIN f \ {x} |-> f[y]]

Init ==
    /\ users = <<>> /\ organizations = {} /\ memberships = <<>>
    /\ sessions = [b \in Browsers |-> Anonymous]
    /\ assertions = <<>> /\ spent = <<>>
    /\ handoffs = [r \in HandoffRequests |-> None]
    /\ changes = [r \in MemberRequests |-> None]
    /\ proved = [b \in Browsers |-> [user |-> {}, pending |-> {}]]
    /\ accepted = [a \in Assertions |-> 0]

-----------------------------------------------------------------------------
(* Accounts                                                                *)

\* create_user, create_organization and its owner.
NewAccount(u, o) ==
    /\ u \notin Registered
    /\ o \notin organizations
    /\ users' = With(users, u, NewUser)
    /\ organizations' = organizations \cup {o}
    /\ memberships' = With(memberships, <<o, u>>, "owner")

\* Registering signs in; keys of an earlier challenge stay in the session.
Register(b, u, o) ==
    /\ NewAccount(u, o)
    /\ sessions' = [sessions EXCEPT ![b] = SignedIn(@, u, o)]
    /\ proved' = [proved EXCEPT ![b].user = {"first"}]
    /\ UNCHANGED <<bridge, changes>>

CreateAdmin(u, o) == NewAccount(u, o) /\ UNCHANGED <<sessions, bridge, changes, proved>>

\* A first factor of u was right.  What it is worth is decided here, from the
\* row, whatever the code then does with it.
FirstFactor(u) ==
    (IF IsLocked(u) THEN {"locked"} ELSE {"first"})
        \cup (IF users[u].mfa THEN {"owed"} ELSE {})

\* _finish_login: the session is cleared, and the counters of the user.
\* Without an organization it is one of the user's own (the code's: the oldest).
FinishLogin(b, u, org, facts) ==
    /\ users' = [users EXCEPT ![u].failures = 0, ![u].locked = 0]
    /\ \E o \in IF org # None THEN {org}
                ELSE IF MembershipsOf(u) = {} THEN {None} ELSE MembershipsOf(u) :
          sessions' = [sessions EXCEPT ![b] = SignedIn(Anonymous, u, o)]
    /\ proved' = [proved EXCEPT ![b] = [user |-> facts, pending |-> {}]]

\* _register_failure
Failed(row) ==
    IF row.failures + 1 >= MaxFailedLogins
    THEN [row EXCEPT !.failures = 0, !.locked = LockoutDuration]
    ELSE [row EXCEPT !.failures = @ + 1]

\* The lock is read, the password verified and the counter written in one step:
\* in the code two requests that verify at the same time may count one failure
\* for both, or clear a lock that was set since they read it.
WrongPassword(u) ==
    /\ u \in Registered
    /\ ~IsLocked(u)
    /\ users' = [users EXCEPT ![u] = Failed(@)]
    /\ UNCHANGED <<organizations, memberships, sessions, bridge, changes, proved>>

\* With a second factor the session only remembers whose code is due.
RightPassword(b, u) ==
    /\ u \in Registered
    /\ ~IsLocked(u)
    /\ IF users[u].mfa
       THEN /\ users' = [users EXCEPT ![u].failures = 0]
            /\ sessions' = [sessions EXCEPT ![b] = OwingCode(@, u, @.pendingOrg)]
            /\ proved' = [proved EXCEPT ![b].pending = FirstFactor(u)]
       ELSE FinishLogin(b, u, None, FirstFactor(u))
    /\ UNCHANGED <<organizations, memberships, bridge, changes>>

\* verify_user_code needs the second factor to be on still; neither the lock
\* nor the membership is looked at again.
RightCode(b) ==
    LET u == sessions[b].pending
    IN  /\ u # None
        /\ users[u].mfa
        /\ FinishLogin(b, u, sessions[b].pendingOrg, proved[b].pending \cup {"code"})
        /\ UNCHANGED <<organizations, memberships, bridge, changes>>

SignOut(b) ==
    /\ sessions[b].user # None
    /\ sessions' = [sessions EXCEPT ![b] = SignedIn(@, None, None)]
    /\ proved' = [proved EXCEPT ![b].user = {}]
    /\ UNCHANGED <<accounts, bridge, changes>>

SwitchOrganization(b, o) ==
    /\ sessions[b].user # None
    /\ o \in MembershipsOf(sessions[b].user) \ {sessions[b].org}
    /\ sessions' = [sessions EXCEPT ![b] = SignedIn(@, @.user, o)]
    /\ UNCHANGED <<accounts, bridge, changes, proved>>

SetTwoFactor(b, on) ==
    /\ sessions[b].user # None
    /\ users[sessions[b].user].mfa # on
    /\ users' = [users EXCEPT ![sessions[b].user].mfa = on]
    /\ UNCHANGED <<organizations, memberships, sessions, bridge, changes, proved>>

EnableTwoFactor(b) == SetTwoFactor(b, TRUE)
DisableTwoFactor(b) == SetTwoFactor(b, FALSE)

-----------------------------------------------------------------------------
(* Hand-offs                                                               *)

\* The bridge signs one assertion for each jti, on a clock up to Skew ahead.
Mint(a, u, o, age) ==
    /\ a \notin DOMAIN assertions
    /\ age \in -Skew..0
    /\ assertions' = With(assertions, a, [user |-> u, org |-> o, age |-> age])
    /\ UNCHANGED <<accounts, sessions, spent, handoffs, accepted, changes, proved>>

\* verify: only what the bridge signed passes.
IsSigned(a) == a \in DOMAIN assertions

\* _check_timing
InTime(a) == -Skew <= assertions[a].age /\ assertions[a].age <= MaxAge

\* accept, up to the insert of _spend: a jti in the table is refused, and one
\* another callback has inserted makes this one wait for its commit.
PresentReadingFirst(r, b, a) ==
    /\ handoffs[r] = None
    /\ IsSigned(a)
    /\ InTime(a)
    /\ a \notin DOMAIN spent
    /\ handoffs' = [handoffs EXCEPT ![r] = [browser |-> b, jti |-> a]]
    /\ UNCHANGED <<accounts, sessions, assertions, spent, accepted, changes, proved>>

Present(r, b, a) ==
    /\ handoffs[r] = None
    /\ IsSigned(a)
    /\ InTime(a)
    /\ a \notin DOMAIN spent
    /\ \A q \in HandoffRequests : handoffs[q] # None => handoffs[q].jti # a
    /\ handoffs' = [handoffs EXCEPT ![r] = [browser |-> b, jti |-> a]]
    /\ UNCHANGED <<accounts, sessions, assertions, spent, accepted, changes, proved>>

\* The organization, the account, the membership and sign_in_blocker.
AdmissibleUnblocked(u, o) == o \in organizations /\ u \in Registered /\ IsMember(o, u)
Admissible(u, o) ==
    /\ o \in organizations
    /\ u \in Registered
    /\ IsMember(o, u)
    /\ ~IsLocked(u)

\* A hand-off is one factor: an enrolled user still owes the code.
NeedsCode(u) == users[u].mfa

Accept(r) ==
    LET b == handoffs[r].browser
        a == handoffs[r].jti
        u == assertions[a].user
        o == assertions[a].org
    IN  /\ handoffs[r] # None
        /\ Admissible(u, o)
        /\ spent' = With(spent, a, 0)
        /\ accepted' = [accepted EXCEPT ![a] = @ + 1]
        /\ handoffs' = [handoffs EXCEPT ![r] = None]
        /\ IF NeedsCode(u)
           THEN /\ sessions' = [sessions EXCEPT ![b] = OwingCode(@, u, o)]
                /\ proved' = [proved EXCEPT ![b].pending = FirstFactor(u)]
                /\ UNCHANGED users
           ELSE FinishLogin(b, u, o, FirstFactor(u))
        /\ UNCHANGED <<organizations, memberships, assertions, changes>>

\* The rollback of a refusal takes the insert back.
Refuse(r) ==
    /\ handoffs[r] # None
    /\ ~Admissible(assertions[handoffs[r].jti].user, assertions[handoffs[r].jti].org)
    /\ handoffs' = [handoffs EXCEPT ![r] = None]
    /\ UNCHANGED <<accounts, sessions, assertions, spent, accepted, changes, proved>>

\* The command that prunes: rows past their keeping are deleted.
Prunable == {a \in DOMAIN spent : spent[a] > KeepSpentFor}
Pruned == [a \in DOMAIN spent \ Prunable |-> spent[a]]

Prune ==
    /\ Prunable # {}
    /\ spent' = Pruned
    /\ UNCHANGED <<accounts, sessions, assertions, handoffs, accepted, changes, proved>>

-----------------------------------------------------------------------------
(* Members                                                                 *)

\* add_member: whoever is a member already is refused.
Join(o, u, role) ==
    /\ ~IsMember(o, u)
    /\ memberships' = With(memberships, <<o, u>>, role)

AddMember(b, u, role) ==
    /\ Manages(b)
    /\ u \in Registered
    /\ Join(sessions[b].org, u, role)
    /\ UNCHANGED <<users, organizations, sessions, bridge, changes, proved>>

\* change_member_role and remove_member (role None) read and count first.
LeavesNone(m, role) ==
    memberships[m] = "owner" /\ role # "owner" /\ Cardinality(Owners(m[1])) <= 0
LeavesNoOwner(m, role) ==
    memberships[m] = "owner" /\ role # "owner" /\ Cardinality(Owners(m[1])) <= 1

ReadMember(r, b, u, role) ==
    LET m == <<sessions[b].org, u>>
    IN  /\ changes[r] = None
        /\ Manages(b)
        /\ m \in DOMAIN memberships
        /\ memberships[m] # role
        /\ ~LeavesNoOwner(m, role)
        /\ changes' = [changes EXCEPT ![r] =
               [membership |-> m, role |-> role, overtaken |-> FALSE]]
        /\ UNCHANGED <<accounts, sessions, bridge, proved>>

Overtaken(change, org) ==
    IF change # None /\ change.membership[1] = org
    THEN [change EXCEPT !.overtaken = TRUE]
    ELSE change

\* The row is written by its id; one removed meanwhile ends in an error.
WriteMember(r) ==
    LET m == changes[r].membership
    IN  /\ changes[r] # None
        /\ memberships' = IF m \notin DOMAIN memberships THEN memberships
                          ELSE IF changes[r].role = None THEN Without(memberships, m)
                          ELSE [memberships EXCEPT ![m] = changes[r].role]
        /\ changes' = [q \in MemberRequests |->
                          IF q = r THEN None ELSE Overtaken(changes[q], m[1])]
        /\ UNCHANGED <<users, organizations, sessions, bridge, proved>>

-----------------------------------------------------------------------------
\* Time.  Bound: ages beyond the last limit are not told apart.
Older(age, limit) == IF age > limit THEN age ELSE age + 1

Tick ==
    /\ \/ \E u \in Registered : users[u].locked > 0
       \/ \E a \in DOMAIN assertions : assertions[a].age <= MaxAge
       \/ \E a \in DOMAIN spent : spent[a] <= KeepSpentFor
    /\ users' = [u \in Registered |->
                    [users[u] EXCEPT !.locked = IF @ > 0 THEN @ - 1 ELSE 0]]
    /\ assertions' = [a \in DOMAIN assertions |->
                        [assertions[a] EXCEPT !.age = Older(@, MaxAge)]]
    /\ spent' = [a \in DOMAIN spent |-> Older(spent[a], KeepSpentFor)]
    /\ UNCHANGED <<organizations, memberships, sessions, handoffs, accepted, changes, proved>>

Next ==
    \/ \E u \in Users, o \in Organizations : CreateAdmin(u, o)
    \/ \E u \in Users : WrongPassword(u)
    \/ \E b \in Browsers :
          \/ \E u \in Users :
                \/ \E o \in Organizations : Register(b, u, o)
                \/ RightPassword(b, u)
                \/ \E role \in Roles : AddMember(b, u, role)
                \/ \E r \in MemberRequests, role \in Roles \cup {None} : ReadMember(r, b, u, role)
          \/ RightCode(b)
          \/ SignOut(b)
          \/ \E o \in Organizations : SwitchOrganization(b, o)
          \/ EnableTwoFactor(b)
          \/ DisableTwoFactor(b)
          \/ \E r \in HandoffRequests, a \in Assertions : Present(r, b, a)
    \/ \E a \in Assertions, u \in Users, o \in Organizations, age \in -Skew..0 : Mint(a, u, o, age)
    \/ \E r \in HandoffRequests : Accept(r) \/ Refuse(r)
    \/ Prune
    \/ \E r \in MemberRequests : WriteMember(r)
    \/ Tick

Spec == Init /\ [][Next]_vars

-----------------------------------------------------------------------------
(* Properties                                                              *)

\* Whoever a browser is signed in as gave a first factor in it while the
\* account was not locked, and the code as well if the second factor was on at
\* that time: registration, password, hand-off and code end in one session, and
\* no order of them in one browser leads there on the first factor of another
\* user or of a locked account, or past a code that is due (sign_in_blocker,
\* accept, mfa_verify, _finish_login).  The lock is asked for at the first
\* factor only: an account that is locked between the first factor and the code
\* is signed in by the code, although services/accounts.py:213 says that every
\* authentication path must consult the lock.
SessionsAreProven ==
    \A b \in Browsers :
        sessions[b].user # None =>
            /\ "first" \in proved[b].user
            /\ "owed" \in proved[b].user => "code" \in proved[b].user

\* An assertion is accepted once, with two callbacks presenting it at the same
\* time, refusals that roll the spent row back, and the table pruned while the
\* assertion may still be in time on either clock (_spend, _check_timing, prune).
HandoffUsedOnce == \A a \in Assertions : accepted[a] <= 1

\* "Refuse instead": an organization is never left without an owner
\* (change_member_role, remove_member; services/accounts.py:140-144).  The code
\* does not keep it: two requests may count the two owners before either of them
\* has written its own change.
LastOwnerStays == \A o \in organizations : Owners(o) # {}

\* That is the only way: the request that takes the last owner was overtaken,
\* between its count and its write, by another change of the same organization.
OnlyTheOvertakenTakeTheLastOwner ==
    [][\A o \in organizations :
          Owners(o) # {} /\ Owners(o)' = {} =>
              \E r \in MemberRequests :
                  /\ changes[r] # None /\ changes'[r] = None
                  /\ changes[r].overtaken /\ changes[r].membership[1] = o]_vars
=============================================================================
