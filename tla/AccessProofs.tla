---------------------------- MODULE AccessProofs ----------------------------
(***************************************************************************)
(* Who may act: theorems about Access, for any number of users,             *)
(* organizations, browsers, assertions and requests and any limits, and     *)
(* about Entitlements, for any plans, capabilities and times.  The two have *)
(* no name in common, so one module can extend both.                        *)
(***************************************************************************)
EXTENDS Access, Entitlements, FiniteSetTheorems, TLAPS

-----------------------------------------------------------------------------
(* Sessions                                                                 *)

IsSession(session) ==
    session = [user |-> session.user, org |-> session.org,
               pending |-> session.pending, pendingOrg |-> session.pendingOrg]

\* Whoever is signed in or owes a code has shown the first factor, and whoever
\* is signed in has shown the code that was due.
IsProven(session, proof) ==
    /\ session.user # None =>
          "first" \in proof.user /\ ("owed" \in proof.user => "code" \in proof.user)
    /\ session.pending # None => "first" \in proof.pending

\* The inductive invariant of the sessions: what a browser has shown so far is
\* needed for those that still owe a code.
SessionInvariant ==
    /\ sessions = [b \in Browsers |-> sessions[b]]
    /\ proved = [b \in Browsers |-> proved[b]]
    /\ \A b \in Browsers :
          /\ IsSession(sessions[b])
          /\ proved[b] = [user |-> proved[b].user, pending |-> proved[b].pending]
          /\ IsProven(sessions[b], proved[b])

\* What a step does to one browser.
Sets(b, session, proof) ==
    /\ sessions' = [sessions EXCEPT ![b] = session]
    /\ proved' = [proved EXCEPT ![b] = proof]

\* A step that leaves one browser proven keeps the invariant.
LEMMA OneBrowser ==
    ASSUME SessionInvariant, NEW b \in Browsers, NEW session, NEW proof, Sets(b, session, proof),
           IsSession(session), proof = [user |-> proof.user, pending |-> proof.pending],
           IsProven(session, proof)
    PROVE  SessionInvariant'
<1>1. /\ sessions' = [c \in Browsers |-> sessions'[c]] /\ proved' = [c \in Browsers |-> proved'[c]]
      /\ sessions'[b] = session /\ proved'[b] = proof
      /\ \A c \in Browsers : c # b => sessions'[c] = sessions[c] /\ proved'[c] = proved[c]
  BY DEF SessionInvariant, Sets
<1> QED BY <1>1 DEF SessionInvariant

\* A session with a user, or with a code that is due.
LEMMA ChangedSession ==
    ASSUME NEW s, IsSession(s), NEW x, NEW y
    PROVE  /\ SignedIn(s, x, y) =
                 [user |-> x, org |-> y, pending |-> s.pending, pendingOrg |-> s.pendingOrg]
           /\ OwingCode(s, x, y) =
                 [user |-> s.user, org |-> s.org, pending |-> x, pendingOrg |-> y]
<1> DEFINE u == s.user
           o == s.org
           p == s.pending
           q == s.pendingOrg
<1> HIDE DEF u, o, p, q
<1>1. s = [user |-> u, org |-> o, pending |-> p, pendingOrg |-> q]
  BY DEF IsSession, u, o, p, q
<1>2. SignedIn(s, x, y) = [user |-> x, org |-> y, pending |-> p, pendingOrg |-> q]
  <2> DEFINE after == SignedIn(s, x, y)
  <2>1. after = [s EXCEPT !.user = x, !.org = y]
    BY DEF SignedIn
  <2> HIDE DEF after
  <2>2. after = [user |-> x, org |-> y, pending |-> p, pendingOrg |-> q]
    BY <1>1, <2>1
  <2> QED BY <2>2 DEF after
<1>3. OwingCode(s, x, y) = [user |-> u, org |-> o, pending |-> x, pendingOrg |-> y]
  <2> DEFINE after == OwingCode(s, x, y)
  <2>1. after = [s EXCEPT !.pending = x, !.pendingOrg = y]
    BY DEF OwingCode
  <2> HIDE DEF after
  <2>2. after = [user |-> u, org |-> o, pending |-> x, pendingOrg |-> y]
    BY <1>1, <2>1
  <2> QED BY <2>2 DEF after
<1> QED BY <1>2, <1>3 DEF u, o, p, q

\* The end of every way in: all of the session is new, and the facts are there.
LEMMA FinishedLogin ==
    ASSUME SessionInvariant, NEW b \in Browsers, NEW u, NEW org, NEW facts,
           "first" \in facts, "owed" \in facts => "code" \in facts,
           FinishLogin(b, u, org, facts)
    PROVE  SessionInvariant'
<1> DEFINE proof == [user |-> facts, pending |-> {}]
<1>1. PICK o : sessions' = [sessions EXCEPT ![b] = SignedIn(Anonymous, u, o)]
  BY DEF FinishLogin
<1> DEFINE session == [user |-> u, org |-> o, pending |-> None, pendingOrg |-> None]
<1>2. SignedIn(Anonymous, u, o) = session
  <2>1. IsSession(Anonymous) /\ Anonymous.pending = None /\ Anonymous.pendingOrg = None
    BY DEF Anonymous, IsSession
  <2> QED BY <2>1, ChangedSession
<1>3. proved' = [proved EXCEPT ![b] = proof]
  BY DEF FinishLogin
<1>4. /\ IsSession(session) /\ proof = [user |-> proof.user, pending |-> proof.pending]
      /\ IsProven(session, proof)
  BY DEF IsSession, IsProven
<1> HIDE DEF session, proof
<1>5. Sets(b, session, proof)
  BY <1>1, <1>2, <1>3 DEF Sets
<1> QED BY <1>4, <1>5, OneBrowser

\* A code is due: who is signed in stays so, and the first factor is noted.
LEMMA CodeIsDue ==
    ASSUME SessionInvariant, NEW b \in Browsers, NEW facts, "first" \in facts,
           NEW session, session = [user |-> sessions[b].user, org |-> sessions[b].org,
                                   pending |-> session.pending, pendingOrg |-> session.pendingOrg],
           sessions' = [sessions EXCEPT ![b] = session],
           proved' = [proved EXCEPT ![b].pending = facts]
    PROVE  SessionInvariant'
<1> DEFINE shown == proved[b].user
           proof == [user |-> shown, pending |-> facts]
<1>1. proved[b] = [user |-> shown, pending |-> proved[b].pending]
  BY DEF SessionInvariant
<1>2. proved' = [proved EXCEPT ![b] = [proved[b] EXCEPT !.pending = facts]]
  OBVIOUS
<1> HIDE DEF shown
<1>3. [proved[b] EXCEPT !.pending = facts] = proof
  BY <1>1
<1>4. Sets(b, session, proof)
  BY <1>2, <1>3 DEF Sets
<1>5. session.user = sessions[b].user /\ IsSession(session)
  BY DEF IsSession
<1>6. IsProven(session, proof)
  BY <1>5 DEF IsProven, SessionInvariant, shown
<1>7. proof = [user |-> proof.user, pending |-> proof.pending]
  OBVIOUS
<1> HIDE DEF proof
<1> QED BY <1>4, <1>5, <1>6, <1>7, OneBrowser

\* An account that is not locked has shown a first factor, and owes nothing more
\* without a second one.
LEMMA UnlockedFactor ==
    ASSUME NEW u, ~IsLocked(u)
    PROVE  /\ "first" \in FirstFactor(u)
           /\ ~users[u].mfa => "owed" \notin FirstFactor(u)
  BY DEF FirstFactor

\* Nobody is signed in at first.
LEMMA InitSession == Init => SessionInvariant
<1> SUFFICES ASSUME Init PROVE SessionInvariant
  OBVIOUS
<1>1. /\ sessions = [b \in Browsers |-> Anonymous]
      /\ proved = [b \in Browsers |-> [user |-> {}, pending |-> {}]]
  BY DEF Init
<1>2. IsSession(Anonymous) /\ IsProven(Anonymous, [user |-> {}, pending |-> {}])
  BY DEF IsSession, IsProven, Anonymous
<1> QED BY <1>1, <1>2 DEF SessionInvariant

\* Registration.
LEMMA RegisterKeepsSession ==
    ASSUME SessionInvariant, NEW b \in Browsers, NEW u \in Users, NEW o, Register(b, u, o)
    PROVE  SessionInvariant'
<1> DEFINE s == sessions[b]
           session == [user |-> u, org |-> o, pending |-> s.pending, pendingOrg |-> s.pendingOrg]
           was == proved[b].pending
           shown == {"first"}
           proof == [user |-> shown, pending |-> was]
<1>1. sessions' = [sessions EXCEPT ![b] = session]
  <2>1. sessions' = [sessions EXCEPT ![b] = SignedIn(s, u, o)]
    BY DEF Register
  <2> QED BY <2>1, ChangedSession DEF SessionInvariant
<1>2. proved' = [proved EXCEPT ![b] = proof]
  <2>1. proved' = [proved EXCEPT ![b] = [proved[b] EXCEPT !.user = shown]]
    BY DEF Register
  <2>2. proved[b] = [user |-> proved[b].user, pending |-> was]
    BY DEF SessionInvariant
  <2> HIDE DEF was, shown
  <2>3. [proved[b] EXCEPT !.user = shown] = proof
    BY <2>2
  <2> QED BY <2>1, <2>3
<1>3. /\ IsSession(session) /\ proof = [user |-> proof.user, pending |-> proof.pending]
  BY DEF IsSession
<1>4. IsProven(session, proof)
  BY DEF IsProven, SessionInvariant
<1> HIDE DEF session, proof
<1> QED BY <1>1, <1>2, <1>3, <1>4, OneBrowser DEF Sets

\* A right password ends the way in, or the code is due.
LEMMA PasswordKeepsSession ==
    ASSUME SessionInvariant, NEW b \in Browsers, NEW u \in Users, RightPassword(b, u)
    PROVE  SessionInvariant'
<1>1. "first" \in FirstFactor(u) /\ (~users[u].mfa => "owed" \notin FirstFactor(u))
  BY UnlockedFactor DEF RightPassword
<1>2. CASE users[u].mfa
  <2> DEFINE s == sessions[b]
             session == [user |-> s.user, org |-> s.org, pending |-> u, pendingOrg |-> s.pendingOrg]
  <2>1. sessions' = [sessions EXCEPT ![b] = session]
    <3>1. sessions' = [sessions EXCEPT ![b] = OwingCode(s, u, s.pendingOrg)]
      BY <1>2 DEF RightPassword
    <3>2. IsSession(s)
      BY DEF SessionInvariant
    <3> HIDE DEF s
    <3>3. OwingCode(s, u, s.pendingOrg) = session
      BY <3>2, ChangedSession
    <3> HIDE DEF session
    <3> QED BY <3>1, <3>3
  <2>2. proved' = [proved EXCEPT ![b].pending = FirstFactor(u)]
    BY <1>2 DEF RightPassword
  <2>3. session = [user |-> sessions[b].user, org |-> sessions[b].org,
                   pending |-> session.pending, pendingOrg |-> session.pendingOrg]
    OBVIOUS
  <2> HIDE DEF session
  <2> QED BY <1>1, <2>1, <2>2, <2>3, CodeIsDue
<1>3. CASE ~users[u].mfa
  <2>1. FinishLogin(b, u, None, FirstFactor(u))
    BY <1>3 DEF RightPassword
  <2> QED BY <1>1, <1>3, <2>1, FinishedLogin
<1> QED BY <1>2, <1>3

\* A right code.
LEMMA CodeKeepsSession ==
    ASSUME SessionInvariant, NEW b \in Browsers, RightCode(b)
    PROVE  SessionInvariant'
<1> DEFINE facts == proved[b].pending \cup {"code"}
<1>1. sessions[b].pending # None
      /\ FinishLogin(b, sessions[b].pending, sessions[b].pendingOrg, facts)
  BY DEF RightCode
<1>2. "first" \in facts /\ "code" \in facts
  BY <1>1 DEF SessionInvariant, IsProven
<1> HIDE DEF facts
<1> QED BY <1>1, <1>2, FinishedLogin

\* The end of a hand-off, for whoever is not locked.
LEMMA AcceptKeepsSession ==
    ASSUME SessionInvariant, NEW r \in HandoffRequests, handoffs[r].browser \in Browsers,
           Accept(r)
    PROVE  SessionInvariant'
<1> DEFINE b == handoffs[r].browser
           u == assertions[handoffs[r].jti].user
           o == assertions[handoffs[r].jti].org
<1>1. "first" \in FirstFactor(u) /\ (~users[u].mfa => "owed" \notin FirstFactor(u))
  BY UnlockedFactor DEF Accept, Admissible
<1>2. CASE users[u].mfa
  <2> DEFINE s == sessions[b]
             session == [user |-> s.user, org |-> s.org, pending |-> u, pendingOrg |-> o]
  <2>1. sessions' = [sessions EXCEPT ![b] = session]
    <3>1. sessions' = [sessions EXCEPT ![b] = OwingCode(s, u, o)]
      BY <1>2 DEF Accept, NeedsCode
    <3>2. IsSession(s)
      BY DEF SessionInvariant
    <3> HIDE DEF s, u, o, b
    <3>3. OwingCode(s, u, o) = session
      BY <3>2, ChangedSession
    <3> HIDE DEF session
    <3> QED BY <3>1, <3>3
  <2>2. proved' = [proved EXCEPT ![b].pending = FirstFactor(u)]
    BY <1>2 DEF Accept, NeedsCode
  <2>3. session = [user |-> sessions[b].user, org |-> sessions[b].org,
                   pending |-> session.pending, pendingOrg |-> session.pendingOrg]
    OBVIOUS
  <2> HIDE DEF session, u, o
  <2> QED BY <1>1, <2>1, <2>2, <2>3, CodeIsDue
<1>3. CASE ~users[u].mfa
  <2>1. FinishLogin(b, u, o, FirstFactor(u))
    BY <1>3 DEF Accept, NeedsCode
  <2> HIDE DEF u, o
  <2> QED BY <1>1, <1>3, <2>1, FinishedLogin
<1> QED BY <1>2, <1>3

\* Signing out.
LEMMA SignOutKeepsSession ==
    ASSUME SessionInvariant, NEW b \in Browsers, SignOut(b)
    PROVE  SessionInvariant'
<1> DEFINE s == sessions[b]
           session == [user |-> None, org |-> None, pending |-> s.pending,
                       pendingOrg |-> s.pendingOrg]
           was == proved[b].pending
           shown == {}
           proof == [user |-> shown, pending |-> was]
<1>1. sessions' = [sessions EXCEPT ![b] = session]
  <2>1. sessions' = [sessions EXCEPT ![b] = SignedIn(s, None, None)]
    BY DEF SignOut
  <2> QED BY <2>1, ChangedSession DEF SessionInvariant
<1>2. proved' = [proved EXCEPT ![b] = proof]
  <2>1. proved' = [proved EXCEPT ![b] = [proved[b] EXCEPT !.user = shown]]
    BY DEF SignOut
  <2>2. proved[b] = [user |-> proved[b].user, pending |-> was]
    BY DEF SessionInvariant
  <2> HIDE DEF was, shown
  <2>3. [proved[b] EXCEPT !.user = shown] = proof
    BY <2>2
  <2> QED BY <2>1, <2>3
<1>3. IsSession(session) /\ proof = [user |-> proof.user, pending |-> proof.pending]
  BY DEF IsSession
<1>4. IsProven(session, proof)
  BY DEF IsProven, SessionInvariant
<1> HIDE DEF session, proof
<1> QED BY <1>1, <1>2, <1>3, <1>4, OneBrowser DEF Sets

\* A change of the organization.
LEMMA SwitchKeepsSession ==
    ASSUME SessionInvariant, NEW b \in Browsers, NEW o, SwitchOrganization(b, o)
    PROVE  SessionInvariant'
<1> DEFINE s == sessions[b]
           session == [user |-> s.user, org |-> o, pending |-> s.pending,
                       pendingOrg |-> s.pendingOrg]
           proof == proved[b]
<1>1. sessions' = [sessions EXCEPT ![b] = session]
  <2>1. sessions' = [sessions EXCEPT ![b] = SignedIn(s, s.user, o)]
    BY DEF SwitchOrganization
  <2> QED BY <2>1, ChangedSession DEF SessionInvariant
<1>2. proved' = [proved EXCEPT ![b] = proof]
  BY DEF SwitchOrganization, SessionInvariant
<1>3. IsSession(session) /\ proof = [user |-> proof.user, pending |-> proof.pending]
  BY DEF IsSession, SessionInvariant
<1>4. IsProven(session, proof)
  BY DEF IsProven, SessionInvariant
<1> HIDE DEF session, proof
<1> QED BY <1>1, <1>2, <1>3, <1>4, OneBrowser DEF Sets

-----------------------------------------------------------------------------
(* Hand-offs                                                                *)

\* An assertion that was accepted is in the table of spent ones, which forgets
\* it only when it is too old on any clock, or it is too old already.
IsSpent(a) ==
    \/ assertions[a].age > MaxAge
    \/ a \in DOMAIN spent /\ assertions[a].age >= spent[a] - Skew

\* The inductive invariant of the hand-offs: an open callback holds a jti that
\* nobody has accepted and no other callback holds.
HandoffInvariant ==
    /\ \A a \in DOMAIN assertions : assertions[a].age \in Int /\ assertions[a].age >= -Skew
    /\ assertions = [a \in DOMAIN assertions |-> assertions[a]]
    /\ \A a \in DOMAIN assertions :
          assertions[a] = [user |-> assertions[a].user, org |-> assertions[a].org,
                           age |-> assertions[a].age]
    /\ \A a \in DOMAIN spent : spent[a] \in Int
    /\ accepted \in [Assertions -> {0, 1}]
    /\ \A a \in Assertions : accepted[a] = 1 => a \in DOMAIN assertions /\ IsSpent(a)
    /\ handoffs = [r \in HandoffRequests |-> handoffs[r]]
    /\ \A r \in HandoffRequests : handoffs[r] # None =>
          /\ handoffs[r].browser \in Browsers
          /\ handoffs[r].jti \in DOMAIN assertions \cap Assertions
          /\ accepted[handoffs[r].jti] = 0
          /\ \A q \in HandoffRequests :
                q # r /\ handoffs[q] # None => handoffs[q].jti # handoffs[r].jti

\* A spent jti is kept for as long as any clock may take the assertion to be in
\* time (KEEP_SPENT_FOR).
LEMMA Ages == /\ Skew \in Nat \ {0} /\ MaxAge \in Nat \ {0}
              /\ KeepSpentFor \in Nat \ {0} /\ KeepSpentFor >= MaxAge + Skew
  BY SettingsFit

\* Nothing is minted, spent or accepted at first.
LEMMA InitHandoff == Init => HandoffInvariant
<1> SUFFICES ASSUME Init PROVE HandoffInvariant
  OBVIOUS
<1>1. DOMAIN <<>> = {} /\ <<>> = [a \in {} |-> <<>>[a]]
  OBVIOUS
<1>2. assertions = <<>> /\ spent = <<>> /\ accepted = [a \in Assertions |-> 0]
      /\ handoffs = [r \in HandoffRequests |-> None]
  BY DEF Init
<1> QED BY <1>1, <1>2 DEF HandoffInvariant

\* The bridge signs an assertion that nobody has seen.
LEMMA MintKeepsHandoff ==
    ASSUME HandoffInvariant, NEW a \in Assertions, NEW u, NEW o, NEW age \in -Skew..0,
           Mint(a, u, o, age)
    PROVE  HandoffInvariant'
<1> DEFINE row == [user |-> u, org |-> o, age |-> age]
<1>1. /\ a \notin DOMAIN assertions /\ assertions' = With(assertions, a, row)
      /\ spent' = spent /\ handoffs' = handoffs /\ accepted' = accepted
  BY DEF Mint
<1>2. row.age = age /\ row = [user |-> row.user, org |-> row.org, age |-> row.age]
      /\ age \in Int /\ age >= -Skew
  BY Ages
<1> HIDE DEF row
<1>3. /\ DOMAIN assertions' = DOMAIN assertions \cup {a} /\ assertions'[a] = row
      /\ \A x \in DOMAIN assertions : assertions'[x] = assertions[x]
      /\ assertions' = [x \in DOMAIN assertions' |-> assertions'[x]]
  BY <1>1 DEF With
<1> QED BY <1>1, <1>2, <1>3 DEF HandoffInvariant, IsSpent

\* A callback inserts a jti that is not spent: in time, so nobody accepted it.
LEMMA PresentKeepsHandoff ==
    ASSUME HandoffInvariant, NEW r \in HandoffRequests, NEW b \in Browsers,
           NEW a \in Assertions, Present(r, b, a)
    PROVE  HandoffInvariant'
<1> DEFINE callback == [browser |-> b, jti |-> a]
<1>1. /\ a \in DOMAIN assertions /\ assertions[a].age <= MaxAge /\ a \notin DOMAIN spent
      /\ \A q \in HandoffRequests : handoffs[q] # None => handoffs[q].jti # a
      /\ handoffs' = [handoffs EXCEPT ![r] = callback]
      /\ assertions' = assertions /\ spent' = spent /\ accepted' = accepted
  BY DEF Present, IsSigned, InTime
<1>2. accepted[a] = 0
  <2>1. accepted[a] \in {0, 1} /\ assertions[a].age \in Int
    BY <1>1 DEF HandoffInvariant
  <2>2. ~IsSpent(a)
    BY <1>1, <2>1, Ages DEF IsSpent
  <2> QED BY <2>1, <2>2 DEF HandoffInvariant
<1>3. callback.browser = b /\ callback.jti = a
  OBVIOUS
<1> HIDE DEF callback
<1>4. /\ handoffs' = [q \in HandoffRequests |-> handoffs'[q]] /\ handoffs'[r] = callback
      /\ \A q \in HandoffRequests : q # r => handoffs'[q] = handoffs[q]
  BY <1>1 DEF HandoffInvariant
<1> QED BY <1>1, <1>2, <1>3, <1>4 DEF HandoffInvariant, IsSpent

\* An accepted jti is spent, and its assertion is at most Skew ahead of the row.
LEMMA AcceptKeepsHandoff ==
    ASSUME HandoffInvariant, NEW r \in HandoffRequests, Accept(r)
    PROVE  HandoffInvariant'
<1> DEFINE a == handoffs[r].jti
<1>1. /\ handoffs[r] # None /\ spent' = With(spent, a, 0)
      /\ accepted' = [accepted EXCEPT ![a] = accepted[a] + 1]
      /\ handoffs' = [handoffs EXCEPT ![r] = None]
      /\ assertions' = assertions
  BY DEF Accept
<1>2. /\ a \in DOMAIN assertions /\ a \in Assertions /\ accepted[a] = 0
      /\ \A q \in HandoffRequests : q # r /\ handoffs[q] # None => handoffs[q].jti # a
  BY <1>1 DEF HandoffInvariant
<1> HIDE DEF a
<1>3. /\ DOMAIN spent' = DOMAIN spent \cup {a} /\ spent'[a] = 0
      /\ \A x \in DOMAIN spent : x # a => spent'[x] = spent[x]
  BY <1>1 DEF With
<1>4. /\ accepted' \in [Assertions -> {0, 1}] /\ accepted'[a] = 1
      /\ \A x \in Assertions : x # a => accepted'[x] = accepted[x]
  BY <1>1, <1>2 DEF HandoffInvariant
<1>5. /\ handoffs' = [q \in HandoffRequests |-> handoffs'[q]] /\ handoffs'[r] = None
      /\ \A q \in HandoffRequests : q # r => handoffs'[q] = handoffs[q]
  BY <1>1 DEF HandoffInvariant
<1>6. assertions[a].age \in Int /\ assertions[a].age >= 0 - Skew
  BY <1>2, Ages DEF HandoffInvariant
<1>7. \A x \in Assertions : accepted'[x] = 1 => x \in DOMAIN assertions /\ IsSpent(x)'
  BY <1>1, <1>2, <1>3, <1>4, <1>6 DEF HandoffInvariant, IsSpent
<1>8. \A x \in DOMAIN spent' : spent'[x] \in Int
  BY <1>3 DEF HandoffInvariant
<1>9. \A q \in HandoffRequests : handoffs'[q] # None =>
          /\ handoffs'[q].browser \in Browsers
          /\ handoffs'[q].jti \in DOMAIN assertions \cap Assertions
          /\ accepted'[handoffs'[q].jti] = 0
          /\ \A p \in HandoffRequests :
                p # q /\ handoffs'[p] # None => handoffs'[p].jti # handoffs'[q].jti
  BY <1>2, <1>4, <1>5 DEF HandoffInvariant
<1> QED BY <1>1, <1>4, <1>5, <1>7, <1>8, <1>9 DEF HandoffInvariant

\* A refusal rolls the insert back.
LEMMA RefuseKeepsHandoff ==
    ASSUME HandoffInvariant, NEW r \in HandoffRequests, Refuse(r)
    PROVE  HandoffInvariant'
<1>1. /\ handoffs' = [handoffs EXCEPT ![r] = None]
      /\ assertions' = assertions /\ spent' = spent /\ accepted' = accepted
  BY DEF Refuse
<1>2. /\ handoffs' = [q \in HandoffRequests |-> handoffs'[q]] /\ handoffs'[r] = None
      /\ \A q \in HandoffRequests : q # r => handoffs'[q] = handoffs[q]
  BY <1>1 DEF HandoffInvariant
<1> QED BY <1>1, <1>2 DEF HandoffInvariant, IsSpent

\* The table forgets a jti when its assertion is too old on any clock.
LEMMA PruneKeepsHandoff ==
    ASSUME HandoffInvariant, Prune
    PROVE  HandoffInvariant'
<1>1. /\ DOMAIN spent' = DOMAIN spent \ Prunable
      /\ \A a \in DOMAIN spent' : spent'[a] = spent[a]
      /\ assertions' = assertions /\ handoffs' = handoffs /\ accepted' = accepted
  BY DEF Prune, Pruned
<1>2. \A a \in DOMAIN spent : a \notin DOMAIN spent' => spent[a] > KeepSpentFor
  BY <1>1 DEF Prunable
<1>3. ASSUME NEW a \in DOMAIN assertions, IsSpent(a) PROVE IsSpent(a)'
  <2>1. CASE a \in DOMAIN spent \ DOMAIN spent'
    <3>1. spent[a] > KeepSpentFor /\ spent[a] \in Int /\ assertions[a].age \in Int
      BY <1>2, <2>1 DEF HandoffInvariant
    <3>2. assertions[a].age > MaxAge
      BY <1>3, <3>1, Ages DEF IsSpent
    <3> QED BY <1>1, <3>2 DEF IsSpent
  <2>2. CASE a \notin DOMAIN spent \ DOMAIN spent'
    BY <1>1, <1>3, <2>2 DEF IsSpent
  <2> QED BY <2>1, <2>2
<1> QED BY <1>1, <1>3 DEF HandoffInvariant

\* Both clocks go on.
LEMMA TickKeepsHandoff ==
    ASSUME HandoffInvariant, Tick
    PROVE  HandoffInvariant'
<1>1. /\ assertions' = [a \in DOMAIN assertions |->
                          [assertions[a] EXCEPT !.age = Older(assertions[a].age, MaxAge)]]
      /\ spent' = [a \in DOMAIN spent |-> Older(spent[a], KeepSpentFor)]
      /\ handoffs' = handoffs /\ accepted' = accepted
  BY DEF Tick
<1>2. ASSUME NEW a \in DOMAIN assertions
      PROVE  /\ assertions'[a] = [user |-> assertions'[a].user, org |-> assertions'[a].org,
                                  age |-> assertions'[a].age]
             /\ assertions'[a].age = Older(assertions[a].age, MaxAge)
  <2> DEFINE row == assertions[a]
             u == row.user
             o == row.org
             g == row.age
             n == Older(g, MaxAge)
  <2>1. assertions'[a] = [row EXCEPT !.age = n]
    BY <1>1
  <2>2. row = [user |-> u, org |-> o, age |-> g]
    BY DEF HandoffInvariant
  <2> HIDE DEF row, u, o, g, n
  <2>3. assertions'[a] = [user |-> u, org |-> o, age |-> n]
    BY <2>1, <2>2
  <2> QED BY <2>3 DEF n, g, row
<1>3. \A n \in Int : Older(n, MaxAge) \in Int /\ Older(n, MaxAge) >= n
                     /\ (n > MaxAge => Older(n, MaxAge) > MaxAge)
                     /\ (~(n > MaxAge) => Older(n, MaxAge) = n + 1)
  BY Ages DEF Older
<1>4. \A n \in Int : Older(n, KeepSpentFor) \in Int /\ Older(n, KeepSpentFor) <= n + 1
  BY DEF Older
<1>5. DOMAIN assertions' = DOMAIN assertions /\ DOMAIN spent' = DOMAIN spent
      /\ \A a \in DOMAIN spent : spent'[a] = Older(spent[a], KeepSpentFor)
  BY <1>1
<1>6. ASSUME NEW a \in DOMAIN assertions
      PROVE  assertions'[a].age \in Int /\ assertions'[a].age >= -Skew
  <2> DEFINE g == assertions[a].age
             n == Older(g, MaxAge)
  <2>1. g \in Int /\ g >= -Skew
    BY DEF HandoffInvariant
  <2> HIDE DEF g
  <2>2. n \in Int /\ n >= g
    BY <1>3, <2>1
  <2> HIDE DEF n
  <2>3. assertions'[a].age = n
    BY <1>2 DEF n, g
  <2> QED BY <2>1, <2>2, <2>3, Ages
<1>7. ASSUME NEW a \in DOMAIN assertions, IsSpent(a) PROVE IsSpent(a)'
  <2>1. assertions[a].age \in Int
    BY DEF HandoffInvariant
  <2>2. CASE assertions[a].age > MaxAge
    <3>1. assertions'[a].age > MaxAge
      BY <1>2, <1>3, <2>1, <2>2
    <3> QED BY <3>1 DEF IsSpent
  <2>3. CASE ~(assertions[a].age > MaxAge)
    <3>1. a \in DOMAIN spent /\ assertions[a].age >= spent[a] - Skew /\ spent[a] \in Int
      BY <1>7, <2>3 DEF IsSpent, HandoffInvariant
    <3>2. assertions'[a].age = assertions[a].age + 1
      BY <1>2, <1>3, <2>1, <2>3
    <3>3. spent'[a] \in Int /\ spent'[a] <= spent[a] + 1
      BY <1>4, <1>5, <3>1
    <3>4. assertions'[a].age >= spent'[a] - Skew
      BY <2>1, <3>1, <3>2, <3>3, Ages
    <3> QED BY <1>5, <3>1, <3>4 DEF IsSpent
  <2> QED BY <2>2, <2>3
<1>8. \A a \in DOMAIN spent' : spent'[a] \in Int
  BY <1>4, <1>5 DEF HandoffInvariant
<1>9. \A a \in Assertions : accepted'[a] = 1 => a \in DOMAIN assertions' /\ IsSpent(a)'
  BY <1>1, <1>5, <1>7 DEF HandoffInvariant
<1>10. \A a \in DOMAIN assertions' :
          /\ assertions'[a].age \in Int /\ assertions'[a].age >= -Skew
          /\ assertions'[a] = [user |-> assertions'[a].user, org |-> assertions'[a].org,
                               age |-> assertions'[a].age]
  BY <1>2, <1>5, <1>6
<1>11. handoffs' = handoffs /\ accepted' = accepted
  BY <1>1
<1>12. \A r \in HandoffRequests : handoffs'[r] # None =>
          /\ handoffs'[r].browser \in Browsers
          /\ handoffs'[r].jti \in DOMAIN assertions' \cap Assertions
          /\ accepted'[handoffs'[r].jti] = 0
          /\ \A q \in HandoffRequests :
                q # r /\ handoffs'[q] # None => handoffs'[q].jti # handoffs'[r].jti
  <2>1. DOMAIN assertions' = DOMAIN assertions
    BY <1>5
  <2> QED BY <1>11, <2>1 DEF HandoffInvariant
<1>13. accepted' \in [Assertions -> {0, 1}] /\ handoffs' = [r \in HandoffRequests |-> handoffs'[r]]
  BY <1>11 DEF HandoffInvariant
<1>14. assertions' = [a \in DOMAIN assertions' |-> assertions'[a]]
  <2>1. assertions' = [a \in DOMAIN assertions |->
                          [assertions[a] EXCEPT !.age = Older(assertions[a].age, MaxAge)]]
    BY <1>1
  <2> QED BY <2>1
<1> QED BY <1>8, <1>9, <1>10, <1>12, <1>13, <1>14 DEF HandoffInvariant

-----------------------------------------------------------------------------
(* The sessions and the hand-offs together                                  *)

\* The rest of the system leaves the sessions alone.
LEMMA SessionFrame ==
    ASSUME SessionInvariant, UNCHANGED <<sessions, proved>>
    PROVE  SessionInvariant'
  BY DEF SessionInvariant

\* The rest of the system leaves the hand-offs alone.
LEMMA HandoffFrame ==
    ASSUME HandoffInvariant, UNCHANGED bridge
    PROVE  HandoffInvariant'
  BY DEF HandoffInvariant, IsSpent, bridge

\* No step lets a browser in unproven.
LEMMA SessionStep ==
    ASSUME SessionInvariant, HandoffInvariant, [Next]_vars
    PROVE  SessionInvariant'
<1>1. ASSUME NEW u \in Users, NEW o \in Organizations, CreateAdmin(u, o) PROVE SessionInvariant'
  BY <1>1, SessionFrame DEF CreateAdmin
<1>2. ASSUME NEW u \in Users, WrongPassword(u) PROVE SessionInvariant'
  BY <1>2, SessionFrame DEF WrongPassword
<1>3. ASSUME NEW b \in Browsers, NEW u \in Users, NEW role, AddMember(b, u, role)
      PROVE  SessionInvariant'
  BY <1>3, SessionFrame DEF AddMember
<1>4. ASSUME NEW b \in Browsers, NEW u \in Users, NEW r, NEW role, ReadMember(r, b, u, role)
      PROVE  SessionInvariant'
  BY <1>4, SessionFrame DEF ReadMember
<1>5. ASSUME NEW b \in Browsers, EnableTwoFactor(b) \/ DisableTwoFactor(b)
      PROVE  SessionInvariant'
  BY <1>5, SessionFrame DEF EnableTwoFactor, DisableTwoFactor, SetTwoFactor
<1>6. ASSUME NEW r, NEW b, NEW a, Present(r, b, a) PROVE SessionInvariant'
  BY <1>6, SessionFrame DEF Present
<1>7. ASSUME NEW a, NEW u, NEW o, NEW age, Mint(a, u, o, age) PROVE SessionInvariant'
  BY <1>7, SessionFrame DEF Mint
<1>8. ASSUME NEW r, Refuse(r) PROVE SessionInvariant'
  BY <1>8, SessionFrame DEF Refuse
<1>9. ASSUME NEW r, WriteMember(r) PROVE SessionInvariant'
  BY <1>9, SessionFrame DEF WriteMember
<1>10. ASSUME Prune PROVE SessionInvariant'
  BY <1>10, SessionFrame DEF Prune
<1>11. ASSUME Tick PROVE SessionInvariant'
  BY <1>11, SessionFrame DEF Tick
<1>12. ASSUME NEW r \in HandoffRequests, Accept(r) PROVE SessionInvariant'
  <2>1. handoffs[r].browser \in Browsers
    BY <1>12 DEF Accept, HandoffInvariant
  <2> QED BY <1>12, <2>1, AcceptKeepsSession
<1>13. ASSUME UNCHANGED vars PROVE SessionInvariant'
  BY <1>13, SessionFrame DEF vars
<1> QED BY <1>1, <1>2, <1>3, <1>4, <1>5, <1>6, <1>7, <1>8, <1>9, <1>10, <1>11, <1>12, <1>13,
           RegisterKeepsSession, PasswordKeepsSession, CodeKeepsSession, SignOutKeepsSession,
           SwitchKeepsSession DEF Next

\* No step spends an assertion twice, or forgets it too early.
LEMMA HandoffStep ==
    ASSUME HandoffInvariant, [Next]_vars
    PROVE  HandoffInvariant'
<1>1. ASSUME NEW u \in Users, NEW o \in Organizations, CreateAdmin(u, o) PROVE HandoffInvariant'
  BY <1>1, HandoffFrame DEF CreateAdmin
<1>2. ASSUME NEW u \in Users, WrongPassword(u) PROVE HandoffInvariant'
  BY <1>2, HandoffFrame DEF WrongPassword
<1>3. ASSUME NEW b \in Browsers, NEW u \in Users,
             \/ \E o \in Organizations : Register(b, u, o)
             \/ RightPassword(b, u)
             \/ \E role \in Roles : AddMember(b, u, role)
             \/ \E r \in MemberRequests, role \in Roles \cup {None} : ReadMember(r, b, u, role)
      PROVE  HandoffInvariant'
  BY <1>3, HandoffFrame DEF Register, RightPassword, AddMember, ReadMember
<1>4. ASSUME NEW b \in Browsers,
             \/ RightCode(b) \/ SignOut(b) \/ EnableTwoFactor(b) \/ DisableTwoFactor(b)
             \/ \E o \in Organizations : SwitchOrganization(b, o)
      PROVE  HandoffInvariant'
  BY <1>4, HandoffFrame DEF RightCode, SignOut, EnableTwoFactor, DisableTwoFactor, SetTwoFactor,
                            SwitchOrganization
<1>5. ASSUME NEW r, WriteMember(r) PROVE HandoffInvariant'
  BY <1>5, HandoffFrame DEF WriteMember
<1>6. ASSUME UNCHANGED vars PROVE HandoffInvariant'
  BY <1>6, HandoffFrame DEF vars
<1> QED BY <1>1, <1>2, <1>3, <1>4, <1>5, <1>6, MintKeepsHandoff, PresentKeepsHandoff,
           AcceptKeepsHandoff, RefuseKeepsHandoff, PruneKeepsHandoff, TickKeepsHandoff DEF Next

\* In every reachable state the sessions are proven and the open callbacks hold
\* assertions nobody has accepted: the inductive invariants of sign-in.
THEOREM SignInInvariantHolds == Spec => [](SessionInvariant /\ HandoffInvariant)
<1>1. Init => SessionInvariant /\ HandoffInvariant
  BY InitSession, InitHandoff
<1>2. SessionInvariant /\ HandoffInvariant /\ [Next]_vars => (SessionInvariant /\ HandoffInvariant)'
  BY SessionStep, HandoffStep
<1> QED BY <1>1, <1>2, PTL DEF Spec

\* Whoever a browser is signed in as gave a first factor while the account was
\* not locked, and the code that was due, on every way in.  That the account is
\* not locked when the code is given does not hold, and is not said here.
THEOREM NobodyWalksIn == Spec => []SessionsAreProven
<1>1. SessionInvariant => SessionsAreProven
  BY DEF SessionInvariant, IsProven, SessionsAreProven
<1> QED BY <1>1, SignInInvariantHolds, PTL

\* An assertion of the bridge signs somebody in at most once, whatever callbacks
\* present it at the same time and whenever the table is pruned.
THEOREM NoAssertionIsReplayed == Spec => []HandoffUsedOnce
<1>1. HandoffInvariant => HandoffUsedOnce
  <2> SUFFICES ASSUME HandoffInvariant, NEW a \in Assertions PROVE accepted[a] <= 1
    BY DEF HandoffUsedOnce
  <2>1. accepted[a] \in {0, 1}
    BY DEF HandoffInvariant
  <2> QED BY <2>1
<1> QED BY <1>1, SignInInvariantHolds, PTL

-----------------------------------------------------------------------------
(* Members                                                                  *)

IsChange(change) ==
    change = [membership |-> change.membership, role |-> change.role,
              overtaken |-> change.overtaken]

\* An open change that was not overtaken leaves an owner, and its member is
\* there still.
IsCovered(change) ==
    ~change.overtaken =>
        /\ change.membership \in DOMAIN memberships
        /\ memberships[change.membership] = "owner" /\ change.role # "owner" =>
              \E v \in Owners(change.membership[1]) : v # change.membership[2]

\* The inductive invariant of the members.
OwnerInvariant ==
    /\ DOMAIN memberships \subseteq organizations \X Users
    /\ memberships = [m \in DOMAIN memberships |-> memberships[m]]
    /\ changes = [r \in MemberRequests |-> changes[r]]
    /\ \A r \in MemberRequests :
          changes[r] # None => IsChange(changes[r]) /\ IsCovered(changes[r])

AddsMember(o, u, role) ==
    /\ <<o, u>> \notin DOMAIN memberships
    /\ memberships' = With(memberships, <<o, u>>, role)

\* What a new member leaves as it was.
LEMMA AddedMember ==
    ASSUME OwnerInvariant, NEW o, NEW u \in Users, NEW role, AddsMember(o, u, role)
    PROVE  /\ DOMAIN memberships' = DOMAIN memberships \cup {<<o, u>>}
           /\ memberships'[<<o, u>>] = role
           /\ \A m \in DOMAIN memberships : memberships'[m] = memberships[m]
           /\ memberships' = [m \in DOMAIN memberships' |-> memberships'[m]]
           /\ \A p : Owners(p) \subseteq Owners(p)'
<1>1. /\ DOMAIN memberships' = DOMAIN memberships \cup {<<o, u>>}
      /\ memberships'[<<o, u>>] = role
      /\ \A m \in DOMAIN memberships : memberships'[m] = memberships[m]
      /\ memberships' = [m \in DOMAIN memberships' |-> memberships'[m]]
  BY DEF AddsMember, With
<1>2. \A p : Owners(p) \subseteq Owners(p)'
  BY <1>1 DEF Owners, IsMember
<1> QED BY <1>1, <1>2

\* A new member leaves every open change covered.
LEMMA AdditionKeepsCovered ==
    ASSUME OwnerInvariant, NEW o, NEW u \in Users, NEW role, AddsMember(o, u, role),
           changes' = changes, NEW r \in MemberRequests, changes[r] # None
    PROVE  IsCovered(changes[r])'
<1>1. IsCovered(changes[r])
  BY DEF OwnerInvariant
<1>2. /\ \A k \in DOMAIN memberships : k \in DOMAIN memberships' /\ memberships'[k] = memberships[k]
      /\ \A p : Owners(p) \subseteq Owners(p)'
  BY AddedMember
<1> QED BY <1>1, <1>2 DEF IsCovered

\* Nobody has an organization at first.
LEMMA InitOwner == Init => OwnerInvariant
<1> SUFFICES ASSUME Init PROVE OwnerInvariant
  OBVIOUS
<1>1. DOMAIN <<>> = {} /\ <<>> = [m \in {} |-> <<>>[m]]
  OBVIOUS
<1>2. memberships = <<>> /\ organizations = {} /\ changes = [r \in MemberRequests |-> None]
  BY DEF Init
<1> QED BY <1>1, <1>2 DEF OwnerInvariant

\* No organization loses an owner.
OwnersRemain == \A o \in organizations : Owners(o) \subseteq Owners(o)'

\* A new organization has an owner.
LEMMA NewAccountKeepsOwner ==
    ASSUME OwnerInvariant, NEW u \in Users, NEW o, NewAccount(u, o), changes' = changes
    PROVE  OwnerInvariant' /\ OwnersRemain
<1>1. o \notin organizations /\ organizations' = organizations \cup {o}
      /\ memberships' = With(memberships, <<o, u>>, "owner")
  BY DEF NewAccount
<1>2. <<o, u>> \notin DOMAIN memberships
  BY <1>1 DEF OwnerInvariant
<1>3. AddsMember(o, u, "owner")
  BY <1>1, <1>2 DEF AddsMember
<1>4. \A r \in MemberRequests : changes'[r] # None => IsCovered(changes[r])'
  BY <1>3, AdditionKeepsCovered
<1>5. /\ DOMAIN memberships' = DOMAIN memberships \cup {<<o, u>>}
      /\ memberships' = [m \in DOMAIN memberships' |-> memberships'[m]]
      /\ \A p : Owners(p) \subseteq Owners(p)'
  BY <1>3, AddedMember
<1>6. DOMAIN memberships' \subseteq organizations' \X Users
  BY <1>1, <1>5 DEF OwnerInvariant
<1> QED BY <1>4, <1>5, <1>6 DEF OwnerInvariant, OwnersRemain, IsChange

\* A new member takes nobody's place.
LEMMA AddMemberKeepsOwner ==
    ASSUME OwnerInvariant, NEW b, NEW u \in Users, NEW role, AddMember(b, u, role)
    PROVE  OwnerInvariant' /\ OwnersRemain
<1> DEFINE o == sessions[b].org
<1>1. /\ AddsMember(o, u, role) /\ changes' = changes /\ organizations' = organizations
      /\ <<o, sessions[b].user>> \in DOMAIN memberships
  BY DEF AddMember, Join, AddsMember, IsMember, Manages, ActiveMembership
<1>2. o \in organizations
  BY <1>1 DEF OwnerInvariant
<1> HIDE DEF o
<1>3. \A r \in MemberRequests : changes'[r] # None => IsCovered(changes[r])'
  BY <1>1, AdditionKeepsCovered
<1>4. /\ DOMAIN memberships' = DOMAIN memberships \cup {<<o, u>>}
      /\ memberships' = [m \in DOMAIN memberships' |-> memberships'[m]]
      /\ \A p : Owners(p) \subseteq Owners(p)'
  BY <1>1, AddedMember
<1> QED BY <1>1, <1>2, <1>3, <1>4 DEF OwnerInvariant, OwnersRemain, IsChange

\* Two owners counted are another owner.
LEMMA AnotherOwner ==
    ASSUME NEW o, NEW u, ~(Cardinality(Owners(o)) <= 1)
    PROVE  \E v \in Owners(o) : v # u
<1> SUFFICES ASSUME Owners(o) \subseteq {u} PROVE FALSE
  OBVIOUS
<1>1. Owners(o) = {} \/ Owners(o) = {u}
  OBVIOUS
<1>2. Cardinality(Owners(o)) = 0 \/ Cardinality(Owners(o)) = 1
  BY <1>1, FS_EmptySet, FS_Singleton
<1> QED BY <1>2

\* A request that is let through counts another owner.
LEMMA ReadMemberKeepsOwner ==
    ASSUME OwnerInvariant, NEW r \in MemberRequests, NEW b, NEW u \in Users, NEW role,
           ReadMember(r, b, u, role)
    PROVE  OwnerInvariant' /\ OwnersRemain
<1> DEFINE o == sessions[b].org
           m == <<o, u>>
           change == [membership |-> m, role |-> role, overtaken |-> FALSE]
<1>1. /\ m \in DOMAIN memberships /\ ~LeavesNoOwner(m, role)
      /\ changes' = [changes EXCEPT ![r] = change]
      /\ memberships' = memberships /\ organizations' = organizations
  BY DEF ReadMember, accounts
<1>2. IsChange(change) /\ IsCovered(change)
  <2>1. memberships[m] = "owner" /\ role # "owner" => ~(Cardinality(Owners(o)) <= 1)
    BY <1>1 DEF LeavesNoOwner
  <2>2. memberships[m] = "owner" /\ role # "owner" => \E v \in Owners(o) : v # u
    BY <2>1, AnotherOwner
  <2> QED BY <1>1, <2>2 DEF IsCovered, IsChange
<1> HIDE DEF change
<1>3. /\ changes' = [q \in MemberRequests |-> changes'[q]] /\ changes'[r] = change
      /\ \A q \in MemberRequests : q # r => changes'[q] = changes[q]
  BY <1>1 DEF OwnerInvariant
<1>4. \A p : Owners(p)' = Owners(p)
  BY <1>1 DEF Owners, IsMember
<1>5. \A q \in MemberRequests :
        changes'[q] # None => IsChange(changes'[q]) /\ IsCovered(changes'[q])
  BY <1>2, <1>3 DEF OwnerInvariant
<1>6. \A q \in MemberRequests : changes'[q] # None => IsCovered(changes[q])'
  BY <1>1, <1>4, <1>5 DEF IsCovered
<1> QED BY <1>1, <1>3, <1>4, <1>5, <1>6 DEF OwnerInvariant, OwnersRemain, IsChange

\* What a write leaves as it was.
LEMMA WrittenMember ==
    ASSUME OwnerInvariant, NEW r \in MemberRequests, WriteMember(r)
    PROVE  LET m == changes[r].membership
           IN  /\ DOMAIN memberships' \subseteq DOMAIN memberships
               /\ \A k \in DOMAIN memberships : k # m =>
                     k \in DOMAIN memberships' /\ memberships'[k] = memberships[k]
               /\ m \in DOMAIN memberships /\ changes[r].role = "owner" =>
                     m \in DOMAIN memberships' /\ memberships'[m] = "owner"
               /\ memberships' = [k \in DOMAIN memberships' |-> memberships'[k]]
<1> DEFINE m == changes[r].membership
           role == changes[r].role
<1>1. memberships = [k \in DOMAIN memberships |-> memberships[k]]
  BY DEF OwnerInvariant
<1>2. CASE m \notin DOMAIN memberships
  <2>1. memberships' = memberships
    BY <1>2 DEF WriteMember
  <2> QED BY <1>1, <1>2, <2>1
<1>3. CASE m \in DOMAIN memberships /\ role = None
  <2>1. memberships' = Without(memberships, m) /\ role # "owner"
    BY <1>3, SettingsFit DEF WriteMember
  <2> QED BY <2>1 DEF Without
<1>4. CASE m \in DOMAIN memberships /\ role # None
  <2>1. memberships' = [memberships EXCEPT ![m] = role]
    BY <1>4 DEF WriteMember
  <2> HIDE DEF m, role
  <2>2. /\ DOMAIN memberships' = DOMAIN memberships /\ memberships'[m] = role
        /\ \A k \in DOMAIN memberships : k # m => memberships'[k] = memberships[k]
        /\ memberships' = [k \in DOMAIN memberships' |-> memberships'[k]]
    BY <1>1, <1>4, <2>1
  <2> QED BY <1>4, <2>2 DEF m, role
<1> QED BY <1>2, <1>3, <1>4

\* The other open changes of the organization are overtaken by a write, and
\* those of another organization find their members as they were.
LEMMA WriteMemberKeepsOwner ==
    ASSUME OwnerInvariant, NEW r \in MemberRequests, WriteMember(r)
    PROVE  OwnerInvariant'
<1> DEFINE m == changes[r].membership
<1>1. /\ changes' = [q \in MemberRequests |->
                        IF q = r THEN None ELSE Overtaken(changes[q], m[1])]
      /\ organizations' = organizations
  BY DEF WriteMember
<1>2. /\ DOMAIN memberships' \subseteq DOMAIN memberships
      /\ \A k \in DOMAIN memberships : k # m =>
            k \in DOMAIN memberships' /\ memberships'[k] = memberships[k]
      /\ memberships' = [k \in DOMAIN memberships' |-> memberships'[k]]
  BY WrittenMember
<1> HIDE DEF m
<1>3. ASSUME NEW p, p # m[1] PROVE Owners(p) \subseteq Owners(p)'
  <2>1. \A v : <<p, v>> # m
    BY <1>3
  <2> QED BY <1>2, <2>1 DEF Owners, IsMember
<1>4. ASSUME NEW q \in MemberRequests, changes'[q] # None
      PROVE  IsChange(changes'[q]) /\ IsCovered(changes[q])'
  <2> DEFINE change == changes[q]
  <2>1. q # r /\ changes'[q] = Overtaken(change, m[1]) /\ change # None
    BY <1>1, <1>4 DEF Overtaken
  <2>2. IsChange(change) /\ IsCovered(change)
    BY <2>1 DEF OwnerInvariant
  <2>3. CASE change.membership[1] = m[1]
    <3> DEFINE k == change.membership
               role == change.role
               was == change.overtaken
    <3>1. changes'[q] = [change EXCEPT !.overtaken = TRUE]
      BY <2>1, <2>3 DEF Overtaken
    <3>2. change = [membership |-> k, role |-> role, overtaken |-> was]
      BY <2>2 DEF IsChange
    <3> HIDE DEF change, k, role, was
    <3>3. changes'[q] = [membership |-> k, role |-> role, overtaken |-> TRUE]
      BY <3>1, <3>2
    <3> QED BY <3>3 DEF IsChange, IsCovered
  <2>4. CASE change.membership[1] # m[1]
    <3>1. changes'[q] = change
      BY <2>1, <2>4 DEF Overtaken
    <3> HIDE DEF change
    <3>2. change.membership # m
      BY <2>4
    <3> QED BY <1>2, <1>3, <2>2, <2>4, <3>1, <3>2 DEF IsCovered
  <2> QED BY <2>3, <2>4
<1>5. changes' = [q \in MemberRequests |-> changes'[q]]
  BY <1>1
<1>6. DOMAIN memberships' \subseteq organizations' \X Users
  BY <1>1, <1>2 DEF OwnerInvariant
<1> QED BY <1>2, <1>4, <1>5, <1>6 DEF OwnerInvariant

\* A request that was not overtaken writes with the owner it counted still there.
LEMMA WriteMemberLeavesOwner ==
    ASSUME OwnerInvariant, NEW r \in MemberRequests, WriteMember(r),
           NEW o \in organizations, Owners(o) # {}, Owners(o)' = {}
    PROVE  changes[r].overtaken /\ changes[r].membership[1] = o
<1> DEFINE m == changes[r].membership
           role == changes[r].role
<1>1. IsCovered(changes[r])
  BY DEF OwnerInvariant, WriteMember
<1>2. /\ \A k \in DOMAIN memberships : k # m =>
            k \in DOMAIN memberships' /\ memberships'[k] = memberships[k]
      /\ m \in DOMAIN memberships /\ role = "owner" =>
            m \in DOMAIN memberships' /\ memberships'[m] = "owner"
  BY WrittenMember
<1> HIDE DEF m, role
<1>3. ASSUME NEW v \in Owners(o)
      PROVE  <<o, v>> = m /\ <<o, v>> \in DOMAIN memberships
             /\ memberships[m] = "owner" /\ role # "owner"
  <2>1. v \in Users /\ <<o, v>> \in DOMAIN memberships /\ memberships[<<o, v>>] = "owner"
    BY <1>3 DEF Owners, IsMember
  <2> QED BY <1>2, <2>1 DEF Owners, IsMember
<1>4. PICK v \in Owners(o) : TRUE
  OBVIOUS
<1>5. m = <<o, v>> /\ m[1] = o /\ m[2] = v
  <2>1. m = <<o, v>>
    BY <1>3
  <2> QED BY <2>1
<1>6. \A w \in Owners(o) : w = v
  <2> SUFFICES ASSUME NEW w \in Owners(o) PROVE w = v
    OBVIOUS
  <2>1. <<o, w>> = <<o, v>>
    BY <1>3, <1>5
  <2> QED BY <2>1
<1> QED BY <1>1, <1>3, <1>4, <1>5, <1>6 DEF IsCovered, m, role

\* The rest of the system leaves the members alone.
LEMMA OwnerFrame ==
    ASSUME OwnerInvariant, UNCHANGED <<organizations, memberships, changes>>
    PROVE  OwnerInvariant' /\ OwnersRemain
  BY DEF OwnerInvariant, OwnersRemain, IsChange, IsCovered, Owners, IsMember

\* Every step keeps the invariant, and takes no owner unless it is a write.
LEMMA OwnerStep ==
    ASSUME OwnerInvariant, [Next]_vars
    PROVE  /\ OwnerInvariant'
           /\ OwnersRemain \/ \E r \in MemberRequests : WriteMember(r)
<1> DEFINE Kept == OwnerInvariant' /\ OwnersRemain
<1>1. ASSUME NEW u \in Users, NEW o, NEW b, CreateAdmin(u, o) \/ Register(b, u, o)
      PROVE  Kept
  BY <1>1, NewAccountKeepsOwner DEF CreateAdmin, Register
<1>2. ASSUME NEW u, WrongPassword(u) PROVE Kept
  BY <1>2, OwnerFrame DEF WrongPassword
<1>3. ASSUME NEW b, NEW u, RightPassword(b, u) PROVE Kept
  BY <1>3, OwnerFrame DEF RightPassword
<1>4. ASSUME NEW b,
             \/ RightCode(b) \/ SignOut(b) \/ EnableTwoFactor(b) \/ DisableTwoFactor(b)
             \/ \E o \in Organizations : SwitchOrganization(b, o)
      PROVE  Kept
  BY <1>4, OwnerFrame DEF RightCode, SignOut, EnableTwoFactor, DisableTwoFactor, SetTwoFactor,
                          SwitchOrganization, accounts
<1>5. ASSUME NEW r, NEW b, NEW a, Present(r, b, a) PROVE Kept
  BY <1>5, OwnerFrame DEF Present, accounts
<1>6. ASSUME NEW a, NEW u, NEW o, NEW age, Mint(a, u, o, age) PROVE Kept
  BY <1>6, OwnerFrame DEF Mint, accounts
<1>7. ASSUME NEW r, Accept(r) \/ Refuse(r) PROVE Kept
  BY <1>7, OwnerFrame DEF Accept, Refuse, accounts
<1>8. ASSUME Prune \/ Tick PROVE Kept
  BY <1>8, OwnerFrame DEF Prune, Tick, accounts
<1>9. ASSUME UNCHANGED vars PROVE Kept
  BY <1>9, OwnerFrame DEF vars, accounts
<1> QED BY <1>1, <1>2, <1>3, <1>4, <1>5, <1>6, <1>7, <1>8, <1>9, AddMemberKeepsOwner,
           ReadMemberKeepsOwner, WriteMemberKeepsOwner DEF Next

\* However many changes of members are served at the same time, an organization
\* loses its last owner only to one that another change of the same organization
\* overtook, between the count of owners it read and the row it writes.
THEOREM LastOwnerIsLostInARace == Spec => OnlyTheOvertakenTakeTheLastOwner
<1>1. OwnerInvariant /\ [Next]_vars => OwnerInvariant'
  BY OwnerStep
<1>2. OwnerInvariant /\ [Next]_vars =>
        [\A o \in organizations :
            Owners(o) # {} /\ Owners(o)' = {} =>
                \E r \in MemberRequests :
                    /\ changes[r] # None /\ changes'[r] = None
                    /\ changes[r].overtaken /\ changes[r].membership[1] = o]_vars
  <2> SUFFICES ASSUME OwnerInvariant, [Next]_vars, NEW o \in organizations,
                      Owners(o) # {}, Owners(o)' = {}
               PROVE  \E r \in MemberRequests :
                         /\ changes[r] # None /\ changes'[r] = None
                         /\ changes[r].overtaken /\ changes[r].membership[1] = o
    OBVIOUS
  <2>1. PICK r \in MemberRequests : WriteMember(r)
    BY OwnerStep DEF OwnersRemain
  <2>2. changes[r] # None /\ changes'[r] = None
    BY <2>1 DEF WriteMember
  <2> QED BY <2>1, <2>2, WriteMemberLeavesOwner
<1> QED BY <1>1, <1>2, InitOwner, PTL DEF Spec, OnlyTheOvertakenTakeTheLastOwner

-----------------------------------------------------------------------------
(* Entitlements: the inductive invariant                                    *)

\* What the process holds of an answer, with the ticks since each capability
\* was granted: the entry is at most a request timeout older than the newest
\* answered request, and what it allows was granted no longer ago than it is
\* old, with the time a request has been out since it read it.
IsEntry(entry, known, out, since) ==
    /\ entry = Nothing => known = Oldest
    /\ entry # Nothing =>
          /\ entry = [answer |-> entry.answer, age |-> entry.age]
          /\ entry.answer \in {Parsed(p) : p \in Plans}
          /\ entry.age \in 0..Oldest
          /\ entry.age <= known + RequestTimeout
          /\ \A c \in Capabilities :
                Allows(entry.answer, c) => since[c] <= entry.age + out

IsRequest(request, since) ==
    /\ request = [at |-> request.at, cached |-> request.cached, age |-> request.age,
                  answer |-> request.answer, known |-> request.known]
    /\ request.at = "fetching" =>
          /\ request.age \in 0..RequestTimeout
          /\ request.known \in 0..Oldest
          /\ IsEntry(request.cached, request.known, request.age, since)

PlanInvariant ==
    /\ plan \in Plans
    /\ sinceGood \in 0..Oldest
    /\ ungranted \in [Capabilities -> 0..Oldest]
    /\ \A c \in Capabilities : Granted(c) => ungranted[c] = 0
    /\ IsEntry(cache, sinceGood, 0, ungranted)
    /\ requests = [r \in Requests |-> requests[r]]
    /\ \A r \in Requests : IsRequest(requests[r], ungranted)

-----------------------------------------------------------------------------
(* Answers and entries                                                      *)

\* The times, and the bound of the ages.
LEMMA TimesAreNumbers ==
    /\ GraceTime \in Nat /\ RequestTimeout \in Nat /\ Oldest \in Nat
    /\ Oldest = GraceTime + RequestTimeout + 1
    /\ CacheTime \in Nat /\ CacheTime <= GraceTime
BY TimesFit DEF TimesFit, Oldest

\* An answer of the service is not the fallback, and it allows what the plan
\* it was given for grants (_parse).
LEMMA ParsedFacts ==
    ASSUME NEW p \in Plans
    PROVE  /\ Parsed(p) # Unreachable
           /\ \A c \in Capabilities : Allows(Parsed(p), c) =>
                 p.entitled /\ c \in DOMAIN p.limits /\ p.limits[c]
<1> DEFINE granted == [c \in Capabilities |->
                        IF c \in DOMAIN p.limits THEN p.limits[c] ELSE FALSE]
<1>1. DOMAIN p = {"entitled", "limits", "cap"}
  BY TimesFit DEF TimesFit
<1>2. Parsed(p).limits = granted /\ Parsed(p).entitled = p.entitled
  BY <1>1 DEF Parsed
<1>3. DOMAIN granted = Capabilities /\ Capabilities # {}
  BY TimesFit DEF TimesFit
<1>4. Unreachable.limits = <<>> /\ DOMAIN <<>> = {}
  BY DEF Unreachable
<1>5. Parsed(p) # Unreachable
  BY <1>2, <1>3, <1>4
<1>6. ASSUME NEW c \in Capabilities, Allows(Parsed(p), c)
      PROVE  p.entitled /\ c \in DOMAIN p.limits /\ p.limits[c]
  <2>1. p.entitled /\ granted[c]
    BY <1>2, <1>3, <1>6, Zenon DEF Allows
  <2> QED BY <2>1, Zenon
<1> QED BY <1>5, <1>6

\* Grants may come closer.
LEMMA EntryStays ==
    ASSUME NEW entry, NEW known, NEW out \in Int,
           NEW since \in [Capabilities -> 0..Oldest], NEW after \in [Capabilities -> 0..Oldest],
           \A c \in Capabilities : after[c] <= since[c],
           IsEntry(entry, known, out, since)
    PROVE  IsEntry(entry, known, out, after)
BY TimesAreNumbers DEF IsEntry

\* A tick later the request has been out a tick longer.
LEMMA EntryOutlasts ==
    ASSUME NEW entry, NEW known, NEW out \in Int,
           NEW since \in [Capabilities -> 0..Oldest], NEW after \in [Capabilities -> 0..Oldest],
           \A c \in Capabilities : after[c] <= since[c] + 1,
           IsEntry(entry, known, out, since)
    PROVE  IsEntry(entry, known, out + 1, after)
BY TimesAreNumbers DEF IsEntry

\* A tick later the entry is a tick older.
LEMMA EntryAges ==
    ASSUME NEW entry, NEW known \in 0..Oldest, entry # Nothing,
           NEW since \in [Capabilities -> 0..Oldest], NEW after \in [Capabilities -> 0..Oldest],
           \A c \in Capabilities : after[c] <= Aged(since[c]),
           IsEntry(entry, known, 0, since)
    PROVE  IsEntry([entry EXCEPT !.age = Aged(@)], Aged(known), 0, after)
<1> DEFINE older == [entry EXCEPT !.age = Aged(@)]
<1>1. /\ entry = [answer |-> entry.answer, age |-> entry.age]
      /\ entry.answer \in {Parsed(p) : p \in Plans} /\ entry.age \in 0..Oldest
      /\ entry.age <= known + RequestTimeout
      /\ \A c \in Capabilities : Allows(entry.answer, c) => since[c] <= entry.age
  BY TimesAreNumbers DEF IsEntry
<1>2. older = [answer |-> entry.answer, age |-> Aged(entry.age)]
  BY <1>1
<1>3. older # Nothing
  BY <1>1, <1>2, NothingIsNoEntry, TimesAreNumbers DEF Aged
<1>4. Aged(entry.age) \in 0..Oldest /\ Aged(entry.age) <= Aged(known) + RequestTimeout
  BY <1>1, TimesAreNumbers DEF Aged
<1>5. ASSUME NEW c \in Capabilities, Allows(entry.answer, c)
      PROVE  after[c] <= Aged(entry.age) + 0
  <2>1. since[c] \in 0..Oldest /\ after[c] \in 0..Oldest /\ since[c] <= entry.age
    BY <1>1, <1>5
  <2> QED BY <1>1, <2>1, TimesAreNumbers DEF Aged
<1> HIDE DEF older
<1> QED BY <1>1, <1>2, <1>3, <1>4, <1>5 DEF IsEntry

\* The fallback refuses only with an entry that is old, and allows only what
\* the entry allows.
LEMMA FallbackIsLate ==
    ASSUME NEW entry, NEW known \in 0..Oldest, NEW out \in 0..RequestTimeout,
           ungranted \in [Capabilities -> 0..Oldest],
           IsEntry(entry, known, out, ungranted)
    PROVE  /\ Fallback(entry) = Unreachable => known >= GraceTime - RequestTimeout
           /\ \A c \in Capabilities : Allows(Fallback(entry), c) =>
                 ungranted[c] < GraceTime + RequestTimeout
<1>1. CASE entry = Nothing
  <2>1. Fallback(entry) = Unreachable /\ ~Allows(Unreachable, "x") /\ ~Unreachable.entitled
    BY <1>1 DEF Fallback, WithinGrace, Allows, Unreachable
  <2> QED BY <1>1, <2>1, TimesAreNumbers DEF IsEntry, Allows
<1>2. CASE entry # Nothing
  <2>1. /\ entry.age \in 0..Oldest /\ entry.age <= known + RequestTimeout
        /\ \A c \in Capabilities : Allows(entry.answer, c) => ungranted[c] <= entry.age + out
    BY <1>2 DEF IsEntry
  <2>2. entry.answer # Unreachable
    BY <1>2, ParsedFacts DEF IsEntry
  <2>3. CASE entry.age < GraceTime
    <3>1. Fallback(entry) = entry.answer
      BY <1>2, <2>3 DEF Fallback, WithinGrace
    <3>2. ASSUME NEW c \in Capabilities, Allows(Fallback(entry), c)
          PROVE  ungranted[c] < GraceTime + RequestTimeout
      <4>1. ungranted[c] \in Int /\ ungranted[c] <= entry.age + out
        BY <2>1, <3>1, <3>2, TimesAreNumbers
      <4> QED BY <4>1, <2>1, <2>3, TimesAreNumbers
    <3> QED BY <2>2, <3>1, <3>2
  <2>4. CASE ~(entry.age < GraceTime)
    <3>1. Fallback(entry) = Unreachable
      BY <2>4 DEF Fallback, WithinGrace
    <3>2. \A c \in Capabilities : ~Allows(Fallback(entry), c)
      BY <3>1 DEF Allows, Unreachable
    <3>3. known >= GraceTime - RequestTimeout
      BY <2>1, <2>4, TimesAreNumbers
    <3> QED BY <3>2, <3>3
  <2> QED BY <2>3, <2>4
<1> QED BY <1>1, <1>2

-----------------------------------------------------------------------------
(* Each step keeps the invariant                                            *)

\* What one request is left with.
Leaves(r, request) == requests' = [requests EXCEPT ![r] = request]

\* A request that has its answer holds no entry.
LEMMA AnsweredIsRequest ==
    ASSUME NEW answer, NEW known
    PROVE  /\ \A since : IsRequest(Answered(answer, known), since)
           /\ Answered(answer, known).at = "answered"
           /\ Answered(answer, known).answer = answer
           /\ Answered(answer, known).known = known
<1> DEFINE idle == Idle
<1>1. /\ idle = [at |-> "idle", cached |-> Nothing, age |-> 0, answer |-> Unreachable, known |-> 0]
      /\ Answered(answer, known)
            = [idle EXCEPT !.at = "answered", !.answer = answer, !.known = known]
  BY DEF Idle, Answered
<1> HIDE DEF idle
<1>2. Answered(answer, known) = [at |-> "answered", cached |-> Nothing, age |-> 0,
                                 answer |-> answer, known |-> known]
  BY <1>1
<1> QED BY <1>2 DEF IsRequest

\* Neither does one that is not out.
LEMMA LeftIsRequest ==
    ASSUME NEW at \in {"idle", "done", "refused"}
    PROVE  /\ [Idle EXCEPT !.at = at].at = at
           /\ \A since : IsRequest([Idle EXCEPT !.at = at], since)
           /\ Idle = [Idle EXCEPT !.at = "idle"]
<1> DEFINE left(status) == [at |-> status, cached |-> Nothing, age |-> 0,
                            answer |-> Unreachable, known |-> 0]
<1>1. \A status : [Idle EXCEPT !.at = status] = left(status)
  BY DEF Idle
<1>2. Idle = left("idle")
  BY DEF Idle
<1>3. \A since : IsRequest(left(at), since)
  BY DEF IsRequest
<1> QED BY <1>1, <1>2, <1>3

\* An idle request holds no entry either.
LEMMA IdleIsRequest == Idle.at = "idle" /\ \A since : IsRequest(Idle, since)
<1>1. Idle = [Idle EXCEPT !.at = "idle"] /\ [Idle EXCEPT !.at = "idle"].at = "idle"
      /\ \A since : IsRequest([Idle EXCEPT !.at = "idle"], since)
  BY LeftIsRequest
<1> QED BY <1>1

\* A step of one request that leaves memory and plan alone keeps the invariant.
LEMMA OneRequest ==
    ASSUME PlanInvariant, NEW r \in Requests, NEW request, Leaves(r, request),
           IsRequest(request, ungranted),
           UNCHANGED <<plan, cache, ungranted, sinceGood>>
    PROVE  PlanInvariant'
<1>1. requests' = [s \in Requests |-> requests'[s]]
  BY DEF PlanInvariant, Leaves
<1>2. ASSUME NEW s \in Requests PROVE IsRequest(requests'[s], ungranted)
  <2>1. requests'[s] = IF s = r THEN request ELSE requests[s]
    BY DEF PlanInvariant, Leaves
  <2> QED BY <2>1 DEF PlanInvariant
<1>3. IsEntry(cache, sinceGood, 0, ungranted)' <=> IsEntry(cache, sinceGood, 0, ungranted)
  OBVIOUS
<1>4. \A c \in Capabilities : Granted(c)' <=> Granted(c)
  BY DEF Granted
<1> QED BY <1>1, <1>2, <1>3, <1>4 DEF PlanInvariant

\* Answering from memory touches neither the entry nor its age (effective).
LEMMA AnswerFromMemoryKeeps ==
    ASSUME PlanInvariant, NEW r \in Requests, AnswerFromMemory(r)
    PROVE  PlanInvariant'
<1>1. PICK answer : Leaves(r, Answered(answer, sinceGood))
  BY DEF AnswerFromMemory, Leaves
<1> QED BY <1>1, OneRequest, AnsweredIsRequest DEF AnswerFromMemory

\* What a request takes to the network is what the process held (effective).
LEMMA BeginFetchKeeps ==
    ASSUME PlanInvariant, NEW r \in Requests, BeginFetch(r)
    PROVE  PlanInvariant'
<1> DEFINE request == [Idle EXCEPT !.at = "fetching", !.cached = cache, !.known = sinceGood]
<1>1. /\ request.at = "fetching" /\ request.cached = cache
      /\ request.known = sinceGood /\ request.age = 0
      /\ request = [at |-> request.at, cached |-> request.cached, age |-> request.age,
                    answer |-> request.answer, known |-> request.known]
  <2> DEFINE idle == Idle
  <2>1. /\ idle = [at |-> "idle", cached |-> Nothing, age |-> 0, answer |-> Unreachable, known |-> 0]
        /\ request = [idle EXCEPT !.at = "fetching", !.cached = cache, !.known = sinceGood]
    BY DEF Idle
  <2> HIDE DEF idle, request
  <2> QED BY <2>1
<1>2. Leaves(r, request)
  BY DEF BeginFetch, Leaves
<1> HIDE DEF request
<1>3. IsRequest(request, ungranted)
  BY <1>1, TimesAreNumbers DEF IsRequest, PlanInvariant
<1> QED BY <1>2, <1>3, OneRequest DEF BeginFetch

\* The answer is as old as the request, which its timeout bounds (effective).
LEMMA FetchSucceedsKeeps ==
    ASSUME PlanInvariant, NEW r \in Requests, FetchSucceeds(r)
    PROVE  PlanInvariant'
<1> DEFINE age == requests[r].age
           entry == [answer |-> Parsed(plan), age |-> age]
<1>1. age \in 0..RequestTimeout /\ plan \in Plans
  BY DEF FetchSucceeds, PlanInvariant, IsRequest
<1>2. entry # Nothing
  BY <1>1, NothingIsNoEntry, TimesAreNumbers
<1>3. sinceGood' \in 0..Oldest /\ age <= sinceGood' + RequestTimeout
  BY <1>1, TimesAreNumbers DEF FetchSucceeds, PlanInvariant
<1>4. ASSUME NEW c \in Capabilities, Allows(Parsed(plan), c)
      PROVE  ungranted[c] <= age + 0
  <2>1. ungranted[c] = 0
    BY <1>1, <1>4, ParsedFacts DEF Granted, PlanInvariant
  <2> QED BY <1>1, <2>1, TimesAreNumbers
<1>5. IsEntry(entry, sinceGood', 0, ungranted)
  <2>1. entry.answer = Parsed(plan) /\ entry.age = age
    OBVIOUS
  <2>2. age \in 0..Oldest
    BY <1>1, TimesAreNumbers
  <2> HIDE DEF age
  <2> QED BY <1>1, <1>2, <1>3, <1>4, <2>1, <2>2 DEF IsEntry
<1>6. cache' = entry /\ ungranted' = ungranted /\ plan' = plan
  BY DEF FetchSucceeds
<1>7. requests' = [requests EXCEPT ![r] = Answered(Parsed(plan), requests[r].known)]
  BY DEF FetchSucceeds
<1>8. ASSUME NEW s \in Requests PROVE IsRequest(requests'[s], ungranted)
  <2>1. requests'[s] = IF s = r THEN Answered(Parsed(plan), requests[r].known) ELSE requests[s]
    BY <1>7 DEF PlanInvariant
  <2> QED BY <2>1, AnsweredIsRequest DEF PlanInvariant
<1>9. requests' = [s \in Requests |-> requests'[s]]
  BY <1>7 DEF PlanInvariant
<1>10. \A c \in Capabilities : Granted(c)' <=> Granted(c)
  BY <1>6 DEF Granted
<1> HIDE DEF entry
<1> QED BY <1>1, <1>3, <1>5, <1>6, <1>8, <1>9, <1>10 DEF PlanInvariant

\* A restart forgets the memory, and what is out.
LEMMA RestartKeeps ==
    ASSUME PlanInvariant, Restart
    PROVE  PlanInvariant'
<1>1. cache' = Nothing /\ sinceGood' = Oldest /\ requests' = [r \in Requests |-> Idle]
      /\ plan' = plan /\ ungranted' = ungranted
  BY DEF Restart
<1>2. IsEntry(cache', sinceGood', 0, ungranted')
  BY <1>1 DEF IsEntry
<1>4. \A r \in Requests : IsRequest(requests'[r], ungranted')
  BY <1>1, IdleIsRequest
<1>5. \A c \in Capabilities : Granted(c)' <=> Granted(c)
  BY <1>1 DEF Granted
<1> QED BY <1>1, <1>2, <1>4, <1>5, TimesAreNumbers DEF PlanInvariant

\* A change of plan grants at once, and takes nothing back from the past.
LEMMA ChangePlanKeeps ==
    ASSUME PlanInvariant, NEW p \in Plans, ChangePlan(p)
    PROVE  PlanInvariant'
<1>1. UNCHANGED <<cache, requests, sinceGood>> /\ plan' = p
  BY DEF ChangePlan
<1>2. \A c \in Capabilities :
        ungranted'[c] = IF p.entitled /\ c \in DOMAIN p.limits /\ p.limits[c]
                        THEN 0 ELSE ungranted[c]
  BY DEF ChangePlan
<1>3. /\ ungranted \in [Capabilities -> 0..Oldest]
      /\ ungranted' \in [Capabilities -> 0..Oldest]
      /\ \A c \in Capabilities : ungranted'[c] <= ungranted[c]
  BY <1>2, TimesAreNumbers DEF ChangePlan, PlanInvariant
<1>4. \A c \in Capabilities : Granted(c)' => ungranted'[c] = 0
  BY <1>1, <1>2, Zenon DEF Granted
<1>5. IsEntry(cache, sinceGood, 0, ungranted')
  BY <1>3, EntryStays DEF PlanInvariant
<1>6. ASSUME NEW r \in Requests PROVE IsRequest(requests[r], ungranted')
  <2>1. IsRequest(requests[r], ungranted)
    BY DEF PlanInvariant
  <2>2. CASE requests[r].at = "fetching"
    <3>1. requests[r].age \in Int
      BY <2>1, <2>2 DEF IsRequest
    <3>2. IsEntry(requests[r].cached, requests[r].known, requests[r].age, ungranted')
      BY <1>3, <2>1, <2>2, <3>1, EntryStays DEF IsRequest
    <3> QED BY <2>1, <3>2 DEF IsRequest
  <2> QED BY <2>1, <2>2 DEF IsRequest
<1> QED BY <1>1, <1>3, <1>4, <1>5, <1>6 DEF PlanInvariant

\* Everything grows older by the same tick.
LEMMA TimePassesKeeps ==
    ASSUME PlanInvariant, TimePasses
    PROVE  PlanInvariant'
<1>1. \A c \in Capabilities :
        ungranted'[c] = IF Granted(c) THEN 0 ELSE Aged(ungranted[c])
  BY DEF TimePasses
<1>2. /\ ungranted \in [Capabilities -> 0..Oldest]
      /\ ungranted' \in [Capabilities -> 0..Oldest]
      /\ \A c \in Capabilities : ungranted'[c] <= Aged(ungranted[c])
                                /\ ungranted'[c] <= ungranted[c] + 1
  BY <1>1, TimesAreNumbers DEF TimePasses, PlanInvariant, Aged
<1>3. plan' = plan /\ sinceGood' = Aged(sinceGood) /\ sinceGood' \in 0..Oldest
  BY TimesAreNumbers DEF TimePasses, PlanInvariant, Aged
<1>4. \A c \in Capabilities : Granted(c)' => ungranted'[c] = 0
  BY <1>1, <1>3, Zenon DEF Granted
<1>5. IsEntry(cache', sinceGood', 0, ungranted')
  <2>1. CASE cache = Nothing
    BY <2>1, TimesAreNumbers DEF TimePasses, PlanInvariant, IsEntry, Aged
  <2>2. CASE cache # Nothing
    <3>1. cache' = [cache EXCEPT !.age = Aged(@)]
      BY <2>2 DEF TimePasses
    <3> QED BY <1>2, <1>3, <2>2, <3>1, EntryAges DEF PlanInvariant
  <2> QED BY <2>1, <2>2
<1>6. ASSUME NEW r \in Requests PROVE IsRequest(requests'[r], ungranted')
  <2>1. IsRequest(requests[r], ungranted)
    BY DEF PlanInvariant
  <2>2. requests'[r] = IF requests[r].at # "fetching" THEN requests[r]
                       ELSE [requests[r] EXCEPT !.age = @ + 1]
    BY DEF TimePasses
  <2>3. CASE requests[r].at # "fetching"
    BY <2>1, <2>2, <2>3 DEF IsRequest
  <2>4. CASE requests[r].at = "fetching"
    <3> DEFINE old == requests[r]
    <3>1. /\ old.age \in 0..RequestTimeout /\ old.age < RequestTimeout
          /\ old.known \in 0..Oldest
          /\ IsEntry(old.cached, old.known, old.age, ungranted)
      BY <2>1, <2>4 DEF IsRequest, TimePasses
    <3>2. requests'[r] = [at |-> old.at, cached |-> old.cached, age |-> old.age + 1,
                          answer |-> old.answer, known |-> old.known]
      BY <2>1, <2>2, <2>4 DEF IsRequest
    <3> HIDE DEF old
    <3>3. old.age + 1 \in 0..RequestTimeout
      BY <3>1, TimesAreNumbers
    <3>4. IsEntry(old.cached, old.known, old.age + 1, ungranted')
      BY <1>2, <3>1, TimesAreNumbers, EntryOutlasts
    <3> QED BY <3>1, <3>2, <3>3, <3>4 DEF IsRequest
  <2> QED BY <2>3, <2>4
<1>7. requests' = [r \in Requests |-> requests'[r]]
  BY DEF TimePasses
<1> QED BY <1>2, <1>3, <1>4, <1>5, <1>6, <1>7 DEF PlanInvariant

\* A process begins without an answer.
LEMMA PlanAtFirst == PlanInit => PlanInvariant
<1> SUFFICES ASSUME PlanInit PROVE PlanInvariant
  OBVIOUS
<1>1. /\ plan \in Plans /\ cache = Nothing /\ sinceGood = Oldest
      /\ requests = [r \in Requests |-> Idle]
      /\ ungranted = [c \in Capabilities |-> IF Granted(c) THEN 0 ELSE Oldest]
  BY DEF PlanInit
<1>3. \A r \in Requests : IsRequest(requests[r], ungranted)
  BY <1>1, IdleIsRequest
<1>4. IsEntry(cache, sinceGood, 0, ungranted)
  BY <1>1 DEF IsEntry
<1>5. /\ ungranted \in [Capabilities -> 0..Oldest]
      /\ \A c \in Capabilities : Granted(c) => ungranted[c] = 0
  BY <1>1, TimesAreNumbers
<1> QED BY <1>1, <1>3, <1>4, <1>5, TimesAreNumbers DEF PlanInvariant

\* Every step keeps the invariant.
LEMMA PlanStep == PlanInvariant /\ [PlanNext]_planVars => PlanInvariant'
<1> SUFFICES ASSUME PlanInvariant, [PlanNext]_planVars PROVE PlanInvariant'
  OBVIOUS
<1>1. ASSUME NEW r \in Requests, AnswerFromMemory(r) PROVE PlanInvariant'
  BY <1>1, AnswerFromMemoryKeeps
<1>2. ASSUME NEW r \in Requests, BeginFetch(r) PROVE PlanInvariant'
  BY <1>2, BeginFetchKeeps
<1>3. ASSUME NEW r \in Requests, FetchSucceeds(r) PROVE PlanInvariant'
  BY <1>3, FetchSucceedsKeeps
<1>4. ASSUME NEW r \in Requests, FetchFails(r) PROVE PlanInvariant'
  <2>1. Leaves(r, Answered(Fallback(requests[r].cached), requests[r].known))
    BY <1>4 DEF FetchFails, Leaves
  <2> QED BY <1>4, <2>1, OneRequest, AnsweredIsRequest DEF FetchFails
<1>5. ASSUME NEW r \in Requests, NEW c, NEW count, Gate(r, c, count) PROVE PlanInvariant'
  <2>1. PICK at \in {"done", "refused"} : Leaves(r, [Idle EXCEPT !.at = at])
    BY <1>5 DEF Gate, Leaves
  <2>2. IsRequest([Idle EXCEPT !.at = at], ungranted)
    BY LeftIsRequest
  <2> QED BY <1>5, <2>1, <2>2, OneRequest DEF Gate
<1>6. ASSUME NEW r \in Requests, NextRequest(r) PROVE PlanInvariant'
  <2>1. Leaves(r, Idle)
    BY <1>6 DEF NextRequest, Leaves
  <2> QED BY <1>6, <2>1, OneRequest, IdleIsRequest DEF NextRequest
<1>7. ASSUME NEW up \in BOOLEAN, Outage(up) PROVE PlanInvariant'
  BY <1>7 DEF Outage, PlanInvariant, Granted
<1>8. ASSUME UNCHANGED planVars PROVE PlanInvariant'
  BY <1>8 DEF planVars, PlanInvariant, Granted
<1> QED
  BY <1>1, <1>2, <1>3, <1>4, <1>5, <1>6, <1>7, <1>8,
     RestartKeeps, ChangePlanKeeps, TimePassesKeeps DEF PlanNext

\* What the process knows of the plan, and how old it may be.
THEOREM PlanInvariantHolds == PlanSpec => []PlanInvariant
BY PlanAtFirst, PlanStep, PTL DEF PlanSpec

-----------------------------------------------------------------------------
(* What a request is answered                                               *)

\* An answer comes from memory, from the service or from the fallback.
LEMMA WhereAnswersComeFrom ==
    ASSUME PlanInvariant, [PlanNext]_planVars, NEW r \in Requests, Answers(r)
    PROVE  LET known == requests'[r].known
               answer == requests'[r].answer
           IN  \/ Fresh(cache) /\ answer = cache.answer /\ known = sinceGood
               \/ answer = Fallback(cache) /\ known = sinceGood
               \/ answer = Parsed(plan)
               \/ /\ requests[r].at = "fetching"
                  /\ answer = Fallback(requests[r].cached) /\ known = requests[r].known
<1>1. ASSUME NEW s \in Requests, NEW request, Leaves(s, request)
      PROVE  s = r /\ requests'[r] = request /\ request.at = "answered" /\ requests[r].at # "answered"
  BY <1>1 DEF Leaves, Answers, PlanInvariant
<1>2. ASSUME NEW s \in Requests, AnswerFromMemory(s)
      PROVE  \/ requests'[r] = Answered(cache.answer, sinceGood) /\ Fresh(cache)
             \/ requests'[r] = Answered(Fallback(cache), sinceGood)
  BY <1>1, <1>2 DEF AnswerFromMemory, Leaves
<1>3. ASSUME NEW s \in Requests, BeginFetch(s) PROVE FALSE
  <2>1. [Idle EXCEPT !.at = "fetching", !.cached = cache, !.known = sinceGood].at = "fetching"
    BY DEF Idle
  <2>2. Leaves(s, [Idle EXCEPT !.at = "fetching", !.cached = cache, !.known = sinceGood])
    BY <1>3 DEF BeginFetch, Leaves
  <2> QED BY <2>1, <2>2, <1>1
<1>4. ASSUME NEW s \in Requests, FetchSucceeds(s)
      PROVE  requests'[r] = Answered(Parsed(plan), requests[s].known)
  BY <1>1, <1>4 DEF FetchSucceeds, Leaves
<1>5. ASSUME NEW s \in Requests, FetchFails(s)
      PROVE  /\ requests[r].at = "fetching"
             /\ requests'[r] = Answered(Fallback(requests[r].cached), requests[r].known)
  BY <1>1, <1>5 DEF FetchFails, Leaves
<1>6. ASSUME NEW s \in Requests, NEW c, NEW count, Gate(s, c, count) PROVE FALSE
  <2>1. PICK at \in {"done", "refused"} : Leaves(s, [Idle EXCEPT !.at = at])
    BY <1>6 DEF Gate, Leaves
  <2>2. [Idle EXCEPT !.at = at].at = at
    BY LeftIsRequest
  <2> QED BY <1>1, <2>1, <2>2
<1>7. ASSUME NEW s \in Requests, NextRequest(s) PROVE FALSE
  <2>1. Leaves(s, Idle)
    BY <1>7 DEF NextRequest, Leaves
  <2> QED BY <1>1, <2>1, IdleIsRequest
<1>8. CASE Restart
  BY <1>8, IdleIsRequest DEF Restart, Answers
<1>9. ASSUME NEW p \in Plans, ChangePlan(p) PROVE FALSE
  BY <1>9 DEF ChangePlan, Answers
<1>10. ASSUME NEW up \in BOOLEAN, Outage(up) PROVE FALSE
  BY <1>10 DEF Outage, Answers
<1>11. CASE TimePasses
  <2>1. requests'[r] = IF requests[r].at # "fetching" THEN requests[r]
                       ELSE [requests[r] EXCEPT !.age = @ + 1]
    BY <1>11 DEF TimePasses
  <2>2. IsRequest(requests[r], ungranted)
    BY DEF PlanInvariant
  <2>3. requests'[r].at = requests[r].at
    BY <2>1, <2>2 DEF IsRequest
  <2> QED BY <2>3 DEF Answers
<1>12. CASE UNCHANGED planVars
  BY <1>12 DEF planVars, Answers
<1> QED
  BY <1>2, <1>3, <1>4, <1>5, <1>6, <1>7, <1>8, <1>9, <1>10, <1>11, <1>12, AnsweredIsRequest
     DEF PlanNext

\* An outage within the grace period refuses nobody.
THEOREM OutagesStopNobody == PlanSpec => OutageWithinGraceStopsNobody
<1>1. PlanInvariant /\ [PlanNext]_planVars =>
        [\A r \in Requests :
            Answers(r) /\ requests'[r].answer = Unreachable
                => requests'[r].known >= GraceTime - RequestTimeout]_planVars
  <2> SUFFICES ASSUME PlanInvariant, [PlanNext]_planVars, NEW r \in Requests, Answers(r),
                      requests'[r].answer = Unreachable
               PROVE  requests'[r].known >= GraceTime - RequestTimeout
    OBVIOUS
  <2>1. /\ sinceGood \in 0..Oldest /\ ungranted \in [Capabilities -> 0..Oldest]
        /\ plan \in Plans /\ IsEntry(cache, sinceGood, 0, ungranted)
        /\ IsRequest(requests[r], ungranted)
    BY DEF PlanInvariant
  <2>2. ~(Fresh(cache) /\ requests'[r].answer = cache.answer)
    BY <2>1, ParsedFacts DEF Fresh, IsEntry
  <2>3. requests'[r].answer # Parsed(plan)
    BY <2>1, ParsedFacts
  <2>4. 0 \in 0..RequestTimeout
    BY TimesAreNumbers
  <2>5. CASE requests'[r].answer = Fallback(cache) /\ requests'[r].known = sinceGood
    BY <2>1, <2>4, <2>5, FallbackIsLate
  <2>6. CASE /\ requests[r].at = "fetching"
             /\ requests'[r].answer = Fallback(requests[r].cached)
             /\ requests'[r].known = requests[r].known
    BY <2>1, <2>6, FallbackIsLate DEF IsRequest
  <2> QED BY <2>2, <2>3, <2>5, <2>6, WhereAnswersComeFrom
<1> QED BY <1>1, PlanInvariantHolds, PTL DEF PlanSpec, OutageWithinGraceStopsNobody

\* Whatever is allowed was granted not long ago.
THEOREM AllowedWasGranted == PlanSpec => WhatIsAllowedWasGranted
<1>1. PlanInvariant /\ [PlanNext]_planVars =>
        [\A r \in Requests, c \in Capabilities :
            Answers(r) /\ Allows(requests'[r].answer, c)
                => ungranted[c] < GraceTime + RequestTimeout]_planVars
  <2> SUFFICES ASSUME PlanInvariant, [PlanNext]_planVars,
                      NEW r \in Requests, NEW c \in Capabilities,
                      Answers(r), Allows(requests'[r].answer, c)
               PROVE  ungranted[c] < GraceTime + RequestTimeout
    OBVIOUS
  <2>1. /\ sinceGood \in 0..Oldest /\ ungranted \in [Capabilities -> 0..Oldest]
        /\ plan \in Plans /\ IsEntry(cache, sinceGood, 0, ungranted)
        /\ IsRequest(requests[r], ungranted)
    BY DEF PlanInvariant
  <2>2. 0 \in 0..RequestTimeout
    BY TimesAreNumbers
  <2>3. CASE Fresh(cache) /\ requests'[r].answer = cache.answer
    <3>1. ungranted[c] <= cache.age + 0 /\ cache.age \in 0..Oldest /\ cache.age < CacheTime
      BY <2>1, <2>3 DEF Fresh, IsEntry
    <3>2. ungranted[c] \in Int /\ RequestTimeout \in Nat \ {0}
      BY <2>1, TimesFit, TimesAreNumbers DEF TimesFit
    <3> QED BY <3>1, <3>2, TimesAreNumbers
  <2>4. CASE requests'[r].answer = Parsed(plan)
    <3>1. Granted(c)
      BY <2>1, <2>4, ParsedFacts DEF Granted
    <3>2. ungranted[c] = 0 /\ GraceTime \in Nat \ {0}
      BY <3>1, TimesFit DEF PlanInvariant, TimesFit
    <3> QED BY <3>2, TimesAreNumbers
  <2>5. CASE requests'[r].answer = Fallback(cache)
    BY <2>1, <2>2, <2>5, FallbackIsLate
  <2>6. CASE requests[r].at = "fetching" /\ requests'[r].answer = Fallback(requests[r].cached)
    BY <2>1, <2>6, FallbackIsLate DEF IsRequest
  <2> QED BY <2>3, <2>4, <2>5, <2>6, WhereAnswersComeFrom
<1> QED BY <1>1, PlanInvariantHolds, PTL DEF PlanSpec, WhatIsAllowedWasGranted
=============================================================================
