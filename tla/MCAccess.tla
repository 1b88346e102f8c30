------------------------------ MODULE MCAccess ------------------------------
(***************************************************************************)
(* Two users, two organizations and one browser; the properties do not name *)
(* a user, an organization or a request, so permuting them is sound.        *)
(***************************************************************************)
EXTENDS Access, TLC

Symmetry ==
    Permutations(Users) \cup Permutations(Organizations) \cup Permutations(MemberRequests)

\* Bounds on the histories explored.  The requests on members read neither the
\* counts and locks of the accounts nor the hand-offs: one of them is open only
\* while no password has failed, and two at once, or an organization without an
\* owner, occur only where nobody is enrolled or handed off either.
IsOpen(r) == changes[r] # None

Overlapping ==
    \E r \in MemberRequests :
        IsOpen(r) /\ (changes[r].overtaken \/ \E q \in MemberRequests \ {r} : IsOpen(q))

Bounded ==
    /\ (\E r \in MemberRequests : IsOpen(r)) =>
          \A u \in Registered : users[u].failures = 0 /\ ~IsLocked(u)
    /\ Overlapping \/ (\E o \in organizations : Owners(o) = {}) =>
          assertions = <<>> /\ \A u \in Registered : users[u] = NewUser
=============================================================================
