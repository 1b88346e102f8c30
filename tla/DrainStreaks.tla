---------------------------- MODULE DrainStreaks ----------------------------
(***************************************************************************)
(* Webhooks, with the failed posts to each endpoint since one was accepted, *)
(* and what the repository says of them.                                    *)
(*                                                                         *)
(* Code: services/webhooks.py (drain).                                      *)
(***************************************************************************)
EXTENDS Webhooks

VARIABLE streaks   \* history: endpoint -> failures in a row, kept at the limit

\* The deliveries posted in this step by a drain that goes on.
PostedBy(w) == IF drains'[w] = Idle THEN {} ELSE drains[w].left \ drains'[w].left
Posted == UNION {PostedBy(w) : w \in Workers}

WasAccepted(d) == \E w \in Workers : d \in PostedBy(w) /\ drains'[w].mine[d].status = "delivered"

\* A step posts at most once, so the streak of its endpoint ends or is one longer.
After(streak, d) ==
    IF streak = DisableAfter THEN streak ELSE IF WasAccepted(d) THEN 0 ELSE streak + 1

StreakInit == Init /\ streaks = [s \in Subscriptions |-> 0]

StreakNext ==
    /\ Next
    /\ streaks' = [s \in Subscriptions |->
          IF \E d \in Posted : d[2] = s
          THEN After(streaks[s], CHOOSE d \in Posted : d[2] = s)
          ELSE streaks[s]]

StreakSpec == StreakInit /\ [][StreakNext]_<<vars, streaks>>

-----------------------------------------------------------------------------
=============================================================================
