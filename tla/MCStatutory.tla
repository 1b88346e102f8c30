---------------------------- MODULE MCStatutory ----------------------------
(***************************************************************************)
(* A state with a wording that the second edition amends, a state whose     *)
(* wording is for residential work only, and one that prescribes none.      *)
(***************************************************************************)
EXTENDS Statutory

Form(state, effective, residentialOnly) ==
    [state |-> state, type |-> "conditional_progress", effective |-> effective,
     residentialOnly |-> residentialOnly]

FirstEdition == {Form("", 0, FALSE), Form("CA", 0, FALSE), Form("MO", 0, TRUE)}
MCEditions == <<FirstEdition, FirstEdition \cup {Form("CA", 4, FALSE)}>>

MCRuleKeys == {[state |-> "CA", role |-> "general_contractor"]}

MCProjects == {[state |-> "CA", residential |-> FALSE], [state |-> "MO", residential |-> FALSE],
               [state |-> "MO", residential |-> TRUE], [state |-> "NY", residential |-> FALSE]}

MCDayCounts == {-1, 0, 6}

\* Bound on the histories explored: only a project with a rule gets a date, and
\* no waiver is asked for beside one, since neither reads the other.
DatedByRule ==
    \A p \in Projects : furnished[p] # None =>
        waivers = <<>> /\ \E k \in RuleKeys : k.state = p.state
=============================================================================
