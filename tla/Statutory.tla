----------------------------- MODULE Statutory -----------------------------
(***************************************************************************)
(* Statutory content of one organization: waiver forms and deadline rules,  *)
(* shipped empty, verified by hand or by worksheet, the waivers rendered    *)
(* from the forms and the dates computed from the rules.                    *)
(*                                                                         *)
(* Code: services/waivers.py, services/statutory.py, services/deadlines.py, *)
(* models/waiver.py, models/deadline.py and their views in                  *)
(* blueprints/workflow.py.  The required fields of a form are taken to be   *)
(* filled in, and signing to be in the plan.                                *)
(***************************************************************************)
EXTENDS Integers, Sequences, FiniteSets

CONSTANTS
    Editions,      \* seed data of the releases: a sequence of sets of forms
    RuleKeys,      \* deadline rules: [state, role]
    Projects,      \* [state, residential]
    WaiverTypes,
    Texts,         \* wordings a person may enter
    DayCounts,     \* numbers a person may enter
    Dates,
    PeriodEnds,    \* of the application in draft
    WarnWithin,    \* days before a date that warn of it
    MaxWaivers,    \* bound
    General,       \* the empty state of the general form
    None

ASSUME CalendarIsNumbered ==
    /\ Dates \subseteq Nat /\ PeriodEnds \subseteq Nat
    /\ WarnWithin \in Nat
    /\ DayCounts \subseteq Int
    /\ MaxWaivers \in Nat
    /\ Len(Editions) \in Nat \ {0} /\ DOMAIN Editions = 1..Len(Editions)
    /\ General \notin {p.state : p \in Projects} \cup {k.state : k \in RuleKeys}

VARIABLES
    edition,     \* of the seed data on disk
    forms,       \* form -> [body, verified]; the key is (state, type, effective)
    waivers,     \* waiver rows, oldest first
    rules,       \* rule key -> [days, basis, verified]
    furnished,   \* project -> the date its deadlines count from, or None
    worksheet,   \* forms and rules that were outstanding at the last export
    entered      \* history: form -> texts entered for it

content == <<forms, rules, entered>>
statutoryVars == <<edition, forms, waivers, rules, furnished, worksheet, entered>>

-----------------------------------------------------------------------------
(* Rows                                                                    *)

\* One edition never holds two forms with the same key.
SameKey(f, g) == f.state = g.state /\ f.type = g.type /\ f.effective = g.effective

IsStatutory(f) == f.state # General
IsUsable(f) == forms[f].body # None /\ (forms[f].verified \/ ~IsStatutory(f))
Covers(f, on) == f.effective <= on

UnverifiedForms == {f \in DOMAIN forms : IsStatutory(f) /\ ~forms[f].verified}
UnverifiedRules == {k \in DOMAIN rules : ~rules[k].verified}

SeededForm(f) == IF IsStatutory(f) THEN [body |-> None, verified |-> FALSE]
                                   ELSE [body |-> "general", verified |-> TRUE]
SeededRule == [days |-> None, basis |-> "calendar", verified |-> FALSE]

StatutoryInit ==
    /\ edition = 1
    /\ forms = <<>> /\ rules = <<>> /\ waivers = <<>>
    /\ furnished = [p \in Projects |-> None]
    /\ worksheet = {}
    /\ entered = [f \in UNION {Editions[e] : e \in DOMAIN Editions} |-> {}]

-----------------------------------------------------------------------------
(* Seeding and verifying                                                   *)

\* A release with newer seed data is installed.
Upgrade ==
    /\ edition < Len(Editions)
    /\ edition' = edition + 1
    /\ UNCHANGED <<forms, waivers, rules, furnished, worksheet, entered>>

\* seed_templates and seed_rules: only what has no row yet is added.
Missing == {f \in Editions[edition] : \A g \in DOMAIN forms : ~SameKey(f, g)}

Seed ==
    /\ forms' = [f \in DOMAIN forms \cup Missing |->
                    IF f \in DOMAIN forms THEN forms[f] ELSE SeededForm(f)]
    /\ rules' = [k \in RuleKeys |-> IF k \in DOMAIN rules THEN rules[k] ELSE SeededRule]
    /\ UNCHANGED <<edition, waivers, furnished, worksheet, entered>>

\* verify_template and verify_rule, as a person or a worksheet calls them.
WithText(text) == [body |-> text, verified |-> TRUE]
WithDays(days, basis) == [days |-> days, basis |-> basis, verified |-> TRUE]

\* Any form of the organization is taken, verified or not.
VerifyForm(f, text) ==
    /\ forms' = [forms EXCEPT ![f] = WithText(text)]
    /\ entered' = [entered EXCEPT ![f] = @ \cup {text}]
    /\ UNCHANGED <<edition, waivers, rules, furnished, worksheet>>

MayVerifyRule(days) == days >= 0

VerifyRule(k, days, basis) ==
    /\ MayVerifyRule(days)
    /\ rules' = [rules EXCEPT ![k] = WithDays(days, basis)]
    /\ UNCHANGED <<edition, forms, waivers, furnished, worksheet, entered>>

Outstanding == UnverifiedForms \cup UnverifiedRules

Export ==
    /\ worksheet' = Outstanding
    /\ UNCHANGED <<edition, forms, waivers, rules, furnished, entered>>

\* import_worksheet: each filled row, whatever was verified since; blank rows
\* are skipped, and a row with a bad number leaves the others standing.
ImportRows(rows, text, days) ==
    LET fs == rows \cap DOMAIN forms
        ks == {k \in rows \cap DOMAIN rules : MayVerifyRule(days)}
    IN  /\ forms' = [f \in DOMAIN forms |-> IF f \in fs THEN WithText(text) ELSE forms[f]]
        /\ entered' = [f \in DOMAIN entered |->
                         IF f \in fs THEN entered[f] \cup {text} ELSE entered[f]]
        /\ rules' = [k \in DOMAIN rules |->
                       IF k \in ks THEN WithDays(days, rules[k].basis) ELSE rules[k]]

\* The command that reads a worksheet of an earlier export.
Import(rows, text, days) ==
    /\ rows # {} /\ rows \subseteq worksheet
    /\ ImportRows(rows, text, days)
    /\ UNCHANGED <<edition, waivers, furnished, worksheet>>

-----------------------------------------------------------------------------
(* Waivers                                                                 *)

InForce(p, type, on) ==
    {f \in DOMAIN forms : f.type = type /\ f.state \in {p.state, General} /\ Covers(f, on)}

Prescribed(p, type, on) ==
    {f \in InForce(p, type, on) : f.state = p.state /\ (f.residentialOnly => p.residential)}

Newest(candidates) == {f \in candidates : \A g \in candidates : g.effective <= f.effective}

\* template_for: the general form only where no wording is prescribed.
TemplateForUsable(p, type, on) ==
    LET statutory == {f \in Prescribed(p, type, on) : IsUsable(f)}
    IN  IF statutory # {} THEN Newest(statutory)
        ELSE Newest({f \in InForce(p, type, on) : f.state = General})

TemplateFor(p, type, on) ==
    IF Prescribed(p, type, on) # {} THEN Newest(Prescribed(p, type, on))
    ELSE Newest({f \in InForce(p, type, on) : f.state = General})

\* render_body: a form that may not be used renders nothing.
RenderBody(f, on) == IF IsUsable(f) THEN {[text |-> forms[f].body, through |-> on]} ELSE {}

\* known is history: the forms on file.
Requested(p, type, on, f, body) ==
    [project |-> p, type |-> type, on |-> on, form |-> f, body |-> body,
     status |-> "requested", signed |-> None, known |-> DOMAIN forms]

\* Nothing is stored when there is no form or it may not be rendered.
Request(p, type, on) ==
    /\ Len(waivers) < MaxWaivers
    /\ \E f \in TemplateFor(p, type, on) : \E body \in RenderBody(f, on) :
          waivers' = Append(waivers, Requested(p, type, on, f, body))
    /\ UNCHANGED <<edition, content, furnished, worksheet>>

Signed(w) == [w EXCEPT !.status = "signed", !.signed = w.body]

Sign(n) ==
    /\ waivers[n].status = "requested"
    /\ waivers' = [waivers EXCEPT ![n] = Signed(@)]
    /\ UNCHANGED <<edition, content, furnished, worksheet>>

Notarize(n) ==
    /\ waivers[n].status \in {"signed", "notarized"}
    /\ waivers' = [waivers EXCEPT ![n].status = "notarized"]
    /\ UNCHANGED <<edition, content, furnished, worksheet>>

-----------------------------------------------------------------------------
(* Deadlines                                                               *)

\* The dates of a project are written from outside: no form has them.
RecordDate(p, date) ==
    /\ furnished' = [furnished EXCEPT ![p] = date]
    /\ UNCHANGED <<edition, forms, waivers, rules, worksheet, entered>>

\* Day 0 is a Monday.
IsWeekday(date) == date % 7 < 5

\* add_days: calendar days, or one day after the other until enough weekdays
\* went by.
AddCalendarDays(start, days, basis) == start + days

AddDays(start, days, basis) ==
    LET weekdayAfter(d) ==
            CHOOSE w \in d + 1..d + 3 :
                IsWeekday(w) /\ \A e \in d + 1..w - 1 : ~IsWeekday(e)
        moved[n \in 0..days] == IF n = 0 THEN start ELSE weekdayAfter(moved[n - 1])
    IN  IF basis = "calendar" THEN start + days ELSE moved[days]

RuleIsUsable(k) == rules[k].verified /\ rules[k].days # None

\* compute: one obligation for each rule of the state, with a date or without.
Obligation(p, k) ==
    [rule |-> k,
     due |-> IF RuleIsUsable(k) /\ furnished[p] # None
             THEN AddDays(furnished[p], rules[k].days, rules[k].basis)
             ELSE None]

Compute(p, role) ==
    {Obligation(p, k) : k \in {x \in DOMAIN rules : x.state = p.state /\ x.role = role}}

\* days_remaining and is_urgent, which holds of what passed as well.
DaysApart(o, on) == IF o.due < on THEN on - o.due ELSE o.due - on
DaysRemaining(o, on) == o.due - on
IsUrgent(o, on) == DaysRemaining(o, on) <= WarnWithin

\* _deadline_rules: what the tie-out of a draft whose period ends on that day
\* says of the contractor's own obligations, as pairs <<rule, warning>>.  A date
\* that cannot be computed although the rule is verified is passed over.
DeadlineFindings(p, end) ==
    LET obligations == Compute(p, "general_contractor")
        unverified == {o \in obligations : ~RuleIsUsable(o.rule)}
        dated == {o \in obligations : o.due # None}
        passed == {o \in dated : DaysRemaining(o, end) < 0}
        near == {o \in dated \ passed : IsUrgent(o, end)}
    IN  {<<o.rule, "unverified">> : o \in unverified}
            \cup {<<o.rule, "passed">> : o \in passed}
            \cup {<<o.rule, "near">> : o \in near}

-----------------------------------------------------------------------------
\* The prefix of StatutoryInit, StatutoryNext and StatutorySpec keeps them apart where
\* PaperworkProofs extends this module beside Subcontracts.
StatutoryNext ==
    \/ Upgrade
    \/ Seed
    \/ \E f \in DOMAIN forms, text \in Texts : VerifyForm(f, text)
    \/ \E k \in DOMAIN rules, days \in DayCounts, basis \in {"calendar", "business"} :
          VerifyRule(k, days, basis)
    \/ Export
    \/ \E rows \in SUBSET worksheet, text \in Texts, days \in DayCounts : Import(rows, text, days)
    \/ \E p \in Projects :
          \/ \E type \in WaiverTypes, on \in Dates : Request(p, type, on)
          \/ \E date \in Dates : RecordDate(p, date)
    \/ \E n \in DOMAIN waivers : Sign(n) \/ Notarize(n)

StatutorySpec == StatutoryInit /\ [][StatutoryNext]_statutoryVars

-----------------------------------------------------------------------------
(* Properties                                                              *)

\* A waiver for a project whose state prescribed a wording, in force on its
\* date and on file, is on the newest such form and reads as somebody entered
\* it; only where nothing is prescribed is it the general form.  Seeding again
\* after an amendment, a worksheet that is older than a hand-made correction
\* and later verifications do not change that (template_for, render_body,
\* _seed_statutory, import_worksheet).
PrescribedWordingOnly ==
    \A n \in DOMAIN waivers :
        LET w == waivers[n]
            binding == {f \in w.known :
                          /\ f.state = w.project.state /\ f.type = w.type
                          /\ f.effective <= w.on
                          /\ f.residentialOnly => w.project.residential}
        IN  /\ \A f \in binding :
                  /\ w.form \in binding
                  /\ f.effective <= w.form.effective
                  /\ w.body.text \in entered[w.form]
            /\ binding = {} => w.form.state = General

\* A date is shown only for a rule a person verified, it lies as many days (of
\* the rule's kind) after the recorded date as that person entered, and the
\* rules without a date are listed and not left out (compute, add_days).
DueDatesAreCounted ==
    \A p \in Projects, k \in DOMAIN rules :
        k.state = p.state =>
            \E o \in Compute(p, k.role) :
                /\ o.rule = k
                /\ o.due # None =>
                    LET passed == {d \in (furnished[p] + 1)..o.due :
                                     rules[k].basis = "business" => IsWeekday(d)}
                    IN  /\ rules[k].verified
                        /\ Cardinality(passed) = rules[k].days
                        /\ o.due # furnished[p] => o.due \in passed

\* The warning of a deadline never lapses as the billing periods go by: each
\* rule that warns in one period warns in every later one unless a person
\* changed the rule, what passed never looks merely near again, the due day
\* itself is not late yet, and a rule nobody verified shows in every period
\* (compute, is_urgent, _deadline_rules).
DeadlineWarningsNeverLapse ==
    \A p \in Projects, e \in PeriodEnds : \A f \in {x \in PeriodEnds : e < x} :
        LET before == DeadlineFindings(p, e)
            after == DeadlineFindings(p, f)
            warns(findings) == {x[1] : x \in findings}
        IN  /\ warns(before) \subseteq warns(after)
            /\ {x \in before : x[2] # "near"} \subseteq after
            /\ f - e <= WarnWithin + 1 =>
                  warns({y \in after : y[2] = "passed"}) \subseteq warns(before)
            /\ \A k \in UnverifiedRules :
                  k.state = p.state /\ k.role = "general_contractor" =>
                      <<k, "unverified">> \in before
=============================================================================
