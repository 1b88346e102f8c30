---------------------------- MODULE SubmissionGate ----------------------------
(***************************************************************************)
(* What an application is checked against besides its own arithmetic: the   *)
(* stored-material register that fills column F, the lien waivers on file   *)
(* and the compliance documents a project demands.                          *)
(*                                                                         *)
(* Code: services/application.py (apply_stored_materials, install_material, *)
(* submit), models/stored.py, services/compliance.py, models/compliance.py, *)
(* the rules STORED-DOUBLE, WAIVER-AMOUNT, WAIVER-THROUGH-DATE and          *)
(* COMPLIANCE-MISSING of services/tieout.py, and the views that commit      *)
(* them.  A request is one step: a refused one changes nothing.             *)
(*                                                                         *)
(* The contract withholds no retainage and its schedule has one item, whose *)
(* row gets a new id at each revision.  PayApplications has the arithmetic  *)
(* of many items; Statutory has the wording and the signature of a waiver.  *)
(***************************************************************************)
EXTENDS Integers, Sequences, FiniteSets, FiniteSetsExt, Functions

CONSTANTS
    Values,           \* what a stored material may be worth
    Work, Typed,      \* amounts a person may type in columns E and F
    Amounts,          \* amounts a waiver may release
    Days,             \* calendar days
    PeriodEnds,       \* the last day of each period, a sequence
    Certificates,     \* amounts an architect may certify
    None,             \* an empty column
    MaxRevisions, MaxMaterials, MaxWaivers, MaxRequirements, MaxDocuments

ASSUME AmountsAreNumbers ==
    /\ Values \cup Work \cup Typed \cup Amounts \cup Days \cup Certificates \subseteq Int
    /\ Len(PeriodEnds) \in Nat /\ DOMAIN PeriodEnds = 1..Len(PeriodEnds)
    /\ \A n \in DOMAIN PeriodEnds : PeriodEnds[n] \in Int

VARIABLES
    apps,          \* the contract's applications, oldest first
    line,          \* the id of the item's row in the newest approved schedule
    materials,     \* the register: [line, value, billed, installed]
    waivers,       \* [app, amount, through, early]; early: before submission
    requirements,  \* [blocks, recurring]
    documents      \* [requirement, app, from, until]

gateVars == <<apps, line, materials, waivers, requirements, documents>>

-----------------------------------------------------------------------------
IsEditable(a) == a.status = "draft"
IsIssued(a) == a.status \in {"submitted", "certified", "paid"}

\* An application that was voided and then paid is issued without this.
WasSubmitted(a) == a.required # None

IssuedBefore(n) == {m \in DOMAIN apps : m < n /\ IsIssued(apps[m])}

CertifiedPayment(a) == IF a.certificate = None THEN a.request ELSE a.certificate

\* Column D and line 7 of application n.
Previous(n) ==
    IF IssuedBefore(n) = {}
    THEN [d |-> 0, line7 |-> 0]
    ELSE LET p == apps[Max(IssuedBefore(n))]
         IN  [d |-> p.d + p.e, line7 |-> p.line7 + CertifiedPayment(p)]

Recomputed(n, a) ==
    LET line7 == Previous(n).line7
    IN  [a EXCEPT !.line7 = line7, !.request = (a.d + a.e + a.f) - line7]

PeriodStart(n) == IF n = 1 THEN 1 ELSE PeriodEnds[n - 1] + 1

-----------------------------------------------------------------------------
(* The stored-material register                                            *)

IsInstalled(k) == materials[k].installed # None

OnLineOf(a) == {k \in DOMAIN materials : materials[k].line = a.line}

\* What column F is read from: the line's materials not yet rolled into E.
StoredFor(a) == {k \in OnLineOf(a) : ~IsInstalled(k)}

WorthOf(K) == SumFunctionOnSet([k \in DOMAIN materials |-> materials[k].value], K)

\* STORED-DOUBLE.
InstalledStillInF(n) ==
    \E k \in OnLineOf(apps[n]) :
        /\ materials[k].installed = n
        /\ apps[n].f >= materials[k].value /\ materials[k].value > 0

-----------------------------------------------------------------------------
(* Waivers and compliance documents                                        *)

\* for_application
WaiversOf(n) == {w \in waivers : w.app = n}

\* WAIVER-AMOUNT as an error, and WAIVER-THROUGH-DATE as an error.
ReleasesTooMuch(w) == w.amount > CertifiedPayment(apps[w.app])
RunsOutOfPeriodEarly(w) == w.through < PeriodStart(w.app)
RunsPastPeriod(w) == w.through > apps[w.app].end

\* WAIVER-DETACHED stays silent: no code writes a waiver's text once it exists.
WaiversAllow(n) == \A w \in WaiversOf(n) : ~ReleasesTooMuch(w) /\ ~RunsPastPeriod(w)

\* Judged on the period end, not today.
IsCurrent(doc, on) ==
    /\ doc.from # None => doc.from <= on
    /\ doc.until # None => on <= doc.until

\* A recurring requirement is met only by a document filed for this period.
ServesOnce(doc, r, n) == doc.requirement = r
Serves(doc, r, n) ==
    /\ doc.requirement = r
    /\ requirements[r].recurring => doc.app = n

Satisfied(r, n) ==
    \E doc \in documents : Serves(doc, r, n) /\ IsCurrent(doc, apps[n].end)

Blocking == {r \in DOMAIN requirements : requirements[r].blocks}

ComplianceAllows(n) == \A r \in Blocking : Satisfied(r, n)

-----------------------------------------------------------------------------
GateInit ==
    /\ apps = <<>>
    /\ line = 1
    /\ materials = <<>>
    /\ waivers = {}
    /\ requirements = <<>>
    /\ documents = {}

\* open_period: the row of a new period, on the line of the approved schedule.
OpenPeriod ==
    LET n == Len(apps) + 1
    IN  /\ n <= Len(PeriodEnds)
        /\ ~ \E m \in DOMAIN apps : IsEditable(apps[m])
        /\ apps' = Append(apps,
              Recomputed(n, [status |-> "draft", end |-> PeriodEnds[n], line |-> line,
                             d |-> Previous(n).d, e |-> 0, f |-> 0,
                             line7 |-> 0, request |-> 0, certificate |-> None,
                             counted |-> {}, required |-> None]))
        /\ UNCHANGED <<line, materials, waivers, requirements, documents>>

\* create_revision and approve copy the item into a row with a new id.
Revise ==
    /\ line <= MaxRevisions
    /\ line' = line + 1
    /\ UNCHANGED <<apps, materials, waivers, requirements, documents>>

\* The form names a line of the approved schedule and checks neither the
\* application's status nor the sign of the value.
AddMaterial(n, value) ==
    /\ Len(materials) < MaxMaterials
    /\ materials' = Append(materials, [line |-> line, value |-> value,
                                       billed |-> None, installed |-> None])
    /\ UNCHANGED <<apps, line, waivers, requirements, documents>>

\* apply_stored_materials: F is what the register says, then recompute.
ApplyStored(n, stored) ==
    /\ IsEditable(apps[n])
    /\ apps' = [apps EXCEPT ![n] =
          Recomputed(n, [@ EXCEPT !.f = WorthOf(stored), !.counted = stored])]
    /\ materials' = [k \in DOMAIN materials |->
          IF k \in stored /\ materials[k].billed = None
          THEN [materials[k] EXCEPT !.billed = n] ELSE materials[k]]

ApplyMaterials(n) ==
    /\ ApplyStored(n, StoredFor(apps[n]))
    /\ UNCHANGED <<line, waivers, requirements, documents>>

\* install_material leaves column F as it is: the caller applies again.
InstallMaterial(k, n) ==
    /\ IsEditable(apps[n])
    /\ ~IsInstalled(k)
    /\ materials' = [materials EXCEPT ![k].installed = n]
    /\ UNCHANGED <<apps, line, waivers, requirements, documents>>

\* enter overwrites what the register filled in; the form posts back the F it
\* was shown unless a person types another.
Enter(n, e, f) ==
    /\ IsEditable(apps[n])
    /\ apps' = [apps EXCEPT ![n] =
          Recomputed(n, [@ EXCEPT
             !.e = e, !.f = f, !.counted = IF f = apps[n].f THEN apps[n].counted ELSE {}])]
    /\ UNCHANGED <<line, materials, waivers, requirements, documents>>

\* request: against any application, through the period end by default.
RequestWaiver(n, amount, through) ==
    /\ Cardinality(waivers) < MaxWaivers
    /\ waivers' = waivers \cup
          {[app |-> n, amount |-> amount, early |-> IsEditable(apps[n]),
            through |-> IF through = None THEN apps[n].end ELSE through]}
    /\ UNCHANGED <<apps, line, materials, requirements, documents>>

\* The table's unique constraint includes the subcontract, which is null for
\* the prime contractor, so one kind may be demanded twice.  Only a caller of
\* the service makes a requirement recurring.
Demanded(blocks, recurring) == [blocks |-> blocks, recurring |-> recurring]

AddRequirement(blocks, recurring) ==
    /\ Len(requirements) < MaxRequirements
    /\ requirements' = Append(requirements, Demanded(blocks, recurring))
    /\ UNCHANGED <<apps, line, materials, waivers, documents>>

\* The form files a document for no period; a caller of the service may name one.
Filed(r, n, from, until) == [requirement |-> r, app |-> n, from |-> from, until |-> until]

FileDocument(r, n, from, until) ==
    /\ Cardinality(documents) < MaxDocuments
    /\ documents' = documents \cup {Filed(r, n, from, until)}
    /\ UNCHANGED <<apps, line, materials, waivers, requirements>>

\* submit: the gate, then the freeze.
Submit(n) ==
    /\ IsEditable(apps[n])
    /\ ~InstalledStillInF(n)
    /\ WaiversAllow(n)
    /\ ComplianceAllows(n)
    /\ apps[n].d = Previous(n).d
    /\ apps[n].line7 = Previous(n).line7
    /\ apps' = [apps EXCEPT ![n].status = "submitted", ![n].required = Blocking]
    /\ UNCHANGED <<line, materials, waivers, requirements, documents>>

Certify(n, amount) ==
    /\ apps[n].status = "submitted"
    /\ apps' = [apps EXCEPT ![n].status = "certified", ![n].certificate = amount]
    /\ UNCHANGED <<line, materials, waivers, requirements, documents>>

\* A payment in full, on whatever application is not a draft.
Pay(n) ==
    /\ ~IsEditable(apps[n])
    /\ apps' = [apps EXCEPT ![n].status = "paid"]
    /\ UNCHANGED <<line, materials, waivers, requirements, documents>>

Void(n) ==
    /\ apps[n].status # "paid"
    /\ apps' = [apps EXCEPT ![n].status = "void"]
    /\ UNCHANGED <<line, materials, waivers, requirements, documents>>

-----------------------------------------------------------------------------
OrNone(S) == S \cup {None}

Register ==
    \/ Revise
    \/ \E n \in DOMAIN apps :
          \/ \E value \in Values : AddMaterial(n, value)
          \/ ApplyMaterials(n)
          \/ \E k \in DOMAIN materials : InstallMaterial(k, n)

OnFile ==
    \/ \E n \in DOMAIN apps, amount \in Amounts, through \in OrNone(Days) :
          RequestWaiver(n, amount, through)
    \/ \E blocks, recurring \in BOOLEAN : AddRequirement(blocks, recurring)
    \/ \E r \in DOMAIN requirements, n \in OrNone(DOMAIN apps), from, until \in OrNone(Days) :
          FileDocument(r, n, from, until)

Billing ==
    \/ OpenPeriod
    \/ \E n \in DOMAIN apps :
          \/ \E e \in Work, f \in Typed \cup {apps[n].f} : Enter(n, e, f)
          \/ Submit(n)
          \/ \E amount \in Certificates : Certify(n, amount)
          \/ Pay(n)
          \/ Void(n)

\* The prefix of GateInit, GateNext and GateSpec keeps them apart where
\* RequisitionProofs extends this module beside Requisition.
GateNext == Register \/ OnFile \/ Billing

GateSpec == GateInit /\ [][GateNext]_gateVars

-----------------------------------------------------------------------------
(* Properties                                                               *)

\* Material rolled into column E is not in column F as well: the F a submitted
\* application took from the register holds nothing installed in it or before
\* it, however applying, installing, typing and voiding interleave.  A credit
\* in the register can hide such material from STORED-DOUBLE and is left out;
\* material worth nothing is in both columns at no cost.
InstalledLeavesColumnF ==
    \A n \in DOMAIN apps :
        WasSubmitted(apps[n]) /\ (\A k \in apps[n].counted : materials[k].value >= 0) =>
            \A k \in apps[n].counted :
                IsInstalled(k) /\ materials[k].value > 0 => materials[k].installed > n

\* A waiver asked for while the period was open releases no more than the
\* application that was issued requests, and nothing done after the period,
\* although entries, the register and earlier certificates move the request
\* between the waiver and the submission (WAIVER-AMOUNT, WAIVER-THROUGH-DATE).
EarlyWaiversFitTheRequest ==
    \A w \in waivers :
        w.early /\ WasSubmitted(apps[w.app]) =>
            w.amount <= apps[w.app].request /\ w.through <= apps[w.app].end

\* What a project demanded when an application was issued is on file for good
\* and was valid on its period end; two applications never share one document
\* of a recurring requirement (COMPLIANCE-MISSING, evaluate).
EveryPeriodIsDocumented ==
    LET Backing(r, n) == {doc \in documents :
                             doc.requirement = r /\ IsCurrent(doc, apps[n].end)}
        Issued == {n \in DOMAIN apps : WasSubmitted(apps[n])}
    IN  \A m, n \in Issued :
            \A r \in apps[m].required \cap apps[n].required :
                /\ Backing(r, m) # {}
                /\ m # n /\ requirements[r].recurring =>
                      \E one \in Backing(r, m), other \in Backing(r, n) : one # other
=============================================================================
