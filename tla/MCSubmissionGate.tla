--------------------------- MODULE MCSubmissionGate ---------------------------
(***************************************************************************)
(* SubmissionGate with two periods, ending on days 2 and 4.                 *)
(***************************************************************************)
EXTENDS SubmissionGate

MCPeriodEnds == <<2, 4>>
MCValues == {2, -1}

\* Bounds on the histories explored: one application is voided at most, and
\* what does not meet is not used at once: with a demand on the project there is
\* no register, no waiver, no entry, no certificate and no revision; beside a
\* waiver there is no revision; with two materials there is no waiver, no
\* certificate and no work typed.
Bounded ==
    /\ Cardinality({n \in DOMAIN apps : apps[n].status = "void"}) <= 1
    /\ requirements # <<>> =>
          /\ materials = <<>> /\ waivers = {} /\ line = 1
          /\ \A n \in DOMAIN apps :
                apps[n].e = 0 /\ apps[n].f = 0 /\ apps[n].certificate = None
    /\ waivers # {} => line = 1
    /\ Len(materials) > 1 =>
          /\ waivers = {}
          /\ \A n \in DOMAIN apps : apps[n].e = 0 /\ apps[n].certificate = None
=============================================================================
