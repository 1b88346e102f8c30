------------------------------- MODULE Exports -------------------------------
(***************************************************************************)
(* The invoice that is exported to QuickBooks from an application, and what *)
(* the repository says of its total.                                        *)
(*                                                                         *)
(* Code: services/integrations/exports.py.                                  *)
(***************************************************************************)
EXTENDS PayApplications

\* A line of the invoice: what the period alone bills on a schedule line.
InvoiceLine(a, i) == a.columns[i].e + a.columns[i].f

\* The negative line against the retainage-receivable item.
RetainageLine(a) == -a.sheet.line5

InvoiceTotal(a) ==
    SumOver([i \in DOMAIN a.columns |-> InvoiceLine(a, i)]) + RetainageLine(a)

-----------------------------------------------------------------------------
(* A statement of the repository that the code does not keep                *)

\* exports.py on the retainage line: "That is what makes the invoice total
\* equal the amount actually due".  So the invoice of an issued application
\* totals its line 8.  Line 5 is the retainage held to date, so the invoice of
\* a second period takes off the first one's retainage again.
InvoiceTotalsWhatIsDue ==
    \A n \in DOMAIN apps :
        IsIssued(apps[n]) /\ NeverVoided(n) =>
            InvoiceTotal(apps[n]) = apps[n].sheet.line8
=============================================================================
