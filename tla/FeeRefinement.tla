---------------------------- MODULE FeeRefinement ----------------------------
(***************************************************************************)
(* Requests that do not overlap keep the promise of InvoiceLedger: seen    *)
(* through its columns, the invoices and their installments only ever do   *)
(* what one operation of the ledger does.  (Carrying invoices forward      *)
(* changes no amount and is a stuttering step.)                            *)
(***************************************************************************)
EXTENDS FeePayments

(* The columns of FeeInvoice that hold its money.                          *)
MoneyOf(row) == [total |-> row.total, paid |-> row.paid, status |-> row.status]

Ledger == INSTANCE InvoiceLedger WITH
    head <- [i \in Invoice |-> MoneyOf(invoice[i])],
    rows <- inst

(* Every committed request is one operation of the ledger on one invoice   *)
(* and its installments together, or leaves all of them alone.             *)
InvoicesAreLedgers == Ledger!Spec
=============================================================================
