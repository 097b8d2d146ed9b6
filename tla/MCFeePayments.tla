---------------------------- MODULE MCFeePayments ----------------------------
EXTENDS FeeRefinement, TLC

CONSTANTS i1

(* The invoice an attempt is for: i1; or, where two invoices are given,    *)
(* the other one for one of the attempts, so that captures which share no  *)
(* invoice still share the receipt counter.                                *)
AllForI1  == [p \in Payment |-> i1]
OneApart  == [AllForI1 EXCEPT ![CHOOSE p \in Payment : TRUE] = CHOOSE i \in Invoice : i # i1]

(* How an invoice starts.                                                  *)
Halves    == [i \in Invoice |-> <<1, 1>>]
Two       == [i \in Invoice |-> 2]

Symmetry  == Permutations(Session) \cup Permutations(Payment)

(* The operations of each run.                                             *)
CaptureOps == {"order", "cash_order", "client", "webhook", "offline", "reconcile"}
RefundOps  == {"order", "client", "webhook", "offline", "request", "approve", "approve_auto"}
SerialOps  == Operations \ {"approve_auto", "cash_order", "reconcile"}
=============================================================================
