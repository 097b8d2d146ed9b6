---------------------------- MODULE InvoiceLedger ----------------------------
(***************************************************************************)
(* What the invoices promise the people who use them: the money of an      *)
(* invoice and the money of its installments change together, one          *)
(* operation on one invoice at a time.  This is the abstract specification *)
(* of the books; FeePayments, where the operations are database            *)
(* transactions of concurrent requests, is shown to implement it as long   *)
(* as requests do not overlap.                                             *)
(*                                                                         *)
(* The four actions are the four ways apps/fees moves an invoice: an       *)
(* amount applied, an applied amount reversed, a credit note, a write-off. *)
(***************************************************************************)
EXTENDS FeeLedger

CONSTANTS Invoice,  \* the invoices
          Total,    \* what each was issued for
          Split     \* its installments

VARIABLES head,     \* the rows of FeeInvoice
          rows      \* their Installment rows, by sequence

vars == <<head, rows>>

Init == /\ head = [i \in Invoice |-> NewHead(Total[i])]
        /\ rows = [i \in Invoice |-> NewRows(Split[i])]

ApplyAmount(i) == \E amount \in 1..Balance(head[i]) :
    /\ head' = [head EXCEPT ![i] = Credit(@, amount)]
    /\ rows' = [rows EXCEPT ![i] = SpreadCredit(@, amount)]

ReverseAmount(i) == \E amount \in 1..head[i].paid :
    /\ head' = [head EXCEPT ![i] = Debit(@, amount)]
    /\ rows' = [rows EXCEPT ![i] = SpreadDebit(@, amount)]

ApproveCreditNote(i) == \E amount \in 1..Balance(head[i]) :
    /\ head' = [head EXCEPT ![i] = CutTotal(@, amount)]
    /\ rows' = [rows EXCEPT ![i] = CutRows(@, amount)]

WriteOffInvoice(i) ==
    /\ head[i].status \notin {"paid", "written_off"}
    /\ head' = [head EXCEPT ![i] = WriteOff(@)]
    /\ rows' = [rows EXCEPT ![i] = WriteOffRows(@)]

Next == \E i \in Invoice :
    ApplyAmount(i) \/ ReverseAmount(i) \/ ApproveCreditNote(i) \/ WriteOffInvoice(i)

Spec == Init /\ [][Next]_vars

=============================================================================
