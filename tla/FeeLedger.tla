------------------------------ MODULE FeeLedger ------------------------------
(***************************************************************************)
(* The arithmetic of the fee ledger, apps/fees/queries/invoice.py: what    *)
(* one ORM helper does to an invoice row and to its installment rows.  It  *)
(* has no state; InvoiceLedger, FeeBilling and FeePayments use it.         *)
(* WithTotalOnly and OldestFirst are mistaken variants of the operator     *)
(* that follows each; no specification uses them.                          *)
(*                                                                         *)
(* A head is the money of a FeeInvoice, a row that of an Installment.      *)
(* Amounts are paise.  The columns are BigIntegerField: 64 bits hold every *)
(* sum of money the system can meet, so the width plays no part.           *)
(***************************************************************************)
EXTENDS Integers, Sequences, SequencesExt

InvoiceStatus == {"due", "partial", "paid", "written_off"}

InvoiceMoney == [total : Nat, paid : Nat, status : InvoiceStatus]
RowMoney     == [amount : Nat, paid : Nat, status : InvoiceStatus]

Least(a, b) == IF a <= b THEN a ELSE b
Monus(a, b) == IF a >= b THEN a - b ELSE 0

StatusOf(total, paid) == IF paid >= total THEN "paid"
                         ELSE IF paid > 0 THEN "partial" ELSE "due"

-----------------------------------------------------------------------------
(* An invoice as it is issued: what is free is paid.                       *)
NewHead(total) == [total  |-> total, paid |-> 0,
                   status |-> IF total = 0 THEN "paid" ELSE "due"]

NewRows(split) == [k \in DOMAIN split |->
                      [amount |-> split[k], paid |-> 0,
                       status |-> IF split[k] = 0 THEN "paid" ELSE "due"]]

-----------------------------------------------------------------------------
(* Operations on a head.  Each answers the object the handler holds in     *)
(* memory after the operation.                                             *)

Balance(h) == Monus(h.total, h.paid)

WithPaid(h, paid)   == [h EXCEPT !.paid = paid, !.status = StatusOf(h.total, paid)]
WithTotalOnly(h, total) == [h EXCEPT !.total = total]
WithTotal(h, total) == [h EXCEPT !.total = total, !.status = StatusOf(total, h.paid)]

Credit(h, amount)    == WithPaid(h, h.paid + amount)
Debit(h, amount)     == WithPaid(h, Monus(h.paid, amount))
CutTotal(h, amount)  == WithTotal(h, Monus(h.total, amount))
WriteOff(h)          == [h EXCEPT !.paid = h.total, !.status = "written_off"]

(* save(update_fields=...): the columns of the stored row that the handler *)
(* overwrites with the absolute values of its object; the others keep what *)
(* the database holds.                                                     *)
SavePaid(stored, h)  == [stored EXCEPT !.paid = h.paid, !.status = h.status]
SaveTotal(stored, h) == [stored EXCEPT !.total = h.total, !.status = h.status]

-----------------------------------------------------------------------------
(* Operations on the installments of an invoice.  Each loop walks the rows *)
(* in order, takes from each at most its room and stops when nothing       *)
(* remains: Remaining(room, amount)[k] is what remains after k rows,       *)
(* Taken(room, amount)[k] what the k-th row gets.                          *)

Remaining(room, amount) ==
    LET remaining[k \in 0..Len(room)] ==
            IF k = 0 THEN amount ELSE Monus(remaining[k - 1], room[k])
    IN  remaining

Taken(room, amount) ==
    [k \in 1..Len(room) |-> Least(Remaining(room, amount)[k - 1], room[k])]

OldestFirst(room, amount) == Taken(room, amount)

NewestFirst(room, amount) == Reverse(Taken(Reverse(room), amount))

RowWithPaid(row, paid) ==
    [row EXCEPT !.paid = paid, !.status = StatusOf(row.amount, paid)]

RowAfterRefund(row, paid) ==
    [row EXCEPT !.paid   = paid,
                !.status = IF paid = 0 THEN "due" ELSE StatusOf(row.amount, paid)]

RowWithAmount(row, amount) ==
    [row EXCEPT !.amount = amount, !.status = StatusOf(amount, row.paid)]

RowWrittenOff(row) == [row EXCEPT !.paid = row.amount, !.status = "written_off"]

Unpaid(row) == Monus(row.amount, row.paid)

(* apply_amount_to_invoice: oldest first, rows marked paid are skipped.    *)
Creditable(row) == IF row.status = "paid" THEN 0 ELSE Unpaid(row)

SpreadCredit(rows, amount) ==
    LET got == Taken([k \in DOMAIN rows |-> Creditable(rows[k])], amount)
    IN  [k \in DOMAIN rows |->
             IF got[k] = 0 THEN rows[k] ELSE RowWithPaid(rows[k], rows[k].paid + got[k])]

(* reverse_amount_from_invoice: newest first, as far as the row was paid.  *)
SpreadDebit(rows, amount) ==
    LET got == NewestFirst([k \in DOMAIN rows |-> rows[k].paid], amount)
    IN  [k \in DOMAIN rows |->
             IF got[k] = 0 THEN rows[k] ELSE RowAfterRefund(rows[k], rows[k].paid - got[k])]

(* reduce_installment_totals: newest first, as far as the row is unpaid.   *)
CutRows(rows, amount) ==
    LET got == NewestFirst([k \in DOMAIN rows |-> Unpaid(rows[k])], amount)
    IN  [k \in DOMAIN rows |->
             IF got[k] = 0 THEN rows[k] ELSE RowWithAmount(rows[k], rows[k].amount - got[k])]

(* write_off_invoice: every row that is not paid.                          *)
WriteOffRows(rows) ==
    [k \in DOMAIN rows |->
         IF rows[k].status = "paid" THEN rows[k] ELSE RowWrittenOff(rows[k])]
=============================================================================
