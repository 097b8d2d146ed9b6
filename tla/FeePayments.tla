----------------------------- MODULE FeePayments -----------------------------
(***************************************************************************)
(* Money against the invoices of one enrollment, as concurrent requests    *)
(* move it: online payments through the gateway (client call and webhook), *)
(* counter payments, refunds, credit notes, write-offs, carry-forward and  *)
(* the reconciliation job.                                                 *)
(*                                                                         *)
(* A request is one PostgreSQL transaction (ATOMIC_REQUESTS) at READ       *)
(* COMMITTED.  A session runs one request: what it has read is in          *)
(* txn[session], what it has written appears in the tables only when it    *)
(* commits, and it may abort (exception, crash, deadlock victim) at any    *)
(* step, which leaves the tables alone but cannot call back the gateway.   *)
(* A row lock is held from the step that takes it to the end; an UPDATE    *)
(* takes it as SELECT FOR UPDATE does.  Plain reads never wait.            *)
(*                                                                         *)
(* A definition directly above one whose name it extends                   *)
(* (CounterFreeAlways above CounterFree) is that definition with a mistake *)
(* a programmer could make.  No action uses it: put in the place of the    *)
(* right one, it shows that a property would notice the mistake.           *)
(***************************************************************************)
EXTENDS FeeLedger, FiniteSets, FiniteSetsExt

CONSTANTS
    Session,        \* requests that may be in progress at once
    Invoice,        \* the invoices of the enrollment
    Payment,        \* payment attempts; the idempotency key of an order is the attempt
    For,            \* the invoice an attempt is for
    Requests,       \* refunds an administrator may ask for, per payment
    Notes,          \* credit notes that may be issued, per invoice
    AutoRefund,     \* the refund the system asks for when a payment exceeds the balance
    None,           \* no value
    Split,          \* installments of each invoice when it was issued
    Total,          \* its total
    Amounts,        \* amounts people pay, refund or credit
    Ops             \* operations the instance includes

Operations == {"order", "cash_order", "client", "webhook", "offline", "request", "approve",
               "approve_auto", "note", "write_off", "carry", "reconcile"}

ASSUME ConstantsAssumption ==
    /\ For \in [Payment -> Invoice]
    /\ Total \in [Invoice -> Nat]
    /\ Split \in [Invoice -> Seq(Nat)]
    /\ Amounts \subseteq Nat \ {0}
    /\ IsFiniteSet(Payment) /\ IsFiniteSet(Requests)    \* rows of a table
    /\ AutoRefund \notin Requests
    /\ None \notin Payment \cup Invoice
    /\ Ops \subseteq Operations

VARIABLES
    invoice,        \* FeeInvoice rows
    inst,           \* their Installment rows
    payment,        \* Payment rows
    receipt,        \* Receipt.sequence_number of a payment, 0 while it has none
    counter,        \* ReceiptCounter.last_number of the branch and year
    refund,         \* Refund rows
    note,           \* CreditNote rows
    logged,         \* payments whose payment.captured event is in WebhookEventLog
    opening,        \* what the next enrollment is billed on account of an invoice
    gateway,        \* the gateway's own state of the payment made on an attempt's order
    repaid,         \* what the gateway has paid back of it
    txn,            \* requests in progress
    listing         \* payments the reconciliation job fetched and has not treated

books  == <<invoice, inst>>
tables == <<invoice, inst, payment, receipt, counter, refund, note, logged, opening>>
vars   == <<tables, gateway, repaid, txn, listing>>

RefundId == Payment \X (Requests \cup {AutoRefund})
NoteId   == Invoice \X Notes

InvoiceRow == [total : Nat, paid : Nat, status : InvoiceStatus, carried : BOOLEAN]
PaymentRow == [status : {"none", "created", "pending", "captured", "failed", "refunded"},
               amount : Nat, online : BOOLEAN, gateway_id : Payment \cup {None}]
RefundRow  == [status : {"none", "requested", "processed"}, amount : Nat]
NoteRow    == [status : {"none", "pending", "approved", "rejected"}, amount : Nat]

-----------------------------------------------------------------------------
(* Requests in progress.                                                   *)

Transaction ==
    [pc     : {"idle", "fetch", "credit", "number", "issue",      \* a capture
               "refund", "reverse", "mark",                       \* a refund approval
               "note", "write_off", "carry", "mark_carried"},
     via    : {"client", "webhook", "offline", "staff"},
     p      : Payment \cup {None},                  \* payment at hand
     ref    : Payment \cup {None},                  \* gateway payment it is to be proved by
     id     : RefundId \cup NoteId \cup {None},     \* refund or credit note at hand
     i      : Invoice \cup {None},                  \* invoice at hand
     seen   : InvoiceRow \cup {None},               \* the invoice as it was read
     amount : Nat,
     number : Nat,                                  \* receipt number taken
     whole  : BOOLEAN,                              \* the refunds cover the payment
     due    : [Invoice -> Nat]]                     \* balances to carry forward

Idle == [pc |-> "idle", via |-> "staff", p |-> None, ref |-> None, id |-> None,
         i |-> None, seen |-> None, amount |-> 0, number |-> 0, whole |-> FALSE,
         due |-> [i \in Invoice |-> 0]]

Captures == {"fetch", "credit", "number", "issue"}

Start(s, fields) == /\ txn[s] = Idle
                    /\ txn' = [txn EXCEPT ![s] = fields]
Goto(s, pc)      == txn' = [txn EXCEPT ![s].pc = pc]
Finish(s)        == txn' = [txn EXCEPT ![s] = Idle]

Applied(t) == Least(t.amount, Balance(t.seen))

ExcessWhole(t) == IF t.amount > Applied(t) THEN t.amount ELSE 0
Excess(t)  == t.amount - Applied(t)

(* Row locks other sessions hold.                                          *)
PaymentFree(p) == \A s \in Session : txn[s].pc \in Captures => txn[s].p # p

HoldsInvoice(t) ==
    \/ t.pc \in {"number", "issue"} /\ (t.via = "offline" \/ Applied(t) > 0)
    \/ t.pc = "mark"

InvoiceFreeAlways(i) == TRUE
InvoiceFree(i) == \A s \in Session : HoldsInvoice(txn[s]) => txn[s].i # i

CounterFreeAlways == TRUE
CounterFree    == \A s \in Session : txn[s].pc # "issue"
Untouched(id)  == \A s \in Session : txn[s].id # id     \* refund or credit note row

-----------------------------------------------------------------------------
(* What the handlers ask of the rows.                                      *)

Collectible(i) == ~invoice[i].carried

Outstanding(i) == /\ ~invoice[i].carried
                  /\ invoice[i].status \in {"due", "partial"}
                  /\ Balance(invoice[i]) > 0

VerifiableIfOpen(p) == payment[p].status \in {"created", "pending"}
Verifiable(p) == payment[p].status \notin {"none", "captured"}

(* "captured" stands for an authorized payment too: the code takes either  *)
(* as money.  Neither the order nor the amount is compared.                *)
Confirmed(q) == gateway[q] = "captured"

(* Payment.razorpay_payment_id is unique, and so is Receipt.payment: what  *)
(* another row has raises IntegrityError, what another request is writing  *)
(* is waited for.                                                          *)
UnusedAlways(p, q) == TRUE
Unused(p, q) == \A other \in Payment \ {p} : payment[other].gateway_id # q

UnclaimedId(s) == \A t \in Session \ {s} : txn[t].ref = txn[s].ref => txn[t].pc = "fetch"

UnreceiptedAlways(p) == TRUE
Unreceipted(p) == receipt[p] = 0

ThroughGateway(p) == payment[p].online /\ payment[p].gateway_id # None

(* aggregate(total=Sum("amount")) over the rows ids of a table.            *)
AmountOf(rows, ids) == MapThenSumSet(LAMBDA id : rows[id].amount, ids)

RefundIds(p, statuses) == {id \in RefundId : id[1] = p /\ refund[id].status \in statuses}
RefundsOf(p, statuses) == AmountOf(refund, RefundIds(p, statuses))

PledgedProcessedOnly(p) == RefundsOf(p, {"processed"})
Pledged(p) == RefundsOf(p, {"requested", "processed"})

Init ==
    /\ invoice = [i \in Invoice |-> [total |-> Total[i], paid |-> 0, carried |-> FALSE,
                                     status |-> IF Total[i] = 0 THEN "paid" ELSE "due"]]
    /\ inst = [i \in Invoice |-> [k \in DOMAIN Split[i] |->
                  [amount |-> Split[i][k], paid |-> 0,
                   status |-> IF Split[i][k] = 0 THEN "paid" ELSE "due"]]]
    /\ payment = [p \in Payment |-> [status |-> "none", amount |-> 0,
                                     online |-> FALSE, gateway_id |-> None]]
    /\ receipt = [p \in Payment |-> 0]
    /\ counter = 0
    /\ refund = [id \in RefundId |-> [status |-> "none", amount |-> 0]]
    /\ note = [id \in NoteId |-> [status |-> "none", amount |-> 0]]
    /\ logged = {}
    /\ opening = [i \in Invoice |-> 0]
    /\ gateway = [p \in Payment |-> "none"]
    /\ repaid = [p \in Payment |-> 0]
    /\ txn = [s \in Session |-> Idle]
    /\ listing = {}

-----------------------------------------------------------------------------
(* Orders.  The invoice is read without a lock; a written-off one is not   *)
(* refused.  Only the gateway method places an order, any other method     *)
(* leaves the payment created.                                             *)

CreateOrder(p, online) == \E amount \in Amounts :
    /\ IF online THEN "order" \in Ops ELSE "cash_order" \in Ops
    /\ payment[p].status = "none"
    /\ \A s \in Session : txn[s].p # p
    /\ Collectible(For[p])
    /\ invoice[For[p]].status # "paid"
    /\ payment' = [payment EXCEPT ![p] =
           [status |-> IF online THEN "pending" ELSE "created",
            amount |-> amount, online |-> online, gateway_id |-> None]]
    /\ gateway' = [gateway EXCEPT ![p] = IF online THEN "open" ELSE @]
    /\ UNCHANGED <<books, receipt, counter, refund, note, logged, opening, repaid, txn, listing>>

(* The customer at the gateway's checkout: a failed attempt leaves the     *)
(* order open.                                                             *)
CustomerPays(p) ==
    /\ gateway[p] = "open"
    /\ gateway' = [gateway EXCEPT ![p] = "captured"]
    /\ UNCHANGED <<tables, repaid, txn, listing>>

-----------------------------------------------------------------------------
(* Captures: client call, webhook, counter.                                *)

(* The payment row is locked.  The webhook finds it by the order that was  *)
(* paid.  The client sends the id of the payment beside what the checkout  *)
(* signed, an order and its gateway payment q: nothing says that p is the  *)
(* payment of that order, nor that it is an online one.  The client path   *)
(* follows payment.invoice for its tenant check, so the invoice it works   *)
(* with is the one it reads now.                                           *)
BeginVerify(s, p, q, via) ==
    /\ via \in Ops
    /\ via = "webhook" => q = p /\ p \notin logged
    /\ Verifiable(p)
    /\ gateway[q] \in {"captured", "refunded"}
    /\ PaymentFree(p)
    /\ Start(s, [Idle EXCEPT !.pc = "fetch", !.via = via, !.p = p, !.ref = q, !.i = For[p],
                             !.amount = payment[p].amount,
                             !.seen = IF via = "client" THEN invoice[For[p]] ELSE None])
    /\ UNCHANGED <<tables, gateway, repaid, listing>>

(* The event of a payment somebody already captured is only logged.        *)
WebhookAfterCapture(p) ==
    /\ "webhook" \in Ops
    /\ gateway[p] \in {"captured", "refunded"} /\ p \notin logged
    /\ payment[p].status = "captured"
    /\ PaymentFree(p)
    /\ logged' = logged \cup {p}
    /\ UNCHANGED <<books, payment, receipt, counter, refund, note, opening,
                   gateway, repaid, txn, listing>>

FetchRefused(s) ==
    LET t == txn[s] IN
    /\ t.pc = "fetch"
    /\ ~Confirmed(t.ref)
    /\ Unused(t.p, t.ref) /\ UnclaimedId(s)
    /\ payment' = [payment EXCEPT ![t.p].status = "failed", ![t.p].gateway_id = t.ref]
    /\ logged' = IF t.via = "webhook" THEN logged \cup {t.p} ELSE logged
    /\ Finish(s)
    /\ UNCHANGED <<books, receipt, counter, refund, note, opening, gateway, repaid, listing>>

FetchConfirmed(s) ==
    /\ txn[s].pc = "fetch"
    /\ Confirmed(txn[s].ref)
    /\ Unused(txn[s].p, txn[s].ref) /\ UnclaimedId(s)
    /\ txn' = [txn EXCEPT ![s].pc = "credit",
                          ![s].seen = IF @ = None THEN invoice[txn[s].i] ELSE @]
    /\ UNCHANGED <<tables, gateway, repaid, listing>>

(* At the counter the invoice row is locked before it is read.             *)
BeginOffline(s, p) == \E amount \in Amounts :
    /\ "offline" \in Ops
    /\ payment[p].status = "none"
    /\ \A t \in Session : txn[t].p # p
    /\ InvoiceFree(For[p])
    /\ Collectible(For[p])
    /\ invoice[For[p]].status # "paid"
    /\ Start(s, [Idle EXCEPT !.pc = "number", !.via = "offline", !.p = p, !.i = For[p],
                             !.amount = amount, !.seen = invoice[For[p]]])
    /\ UNCHANGED <<tables, gateway, repaid, listing>>

(* The invoice is written unless there is nothing to apply.                *)
CreditInvoice(s) ==
    /\ txn[s].pc = "credit"
    /\ Applied(txn[s]) > 0 => InvoiceFree(txn[s].i)
    /\ Goto(s, "number")
    /\ UNCHANGED <<tables, gateway, repaid, listing>>

TakeNumber(s) ==
    /\ txn[s].pc = "number"
    /\ CounterFree
    /\ Unreceipted(txn[s].p)
    /\ txn' = [txn EXCEPT ![s].pc = "issue", ![s].number = counter + 1]
    /\ UNCHANGED <<tables, gateway, repaid, listing>>

(* IntegrityError: the gateway payment stands behind another row, or this  *)
(* payment has its receipt already.                                        *)
Duplicate(t) == \/ t.pc = "fetch"  /\ ~Unused(t.p, t.ref)
                \/ t.pc = "number" /\ ~Unreceipted(t.p)

RowRefused(s) ==
    /\ Duplicate(txn[s])
    /\ Finish(s)
    /\ UNCHANGED <<tables, gateway, repaid, listing>>

CreditedInvoiceInFull(t) == SavePaid(invoice[t.i], Credit(t.seen, Balance(t.seen)))

CreditedInvoiceUncapped(t) == SavePaid(invoice[t.i], Credit(t.seen, t.amount))

CreditedInvoice(t) ==
    IF Applied(t) = 0 THEN invoice[t.i]
    ELSE SavePaid(invoice[t.i], Credit(t.seen, Applied(t)))

CommitCapture(s) ==
    LET t == txn[s] IN
    /\ t.pc = "issue"
    /\ payment' = [payment EXCEPT ![t.p] =
           [status |-> "captured", amount |-> t.amount,
            online |-> t.via # "offline" /\ payment[t.p].online, gateway_id |-> t.ref]]
    /\ invoice' = [invoice EXCEPT ![t.i] = CreditedInvoice(t)]
    /\ inst' = [inst EXCEPT ![t.i] = SpreadCredit(@, Applied(t))]
    /\ refund' = [refund EXCEPT ![<<t.p, AutoRefund>>] =
           IF Excess(t) = 0 THEN @ ELSE [status |-> "requested", amount |-> Excess(t)]]
    /\ receipt' = [receipt EXCEPT ![t.p] = t.number]
    /\ counter' = t.number
    /\ logged' = IF t.via = "webhook" THEN logged \cup {t.p} ELSE logged
    /\ Finish(s)
    /\ UNCHANGED <<note, opening, gateway, repaid, listing>>

-----------------------------------------------------------------------------
(* Refunds.                                                                *)

RequestRefund(id) == \E amount \in Amounts :
    LET p == id[1] IN
    /\ "request" \in Ops
    /\ id[2] # AutoRefund
    /\ refund[id].status = "none"
    /\ PaymentFree(p)
    /\ payment[p].status = "captured"
    /\ Pledged(p) + amount <= payment[p].amount
    /\ refund' = [refund EXCEPT ![id] = [status |-> "requested", amount |-> amount]]
    /\ UNCHANGED <<books, payment, receipt, counter, note, logged, opening,
                   gateway, repaid, txn, listing>>

(* The refund row is locked; payment and invoice are only read.            *)
BeginApprove(s, id) ==
    /\ IF id[2] = AutoRefund THEN "approve_auto" \in Ops ELSE "approve" \in Ops
    /\ refund[id].status = "requested"
    /\ Untouched(id)
    /\ Start(s, [Idle EXCEPT !.pc = "refund", !.id = id, !.p = id[1], !.i = For[id[1]],
                             !.amount = refund[id].amount, !.seen = invoice[For[id[1]]]])
    /\ UNCHANGED <<tables, gateway, repaid, listing>>

(* The money leaves here, before anything is committed.  The gateway pays  *)
(* back at most what it captured, the amount of the order that was paid.   *)
RefundAtGateway(s) ==
    LET q == payment[txn[s].p].gateway_id IN
    /\ txn[s].pc = "refund"
    /\ ThroughGateway(txn[s].p)
    /\ repaid[q] + txn[s].amount <= payment[q].amount
    /\ repaid' = [repaid EXCEPT ![q] = @ + txn[s].amount]
    /\ gateway' = [gateway EXCEPT ![q] =
                       IF repaid'[q] = payment[q].amount THEN "refunded" ELSE @]
    /\ Goto(s, "reverse")
    /\ UNCHANGED <<tables, listing>>

RefundByHand(s) ==
    /\ txn[s].pc = "refund"
    /\ ~ThroughGateway(txn[s].p)
    /\ Goto(s, "reverse")
    /\ UNCHANGED <<tables, gateway, repaid, listing>>

(* The refunds are summed after the invoice row is locked.                 *)
RefundsCover(t) ==
    RefundsOf(t.p, {"processed"}) + t.amount >= payment[t.p].amount

ReverseInvoice(s) ==
    /\ txn[s].pc = "reverse"
    /\ InvoiceFree(txn[s].i)
    /\ txn' = [txn EXCEPT ![s].pc = "mark", ![s].whole = RefundsCover(txn[s])]
    /\ UNCHANGED <<tables, gateway, repaid, listing>>

CommitRefund(s) ==
    LET t == txn[s] IN
    /\ t.pc = "mark"
    /\ t.whole => PaymentFree(t.p)
    /\ refund' = [refund EXCEPT ![t.id].status = "processed"]
    /\ invoice' = [invoice EXCEPT ![t.i] = SavePaid(@, Debit(t.seen, t.amount))]
    /\ inst' = [inst EXCEPT ![t.i] = SpreadDebit(@, t.amount)]
    /\ payment' = [payment EXCEPT ![t.p].status = IF t.whole THEN "refunded" ELSE @]
    /\ Finish(s)
    /\ UNCHANGED <<receipt, counter, note, logged, opening, gateway, repaid, listing>>

-----------------------------------------------------------------------------
(* Credit notes, write-offs, carry-forward: the last statement locks the   *)
(* invoice row, so locking and committing are one step.                    *)

CreateNote(id) == \E amount \in Amounts :
    /\ "note" \in Ops
    /\ note[id].status = "none"
    /\ amount <= Balance(invoice[id[1]])
    /\ note' = [note EXCEPT ![id] = [status |-> "pending", amount |-> amount]]
    /\ UNCHANGED <<books, payment, receipt, counter, refund, logged, opening,
                   gateway, repaid, txn, listing>>

RejectNote(id) ==
    /\ note[id].status = "pending"
    /\ Untouched(id)
    /\ note' = [note EXCEPT ![id].status = "rejected"]
    /\ UNCHANGED <<books, payment, receipt, counter, refund, logged, opening,
                   gateway, repaid, txn, listing>>

BeginNote(s, id) ==
    /\ note[id].status = "pending"
    /\ Untouched(id)
    /\ Start(s, [Idle EXCEPT !.pc = "note", !.id = id, !.i = id[1],
                             !.amount = note[id].amount, !.seen = invoice[id[1]]])
    /\ UNCHANGED <<tables, gateway, repaid, listing>>

CommitNote(s) ==
    LET t == txn[s] IN
    /\ t.pc = "note"
    /\ Applied(t) > 0 => InvoiceFree(t.i)
    /\ note' = [note EXCEPT ![t.id].status = "approved"]
    /\ invoice' = [invoice EXCEPT ![t.i] =
           IF Applied(t) = 0 THEN @ ELSE SaveTotal(@, CutTotal(t.seen, Applied(t)))]
    /\ inst' = [inst EXCEPT ![t.i] = CutRows(@, Applied(t))]
    /\ Finish(s)
    /\ UNCHANGED <<payment, receipt, counter, refund, logged, opening, gateway, repaid, listing>>

BeginWriteOff(s, i) ==
    /\ "write_off" \in Ops
    /\ invoice[i].status \notin {"paid", "written_off"}
    /\ Start(s, [Idle EXCEPT !.pc = "write_off", !.i = i, !.seen = invoice[i]])
    /\ UNCHANGED <<tables, gateway, repaid, listing>>

CommitWriteOff(s) ==
    LET t == txn[s] IN
    /\ t.pc = "write_off"
    /\ InvoiceFree(t.i)
    /\ invoice' = [invoice EXCEPT ![t.i] = SavePaid(@, WriteOff(t.seen))]
    /\ inst' = [inst EXCEPT ![t.i] = WriteOffRows(@)]
    /\ Finish(s)
    /\ UNCHANGED <<payment, receipt, counter, refund, note, logged, opening,
                   gateway, repaid, listing>>

(* Promoting a student: the balances are summed, billed to the new         *)
(* enrollment, and every invoice that is outstanding when the UPDATE       *)
(* reaches it is marked.  The promotion task has no transaction around it, *)
(* each of the three commits by itself.  An enrollment is promoted once.   *)
Carrying(t) == t.pc \in {"carry", "mark_carried"}

BeginCarry(s) ==
    LET due == [i \in Invoice |-> IF Outstanding(i) THEN Balance(invoice[i]) ELSE 0] IN
    /\ "carry" \in Ops
    /\ \A t \in Session : ~Carrying(txn[t])
    /\ \A i \in Invoice : opening[i] = 0
    /\ \E i \in Invoice : due[i] > 0
    /\ Start(s, [Idle EXCEPT !.pc = "carry", !.due = due])
    /\ UNCHANGED <<tables, gateway, repaid, listing>>

BillOpening(s) ==
    /\ txn[s].pc = "carry"
    /\ opening' = txn[s].due
    /\ Goto(s, "mark_carried")
    /\ UNCHANGED <<books, payment, receipt, counter, refund, note, logged,
                   gateway, repaid, listing>>

MarkCarried(s) ==
    /\ txn[s].pc = "mark_carried"
    /\ \A i \in Invoice : Outstanding(i) => InvoiceFree(i)
    /\ invoice' = [i \in Invoice |-> [invoice[i] EXCEPT !.carried = @ \/ Outstanding(i)]]
    /\ Finish(s)
    /\ UNCHANGED <<inst, payment, receipt, counter, refund, note, logged, opening,
                   gateway, repaid, listing>>

-----------------------------------------------------------------------------
(* The reconciliation job.  It runs outside a transaction: the list is     *)
(* fetched once, every row is then written on its own.  A payment with a   *)
(* gateway id would be polled, but none is ever pending or created         *)
(* (PendingHasNoGatewayId), so each one listed is failed.                  *)

ReconcileScan ==
    /\ "reconcile" \in Ops
    /\ listing = {}
    /\ listing' = {p \in Payment : payment[p].status \in {"created", "pending"}}
    /\ UNCHANGED <<tables, gateway, repaid, txn>>

ReconcileStep(p) ==
    /\ p \in listing
    /\ PaymentFree(p)
    /\ payment' = [payment EXCEPT ![p].status = "failed"]
    /\ listing' = listing \ {p}
    /\ UNCHANGED <<books, receipt, counter, refund, note, logged, opening, gateway, repaid, txn>>

ReconcileStops ==
    /\ listing # {}
    /\ listing' = {}
    /\ UNCHANGED <<tables, gateway, repaid, txn>>

-----------------------------------------------------------------------------
Abort(s) == /\ txn[s] # Idle
            /\ Finish(s)
            /\ UNCHANGED <<tables, gateway, repaid, listing>>

Next ==
    \/ \E p \in Payment :
           \/ \E online \in BOOLEAN : CreateOrder(p, online)
           \/ CustomerPays(p)
           \/ WebhookAfterCapture(p)
           \/ ReconcileStep(p)
    \/ \E id \in RefundId : RequestRefund(id)
    \/ \E id \in NoteId : CreateNote(id) \/ RejectNote(id)
    \/ ReconcileScan
    \/ ReconcileStops
    \/ \E s \in Session :
           \/ \E p \in Payment : BeginOffline(s, p)
           \/ \E p, q \in Payment, via \in {"client", "webhook"} : BeginVerify(s, p, q, via)
           \/ \E id \in RefundId : BeginApprove(s, id)
           \/ \E id \in NoteId : BeginNote(s, id)
           \/ \E i \in Invoice : BeginWriteOff(s, i)
           \/ BeginCarry(s)
           \/ FetchRefused(s) \/ FetchConfirmed(s)
           \/ CreditInvoice(s) \/ TakeNumber(s) \/ CommitCapture(s) \/ RowRefused(s)
           \/ RefundAtGateway(s) \/ RefundByHand(s) \/ ReverseInvoice(s) \/ CommitRefund(s)
           \/ CommitNote(s) \/ CommitWriteOff(s) \/ BillOpening(s) \/ MarkCarried(s)
           \/ Abort(s)

Spec == Init /\ [][Next]_vars

-----------------------------------------------------------------------------
(* Fairness.  The gateway delivers an event again until it is answered     *)
(* 200; exceptions and crashes strike the handling of one event finitely   *)
(* often; and a request that is under way goes on, is woken when it waits  *)
(* for a row, or ends at the row that is refused.                          *)

Handling(p, Step(_)) == \E s \in Session : txn[s].p = p /\ Step(s)

Struck(p) == \E s \in Session : /\ txn[s].p = p /\ txn[s].via = "webhook"
                                /\ ~Duplicate(txn[s])
                                /\ Abort(s)

Fairness ==
    \A p \in Payment :
        /\ SF_vars(\E s \in Session : BeginVerify(s, p, p, "webhook"))
        /\ <>[][~Struck(p)]_vars
        /\ SF_vars(Handling(p, FetchConfirmed))
        /\ SF_vars(Handling(p, CreditInvoice))
        /\ SF_vars(Handling(p, TakeNumber))
        /\ WF_vars(Handling(p, CommitCapture))
        /\ WF_vars(Handling(p, RowRefused))

FairSpec == Spec /\ Fairness

-----------------------------------------------------------------------------
(* Properties.                                                             *)

(* Every table and every request in progress holds what its columns allow. *)
(* (The installments, which take induction along the rows, have a theorem  *)
(* of their own, InstallmentsStayTyped.)                                   *)
TypeOK ==
    /\ invoice \in [Invoice -> InvoiceRow]
    /\ payment \in [Payment -> PaymentRow]
    /\ receipt \in [Payment -> Nat]
    /\ counter \in Nat
    /\ refund \in [RefundId -> RefundRow]
    /\ note \in [NoteId -> NoteRow]
    /\ logged \subseteq Payment
    /\ opening \in [Invoice -> Nat]
    /\ gateway \in [Payment -> {"none", "open", "captured", "refunded"}]
    /\ repaid \in [Payment -> Nat]
    /\ txn \in [Session -> Transaction]
    /\ listing \subseteq Payment

Issued == {p \in Payment : receipt[p] # 0}

(* Receipt numbers are consecutive and each is used once, whatever the     *)
(* captures running at once and whichever of them roll back.               *)
ReceiptsGapFree ==
    /\ {receipt[p] : p \in Issued} = 1..counter
    /\ \A p, q \in Issued : receipt[p] = receipt[q] => p = q

(* A receipt, once issued, is never withdrawn or renumbered: verifying a   *)
(* payment again cannot issue a second one.                                *)
ReceiptPermanent ==
    [][\A p \in Payment : receipt[p] # 0 => receipt'[p] = receipt[p]]_vars

(* Behind the receipt of a payment that was not taken at the counter is    *)
(* money the gateway has, or had and paid back, and no two receipts are    *)
(* for the same money, whichever payments clients and events name.  (It    *)
(* need not be the money of the payment's own order, nor as much.)         *)
ReceiptHasMoney ==
    /\ \A p \in Issued : payment[p].online => payment[p].gateway_id # None
    /\ \A p \in Issued : payment[p].gateway_id # None =>
           gateway[payment[p].gateway_id] \in {"captured", "refunded"}
    /\ \A p, q \in Issued :
           payment[p].gateway_id = payment[q].gateway_id => p = q \/ payment[p].gateway_id = None

(* No pending payment has a gateway id, so the job never polls.            *)
PendingHasNoGatewayId ==
    \A p \in Payment :
        payment[p].status \in {"created", "pending"} => payment[p].gateway_id = None

(* The payments of an invoice that have a receipt, and what they come to.  *)
IssuedFor(i) == {p \in Issued : For[p] = i}
Received(i)  == AmountOf(payment, IssuedFor(i))

(* Client call, webhook and redelivered webhook together credit a payment  *)
(* at most once: an invoice gains only in the step that issues a receipt   *)
(* for it, and then counts no more as paid than its receipts come to.      *)
(* (The step itself may add more than its payment: a request that read the *)
(* invoice before another one's stale write undid a credit restores that   *)
(* credit with its own.)                                                   *)
CreditedOnce ==
    [][\A i \in Invoice : invoice'[i].paid > invoice[i].paid =>
           /\ \E p \in Payment : For[p] = i /\ receipt[p] = 0 /\ receipt'[p] # 0
           /\ invoice'[i].paid <= Received(i)']_vars

(* Overlapping requests may lose a credit or a refund of an invoice, but   *)
(* what counts as paid was received at some time.                          *)
PaidWithinReceipts == \A i \in Invoice : invoice[i].paid <= Received(i)

(* Refunds asked for or made, the automatic one included, never exceed the *)
(* payment.                                                                *)
RefundsWithinPayment ==
    \A p \in Payment : RefundsOf(p, {"requested", "processed"}) <= payment[p].amount

(* A payment is marked refunded exactly when its refunds cover it, also    *)
(* when two of them are approved at once: each approval sums the refunds   *)
(* after it holds the invoice row, so one of them sees the other.  (A late *)
(* event or the job may have set the payment to failed.)                   *)
RefundedIffCovered ==
    \A p \in Issued : payment[p].status # "failed" =>
        (payment[p].status = "refunded" <=> RefundsOf(p, {"processed"}) = payment[p].amount)

(* The counter never takes money for an invoice that has been carried      *)
(* forward.                                                                *)
OfflineSparesCarried ==
    [][\A p \in Payment :
           receipt[p] = 0 /\ receipt'[p] # 0 /\ payment'[p].gateway_id = None
               => ~invoice[For[p]].carried]_vars

(* What an invoice counts as paid moves with the money: up by what is      *)
(* received less the excess that is to go back, down by the refunds made   *)
(* of the rest; only a write-off moves it otherwise.                       *)
Kept(i) ==
    LET returned == {id \in RefundId : /\ For[id[1]] = i
                                       /\ id[2] = AutoRefund \/ refund[id].status = "processed"}
    IN  Received(i) - AmountOf(refund, returned)

PaidMovesWithMoney ==
    [][\A i \in Invoice : invoice'[i].paid - invoice[i].paid = Kept(i)' - Kept(i)
                              \/ invoice'[i].status = "written_off"]_vars

(* Money the gateway holds is receipted in the end, or else its order is,  *)
(* with the money of another one.                                          *)
CapturedIsReceipted ==
    \A q \in Payment : gateway[q] = "captured" ~>
        \/ receipt[q] # 0
        \/ \E p \in Issued : payment[p].gateway_id = q
=============================================================================
