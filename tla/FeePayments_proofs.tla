------------------------- MODULE FeePayments_proofs -------------------------
(***************************************************************************)
(* Theorems about the fees.                                                *)
(*                                                                         *)
(* About FeePayments, for any number of requests, invoices, payments,      *)
(* refunds and credit notes and any amounts; the last two of them, that    *)
(* the books implement InvoiceLedger among them, for one request at a time *)
(* on any number of invoices.                                              *)
(*                                                                         *)
(* About FeeBilling, for any structure, concessions, rules and discounts   *)
(* and any number of requests and invoices.  They come last, and share     *)
(* with the others what is said of sums of money and of the loops of       *)
(* FeeLedger.                                                              *)
(***************************************************************************)
EXTENDS FeeRefinement, FeeBilling, FiniteSetTheorems, WellFoundedInduction, SequenceTheorems, TLAPS

-----------------------------------------------------------------------------
(* The ledger operators answer money again.                                *)

LEMMA StatusOfType ==
    ASSUME NEW total \in Nat, NEW paid \in Nat
    PROVE  StatusOf(total, paid) \in InvoiceStatus
BY DEF StatusOf, InvoiceStatus

LEMMA LeastType ==
    ASSUME NEW a \in Nat, NEW b \in Nat
    PROVE  /\ Least(a, b) \in Nat
           /\ Least(a, b) <= a
           /\ Least(a, b) <= b
BY DEF Least

LEMMA MonusType ==
    ASSUME NEW a \in Nat, NEW b \in Nat
    PROVE  Monus(a, b) \in Nat
BY DEF Monus

LEMMA BalanceType ==
    ASSUME NEW row \in InvoiceRow
    PROVE  Balance(row) \in Nat
BY MonusType DEF Balance, InvoiceRow

(* Each write of an invoice row writes a row.                              *)
LEMMA SavedRowType ==
    ASSUME NEW stored \in InvoiceRow, NEW seen \in InvoiceRow, NEW amount \in Nat
    PROVE  /\ SavePaid(stored, Credit(seen, amount)) \in InvoiceRow
           /\ SavePaid(stored, Debit(seen, amount)) \in InvoiceRow
           /\ SavePaid(stored, WriteOff(seen)) \in InvoiceRow
           /\ SaveTotal(stored, CutTotal(seen, amount)) \in InvoiceRow
<1>1. /\ seen.total \in Nat /\ seen.paid \in Nat
      /\ seen.paid + amount \in Nat
  BY DEF InvoiceRow
<1>2. /\ Monus(seen.paid, amount) \in Nat
      /\ Monus(seen.total, amount) \in Nat
  BY <1>1, MonusType
<1>3. /\ StatusOf(seen.total, seen.paid + amount) \in InvoiceStatus
      /\ StatusOf(seen.total, Monus(seen.paid, amount)) \in InvoiceStatus
      /\ StatusOf(Monus(seen.total, amount), seen.paid) \in InvoiceStatus
  BY <1>1, <1>2, StatusOfType
<1>4. SavePaid(stored, Credit(seen, amount)) \in InvoiceRow
  BY <1>1, <1>3 DEF SavePaid, Credit, WithPaid, InvoiceRow
<1>5. SavePaid(stored, Debit(seen, amount)) \in InvoiceRow
  BY <1>1, <1>2, <1>3 DEF SavePaid, Debit, WithPaid, InvoiceRow
<1>6. SavePaid(stored, WriteOff(seen)) \in InvoiceRow
  BY <1>1 DEF SavePaid, WriteOff, InvoiceRow, InvoiceStatus
<1>7. SaveTotal(stored, CutTotal(seen, amount)) \in InvoiceRow
  BY <1>1, <1>2, <1>3 DEF SaveTotal, CutTotal, WithTotal, InvoiceRow
<1>8. QED BY <1>4, <1>5, <1>6, <1>7

-----------------------------------------------------------------------------
(* What a request under way has at hand.                                   *)

RequestOK(t) ==
    /\ t.pc \in Captures => t.p \in Payment /\ t.i = For[t.p]
    /\ t.pc \in Captures /\ t.via = "offline" => t.ref = None
    /\ t.pc \in Captures /\ t.ref = None => t.via = "offline"
    /\ t.pc \in {"refund", "reverse", "mark"} => t.id \in RefundId /\ t.p \in Payment
    /\ t.pc = "note" => t.id \in NoteId
    /\ t.pc \in {"refund", "reverse", "mark", "note", "write_off"} => t.i \in Invoice
    /\ t.pc \notin {"idle", "fetch", "carry", "mark_carried"} => t.seen \in InvoiceRow

Typed == TypeOK /\ \A s \in Session : RequestOK(txn[s])

LEMMA IdleOK == Idle \in Transaction /\ RequestOK(Idle)
BY DEF Idle, Transaction, RequestOK, Captures

LEMMA TypedInit == Init => Typed
<1> SUFFICES ASSUME Init PROVE Typed
  OBVIOUS
<1>1. invoice \in [Invoice -> InvoiceRow]
  BY ConstantsAssumption DEF Init, InvoiceRow, InvoiceStatus
<1>2. TypeOK
  BY <1>1, IdleOK DEF Init, TypeOK, PaymentRow, RefundRow, NoteRow
<1>3. QED BY <1>2, IdleOK DEF Init, Typed

(* A request that starts, goes on or ends with fields of the right types.  *)
LEMMA SetTyped ==
    ASSUME Typed, NEW s \in Session, NEW t \in Transaction, RequestOK(t),
           txn' = [txn EXCEPT ![s] = t]
    PROVE  txn' \in [Session -> Transaction] /\ \A x \in Session : RequestOK(txn'[x])
BY DEF Typed, TypeOK

LEMMA StartTyped ==
    ASSUME Typed, NEW s \in Session, NEW fields \in Transaction, RequestOK(fields),
           Start(s, fields)
    PROVE  txn' \in [Session -> Transaction] /\ \A x \in Session : RequestOK(txn'[x])
BY SetTyped DEF Start

LEMMA FinishTyped ==
    ASSUME Typed, NEW s \in Session, Finish(s)
    PROVE  txn' \in [Session -> Transaction] /\ \A x \in Session : RequestOK(txn'[x])
BY SetTyped, IdleOK DEF Finish

LEMMA GotoTyped ==
    ASSUME Typed, NEW s \in Session, NEW pc, Goto(s, pc),
           \/ pc = "number" /\ txn[s].pc = "credit"
           \/ pc = "reverse" /\ txn[s].pc = "refund"
           \/ pc = "mark_carried" /\ txn[s].pc = "carry"
    PROVE  txn' \in [Session -> Transaction] /\ \A x \in Session : RequestOK(txn'[x])
<1> DEFINE t == [txn[s] EXCEPT !.pc = pc]
<1>1. txn[s] \in Transaction /\ RequestOK(txn[s])
  BY DEF Typed, TypeOK
<1>2. t \in Transaction
  BY <1>1 DEF Transaction
<1>3. RequestOK(t)
  BY <1>1 DEF Transaction, RequestOK, Captures
<1>4. txn' = [txn EXCEPT ![s] = t]
  BY DEF Goto
<1> HIDE DEF t
<1>5. QED BY <1>2, <1>3, <1>4, SetTyped

LEMMA AppliedType ==
    ASSUME NEW t \in Transaction, t.seen \in InvoiceRow
    PROVE  /\ Applied(t) \in Nat
           /\ Excess(t) \in Nat
<1>1. t.amount \in Nat /\ Balance(t.seen) \in Nat
  BY BalanceType DEF Transaction
<1>2. Applied(t) \in Nat /\ Applied(t) <= t.amount
  BY <1>1, LeastType DEF Applied
<1>3. QED BY <1>1, <1>2 DEF Excess

(* A step that only moves a request on keeps every table typed.            *)
LEMMA RequestStepTyped ==
    ASSUME Typed, UNCHANGED <<tables, gateway, repaid, listing>>,
           txn' \in [Session -> Transaction] /\ \A x \in Session : RequestOK(txn'[x])
    PROVE  Typed'
BY DEF Typed, TypeOK, tables, books

(* The steps that start a request.                                         *)
LEMMA BeginTyped ==
    ASSUME Typed, NEW s \in Session,
           \/ \E p \in Payment : BeginOffline(s, p)
           \/ \E p, ref \in Payment, via \in {"client", "webhook"} : BeginVerify(s, p, ref, via)
           \/ \E id \in RefundId : BeginApprove(s, id)
           \/ \E id \in NoteId : BeginNote(s, id)
           \/ \E i \in Invoice : BeginWriteOff(s, i)
           \/ BeginCarry(s)
    PROVE  Typed'
<1> USE ConstantsAssumption
<1>1. CASE \E p \in Payment : BeginOffline(s, p)
  <2>1. PICK p \in Payment, amount \in Amounts :
          /\ Start(s, [Idle EXCEPT !.pc = "number", !.via = "offline", !.p = p, !.i = For[p],
                                   !.amount = amount, !.seen = invoice[For[p]]])
          /\ UNCHANGED <<tables, gateway, repaid, listing>>
    BY <1>1 DEF BeginOffline
  <2> DEFINE t == [Idle EXCEPT !.pc = "number", !.via = "offline", !.p = p, !.i = For[p],
                               !.amount = amount, !.seen = invoice[For[p]]]
  <2>2. For[p] \in Invoice /\ invoice[For[p]] \in InvoiceRow /\ amount \in Nat
    BY DEF Typed, TypeOK
  <2>3. t \in Transaction /\ RequestOK(t)
    BY <2>2, IdleOK DEF Idle, Transaction, RequestOK, Captures
  <2> HIDE DEF t
  <2>4. QED BY <2>1, <2>3, StartTyped, RequestStepTyped DEF t
<1>2. CASE \E p, ref \in Payment, via \in {"client", "webhook"} : BeginVerify(s, p, ref, via)
  <2>1. PICK p \in Payment, ref \in Payment, via \in {"client", "webhook"} : BeginVerify(s, p, ref, via)
    BY <1>2
  <2> DEFINE t == [Idle EXCEPT !.pc = "fetch", !.via = via, !.p = p, !.ref = ref, !.i = For[p],
                               !.amount = payment[p].amount,
                               !.seen = IF via = "client" THEN invoice[For[p]] ELSE None]
  <2>2. For[p] \in Invoice /\ invoice[For[p]] \in InvoiceRow /\ payment[p].amount \in Nat
    BY DEF Typed, TypeOK, PaymentRow
  <2>3. t \in Transaction /\ RequestOK(t)
    BY <2>2, IdleOK DEF Idle, Transaction, RequestOK, Captures
  <2>4. Start(s, t) /\ UNCHANGED <<tables, gateway, repaid, listing>>
    BY <2>1 DEF BeginVerify
  <2> HIDE DEF t
  <2>5. QED BY <2>3, <2>4, StartTyped, RequestStepTyped
<1>3. CASE \E id \in RefundId : BeginApprove(s, id)
  <2>1. PICK id \in RefundId : BeginApprove(s, id)
    BY <1>3
  <2> DEFINE t == [Idle EXCEPT !.pc = "refund", !.id = id, !.p = id[1], !.i = For[id[1]],
                               !.amount = refund[id].amount, !.seen = invoice[For[id[1]]]]
  <2>2. id[1] \in Payment
    BY DEF RefundId
  <2>3. /\ For[id[1]] \in Invoice
        /\ invoice[For[id[1]]] \in InvoiceRow
        /\ refund[id].amount \in Nat
    BY <2>2 DEF Typed, TypeOK, RefundRow
  <2>4. t \in Transaction /\ RequestOK(t)
    BY <2>2, <2>3, IdleOK DEF Idle, Transaction, RequestOK, Captures
  <2>5. Start(s, t) /\ UNCHANGED <<tables, gateway, repaid, listing>>
    BY <2>1 DEF BeginApprove
  <2> HIDE DEF t
  <2>6. QED BY <2>4, <2>5, StartTyped, RequestStepTyped
<1>4. CASE \E id \in NoteId : BeginNote(s, id)
  <2>1. PICK id \in NoteId : BeginNote(s, id)
    BY <1>4
  <2> DEFINE t == [Idle EXCEPT !.pc = "note", !.id = id, !.i = id[1],
                               !.amount = note[id].amount, !.seen = invoice[id[1]]]
  <2>2. id[1] \in Invoice
    BY DEF NoteId
  <2>3. invoice[id[1]] \in InvoiceRow /\ note[id].amount \in Nat
    BY <2>2 DEF Typed, TypeOK, NoteRow
  <2>4. t \in Transaction /\ RequestOK(t)
    BY <2>2, <2>3, IdleOK DEF Idle, Transaction, RequestOK, Captures
  <2>5. Start(s, t) /\ UNCHANGED <<tables, gateway, repaid, listing>>
    BY <2>1 DEF BeginNote
  <2> HIDE DEF t
  <2>6. QED BY <2>4, <2>5, StartTyped, RequestStepTyped
<1>5. CASE \E i \in Invoice : BeginWriteOff(s, i)
  <2>1. PICK i \in Invoice : BeginWriteOff(s, i)
    BY <1>5
  <2> DEFINE t == [Idle EXCEPT !.pc = "write_off", !.i = i, !.seen = invoice[i]]
  <2>2. t \in Transaction /\ RequestOK(t)
    BY IdleOK DEF Typed, TypeOK, Idle, Transaction, RequestOK, Captures
  <2>3. Start(s, t) /\ UNCHANGED <<tables, gateway, repaid, listing>>
    BY <2>1 DEF BeginWriteOff
  <2> HIDE DEF t
  <2>4. QED BY <2>2, <2>3, StartTyped, RequestStepTyped
<1>6. CASE BeginCarry(s)
  <2> DEFINE due == [i \in Invoice |-> IF Outstanding(i) THEN Balance(invoice[i]) ELSE 0]
             t   == [Idle EXCEPT !.pc = "carry", !.due = due]
  <2>1. due \in [Invoice -> Nat]
    BY BalanceType DEF Typed, TypeOK
  <2>2. t \in Transaction /\ RequestOK(t)
    <3> HIDE DEF due
    <3>1. QED BY <2>1, IdleOK DEF Idle, Transaction, RequestOK, Captures
  <2>3. Start(s, t) /\ UNCHANGED <<tables, gateway, repaid, listing>>
    BY <1>6 DEF BeginCarry
  <2> HIDE DEF t
  <2>4. QED BY <2>2, <2>3, StartTyped, RequestStepTyped
<1>7. QED BY <1>1, <1>2, <1>3, <1>4, <1>5, <1>6

(* The steps in the middle of a request: it moves on, and at most the      *)
(* gateway changes.                                                        *)
LEMMA MiddleTyped ==
    ASSUME Typed, NEW s \in Session,
           \/ FetchConfirmed(s) \/ CreditInvoice(s) \/ TakeNumber(s)
           \/ RefundAtGateway(s) \/ RefundByHand(s) \/ ReverseInvoice(s) \/ BillOpening(s)
    PROVE  Typed'
<1>1. /\ txn[s] \in Transaction /\ RequestOK(txn[s])
      /\ txn \in [Session -> Transaction]
      /\ counter \in Nat
  BY DEF Typed, TypeOK
<1>2. CASE FetchConfirmed(s)
  <2> DEFINE t == [txn[s] EXCEPT !.pc = "credit",
                                 !.seen = IF @ = None THEN invoice[txn[s].i] ELSE @]
  <2>1. txn[s].pc = "fetch"
    BY <1>2 DEF FetchConfirmed
  <2>2. txn[s].p \in Payment /\ txn[s].i = For[txn[s].p] /\ txn[s].i \in Invoice
    BY <1>1, <2>1, ConstantsAssumption DEF RequestOK, Captures
  <2>3. invoice[txn[s].i] \in InvoiceRow
    BY <2>2 DEF Typed, TypeOK
  <2>4. t \in Transaction /\ t.seen \in InvoiceRow
    BY <1>1, <2>3 DEF Transaction
  <2>5. /\ t.pc = "credit" /\ t.p = txn[s].p /\ t.i = txn[s].i
        /\ t.via = txn[s].via /\ t.ref = txn[s].ref
    BY <1>1 DEF Transaction
  <2>6. txn' = [txn EXCEPT ![s] = t]
    BY <1>1, <1>2 DEF FetchConfirmed
  <2> HIDE DEF t
  <2>7. RequestOK(t)
    BY <1>1, <2>1, <2>2, <2>4, <2>5 DEF RequestOK, Captures
  <2>8. QED BY <1>2, <2>4, <2>6, <2>7, SetTyped, RequestStepTyped DEF FetchConfirmed
<1>3. CASE CreditInvoice(s)
  BY <1>3, GotoTyped, RequestStepTyped DEF CreditInvoice
<1>4. CASE TakeNumber(s)
  <2> DEFINE t == [txn[s] EXCEPT !.pc = "issue", !.number = counter + 1]
  <2>1. txn[s].pc = "number"
    BY <1>4 DEF TakeNumber
  <2>2. t \in Transaction /\ RequestOK(t)
    <3>1. counter + 1 \in Nat
      BY <1>1
    <3>2. t \in Transaction
      BY <1>1, <3>1 DEF Transaction
    <3>3. /\ t.pc = "issue" /\ t.p = txn[s].p /\ t.i = txn[s].i /\ t.seen = txn[s].seen
          /\ t.via = txn[s].via /\ t.ref = txn[s].ref
      BY <1>1 DEF Transaction
    <3> HIDE DEF t
    <3>4. RequestOK(t)
      BY <1>1, <2>1, <3>3 DEF RequestOK, Captures
    <3>5. QED BY <3>2, <3>4
  <2>3. txn' = [txn EXCEPT ![s] = t]
    BY <1>1, <1>4 DEF TakeNumber
  <2> HIDE DEF t
  <2>4. QED BY <1>4, <2>2, <2>3, SetTyped, RequestStepTyped DEF TakeNumber
<1>5. CASE RefundAtGateway(s)
  <2> DEFINE q == payment[txn[s].p].gateway_id
  <2>1. q \in Payment /\ txn[s].amount \in Nat
    BY <1>1, <1>5 DEF RefundAtGateway, ThroughGateway, RequestOK, Transaction, Typed, TypeOK,
                      PaymentRow
  <2>2. repaid' \in [Payment -> Nat]
    BY <2>1, <1>5 DEF RefundAtGateway, Typed, TypeOK
  <2>3. gateway' \in [Payment -> {"none", "open", "captured", "refunded"}]
    BY <2>1, <1>5 DEF RefundAtGateway, Typed, TypeOK
  <2>4. txn' \in [Session -> Transaction] /\ \A x \in Session : RequestOK(txn'[x])
    BY <1>5, GotoTyped DEF RefundAtGateway
  <2>5. UNCHANGED <<tables, listing>>
    BY <1>5 DEF RefundAtGateway
  <2>6. QED BY <2>2, <2>3, <2>4, <2>5 DEF Typed, TypeOK, tables, books
<1>6. CASE RefundByHand(s)
  BY <1>6, GotoTyped, RequestStepTyped DEF RefundByHand
<1>7. CASE ReverseInvoice(s)
  <2> DEFINE whole == RefundsCover(txn[s])
             t     == [txn[s] EXCEPT !.pc = "mark", !.whole = whole]
  <2>1. txn[s].pc = "reverse"
    BY <1>7 DEF ReverseInvoice
  <2>2. whole \in BOOLEAN
    BY DEF RefundsCover
  <2> HIDE DEF whole
  <2>3. t \in Transaction /\ RequestOK(t)
    <3>1. t \in Transaction
      BY <1>1, <2>2 DEF Transaction
    <3>2. /\ t.pc = "mark"
          /\ t.p = txn[s].p /\ t.id = txn[s].id /\ t.i = txn[s].i /\ t.seen = txn[s].seen
      BY <1>1 DEF Transaction
    <3> HIDE DEF t
    <3>3. RequestOK(t)
      BY <1>1, <2>1, <3>2 DEF RequestOK, Captures
    <3>4. QED BY <3>1, <3>3
  <2>4. txn' = [txn EXCEPT ![s] = t]
    BY <1>1, <1>7 DEF ReverseInvoice, whole
  <2> HIDE DEF t
  <2>5. QED BY <1>7, <2>3, <2>4, SetTyped, RequestStepTyped DEF ReverseInvoice
<1>8. CASE BillOpening(s)
  <2>1. txn[s].due \in [Invoice -> Nat]
    BY <1>1 DEF Transaction
  <2>2. txn' \in [Session -> Transaction] /\ \A x \in Session : RequestOK(txn'[x])
    BY <1>8, GotoTyped DEF BillOpening
  <2>3. QED BY <1>8, <2>1, <2>2 DEF BillOpening, Typed, TypeOK, books
<1>9. QED BY <1>2, <1>3, <1>4, <1>5, <1>6, <1>7, <1>8

(* The steps that commit a request or roll it back.                        *)
LEMMA EndTyped ==
    ASSUME Typed, NEW s \in Session,
           \/ FetchRefused(s) \/ CommitCapture(s) \/ CommitRefund(s) \/ CommitNote(s)
           \/ CommitWriteOff(s) \/ MarkCarried(s) \/ Abort(s) \/ RowRefused(s)
    PROVE  Typed'
<1> DEFINE t == txn[s]
<1>1. /\ t \in Transaction /\ RequestOK(t)
      /\ t.amount \in Nat /\ t.number \in Nat /\ t.due \in [Invoice -> Nat]
  BY DEF Typed, TypeOK, Transaction
<1>2. Finish(s)
  BY DEF FetchRefused, CommitCapture, CommitRefund, CommitNote, CommitWriteOff, MarkCarried, Abort, RowRefused
<1>3. txn' \in [Session -> Transaction] /\ \A x \in Session : RequestOK(txn'[x])
  BY <1>2, FinishTyped
<1>4. CASE FetchRefused(s)
  <2>1. t.p \in Payment /\ t.ref \in Payment \cup {None}
    BY <1>1, <1>4 DEF FetchRefused, RequestOK, Captures, Transaction
  <2>2. payment' \in [Payment -> PaymentRow] /\ logged' \subseteq Payment
    BY <2>1, <1>4 DEF FetchRefused, Typed, TypeOK, PaymentRow
  <2>3. QED BY <1>3, <1>4, <2>2 DEF FetchRefused, Typed, TypeOK, books
<1>5. CASE CommitCapture(s)
  <2>1. t.p \in Payment /\ t.i \in Invoice /\ t.seen \in InvoiceRow
    BY <1>1, <1>5, ConstantsAssumption DEF CommitCapture, RequestOK, Captures
  <2>2. Applied(t) \in Nat /\ Excess(t) \in Nat
    BY <1>1, <2>1, AppliedType
  <2>3. CreditedInvoice(t) \in InvoiceRow
    BY <2>1, <2>2, SavedRowType DEF CreditedInvoice, Typed, TypeOK
  <2>4. invoice' \in [Invoice -> InvoiceRow]
    BY <2>3, <1>5 DEF CommitCapture, Typed, TypeOK
  <2>5. payment' \in [Payment -> PaymentRow] /\ logged' \subseteq Payment
    <3>1. t.ref \in Payment \cup {None}
      BY <1>1 DEF Transaction
    <3>2. (t.via # "offline" /\ payment[t.p].online) \in BOOLEAN
      OBVIOUS
    <3>3. [status |-> "captured", amount |-> t.amount,
           online |-> t.via # "offline" /\ payment[t.p].online, gateway_id |-> t.ref] \in PaymentRow
      BY <1>1, <3>1, <3>2 DEF PaymentRow
    <3>4. payment' \in [Payment -> PaymentRow]
      BY <2>1, <1>5, <3>3 DEF CommitCapture, Typed, TypeOK
    <3>5. logged' \subseteq Payment
      BY <2>1, <1>5 DEF CommitCapture, Typed, TypeOK
    <3>6. QED BY <3>4, <3>5
  <2>6. refund' \in [RefundId -> RefundRow]
    BY <2>2, <1>5 DEF CommitCapture, Typed, TypeOK, RefundRow
  <2>7. receipt' \in [Payment -> Nat] /\ counter' \in Nat
    BY <1>1, <1>5 DEF CommitCapture, Typed, TypeOK
  <2>8. UNCHANGED <<note, opening, gateway, repaid, listing>>
    BY <1>5 DEF CommitCapture
  <2>9. QED BY <1>3, <2>4, <2>5, <2>6, <2>7, <2>8 DEF Typed, TypeOK
<1>6. CASE CommitRefund(s)
  <2>1. t.p \in Payment /\ t.i \in Invoice /\ t.seen \in InvoiceRow
    BY <1>1, <1>6 DEF CommitRefund, RequestOK
  <2>2. SavePaid(invoice[t.i], Debit(t.seen, t.amount)) \in InvoiceRow
    BY <1>1, <2>1, SavedRowType DEF Typed, TypeOK
  <2>3. invoice' \in [Invoice -> InvoiceRow]
    BY <2>2, <1>6 DEF CommitRefund, Typed, TypeOK
  <2>4. payment' \in [Payment -> PaymentRow]
    BY SMTT(30), <2>1, <1>6 DEF CommitRefund, Typed, TypeOK, PaymentRow
  <2>5. refund' \in [RefundId -> RefundRow]
    BY <1>6 DEF CommitRefund, Typed, TypeOK, RefundRow
  <2>6. UNCHANGED <<receipt, counter, note, logged, opening, gateway, repaid, listing>>
    BY <1>6 DEF CommitRefund
  <2>7. QED BY <1>3, <2>3, <2>4, <2>5, <2>6 DEF Typed, TypeOK
<1>7. CASE CommitNote(s)
  <2>1. t.i \in Invoice /\ t.seen \in InvoiceRow
    BY <1>1, <1>7 DEF CommitNote, RequestOK
  <2>2. Applied(t) \in Nat
    BY <1>1, <2>1, AppliedType
  <2>3. SaveTotal(invoice[t.i], CutTotal(t.seen, Applied(t))) \in InvoiceRow
    BY <2>1, <2>2, SavedRowType DEF Typed, TypeOK
  <2>4. invoice' \in [Invoice -> InvoiceRow]
    BY <2>3, <1>7 DEF CommitNote, Typed, TypeOK
  <2>5. note' \in [NoteId -> NoteRow]
    BY <1>7 DEF CommitNote, Typed, TypeOK, NoteRow
  <2>6. UNCHANGED <<payment, receipt, counter, refund, logged, opening, gateway, repaid, listing>>
    BY <1>7 DEF CommitNote
  <2>7. QED BY <1>3, <2>4, <2>5, <2>6 DEF Typed, TypeOK
<1>8. CASE CommitWriteOff(s)
  <2>1. t.i \in Invoice /\ t.seen \in InvoiceRow
    BY <1>1, <1>8 DEF CommitWriteOff, RequestOK
  <2>2. SavePaid(invoice[t.i], WriteOff(t.seen)) \in InvoiceRow
    BY <1>1, <2>1, SavedRowType DEF Typed, TypeOK
  <2>3. invoice' \in [Invoice -> InvoiceRow]
    BY <2>2, <1>8 DEF CommitWriteOff, Typed, TypeOK
  <2>4. QED BY <1>3, <1>8, <2>3 DEF CommitWriteOff, Typed, TypeOK
<1>9. CASE MarkCarried(s)
  <2>1. invoice' \in [Invoice -> InvoiceRow]
    BY <1>9 DEF MarkCarried, Outstanding, Typed, TypeOK, InvoiceRow
  <2>2. QED BY <1>3, <1>9, <2>1 DEF MarkCarried, Typed, TypeOK
<1>10. CASE Abort(s) \/ RowRefused(s)
  BY <1>3, <1>10, RequestStepTyped DEF Abort, RowRefused
<1>11. QED BY <1>4, <1>5, <1>6, <1>7, <1>8, <1>9, <1>10

(* The steps that are a request of one statement, the gateway's and the    *)
(* job's.                                                                  *)
LEMMA SingleTyped ==
    ASSUME Typed,
           \/ \E p \in Payment : \/ \E online \in BOOLEAN : CreateOrder(p, online)
                                 \/ CustomerPays(p)
                                 \/ WebhookAfterCapture(p)
                                 \/ ReconcileStep(p)
           \/ \E id \in RefundId : RequestRefund(id)
           \/ \E id \in NoteId : CreateNote(id) \/ RejectNote(id)
           \/ ReconcileScan
           \/ ReconcileStops
    PROVE  Typed'
<1>1. ASSUME NEW p \in Payment, NEW online \in BOOLEAN, CreateOrder(p, online)
      PROVE  Typed'
  <2>1. payment' \in [Payment -> PaymentRow]
    BY <1>1, ConstantsAssumption DEF CreateOrder, Typed, TypeOK, PaymentRow
  <2>2. gateway' \in [Payment -> {"none", "open", "captured", "refunded"}]
    BY <1>1 DEF CreateOrder, Typed, TypeOK
  <2>3. UNCHANGED <<books, receipt, counter, refund, note, logged, opening, repaid, txn, listing>>
    BY <1>1 DEF CreateOrder
  <2>4. QED BY <2>1, <2>2, <2>3 DEF Typed, TypeOK, books
<1>2. ASSUME NEW p \in Payment, CustomerPays(p)
      PROVE  Typed'
  BY <1>2 DEF CustomerPays, Typed, TypeOK, tables, books
<1>3. ASSUME NEW p \in Payment, WebhookAfterCapture(p)
      PROVE  Typed'
  BY <1>3 DEF WebhookAfterCapture, Typed, TypeOK, books
<1>4. ASSUME NEW p \in Payment, ReconcileStep(p)
      PROVE  Typed'
  <2>1. payment' \in [Payment -> PaymentRow]
    BY <1>4 DEF ReconcileStep, Typed, TypeOK, PaymentRow
  <2>2. QED BY <1>4, <2>1 DEF ReconcileStep, Typed, TypeOK, books
<1>5. ASSUME NEW id \in RefundId, RequestRefund(id)
      PROVE  Typed'
  <2>1. PICK amount \in Amounts :
            /\ refund' = [refund EXCEPT ![id] = [status |-> "requested", amount |-> amount]]
            /\ UNCHANGED <<books, payment, receipt, counter, note, logged, opening,
                           gateway, repaid, txn, listing>>
    BY <1>5 DEF RequestRefund
  <2>2. refund' \in [RefundId -> RefundRow]
    BY <2>1, ConstantsAssumption DEF Typed, TypeOK, RefundRow
  <2>3. QED BY <2>1, <2>2 DEF Typed, TypeOK, books
<1>6. ASSUME NEW id \in NoteId, CreateNote(id) \/ RejectNote(id)
      PROVE  Typed'
  <2>1. note' \in [NoteId -> NoteRow]
    <3>1. CASE CreateNote(id)
      <4>1. PICK amount \in Amounts :
                note' = [note EXCEPT ![id] = [status |-> "pending", amount |-> amount]]
        BY <3>1 DEF CreateNote
      <4>2. QED BY <4>1, ConstantsAssumption DEF Typed, TypeOK, NoteRow
    <3>2. CASE RejectNote(id)
      BY <3>2 DEF RejectNote, Typed, TypeOK, NoteRow
    <3>3. QED BY <1>6, <3>1, <3>2
  <2>2. UNCHANGED <<books, payment, receipt, counter, refund, logged, opening,
                    gateway, repaid, txn, listing>>
    BY <1>6 DEF CreateNote, RejectNote
  <2>3. QED BY <2>1, <2>2 DEF Typed, TypeOK, books
<1>7. CASE ReconcileScan \/ ReconcileStops
  BY <1>7 DEF ReconcileScan, ReconcileStops, Typed, TypeOK, tables, books
<1>8. QED BY <1>1, <1>2, <1>3, <1>4, <1>5, <1>6, <1>7

LEMMA TypedStep == Typed /\ [Next]_vars => Typed'
<1> SUFFICES ASSUME Typed, [Next]_vars PROVE Typed'
  OBVIOUS
<1>1. CASE UNCHANGED vars
  BY <1>1, RequestStepTyped DEF vars, Typed, TypeOK
<1>2. CASE Next
  BY <1>2, BeginTyped, MiddleTyped, EndTyped, SingleTyped DEF Next
<1>3. QED BY <1>1, <1>2

(* Whatever the requests do, the tables hold what their columns allow:     *)
(* amounts never go below zero, statuses are those of the enumerations.    *)
THEOREM TypeCorrect == Spec => []TypeOK
<1>1. Typed => TypeOK
  BY DEF Typed
<1>2. QED BY <1>1, TypedInit, TypedStep, PTL DEF Spec

-----------------------------------------------------------------------------
(* Receipt numbers.  A number is taken when nobody else holds the counter  *)
(* and the payment has no receipt; the request that took it is the only    *)
(* one that can write the counter or a receipt until it ends.              *)

Numbered ==
    /\ \A p \in Payment : receipt[p] \in 0..counter
    /\ \A n \in 1..counter : \E p \in Payment : receipt[p] = n
    /\ \A p, q \in Payment : receipt[p] = receipt[q] /\ receipt[p] # 0 => p = q
    /\ \A s, x \in Session : txn[s].pc = "issue" /\ txn[x].pc = "issue" => s = x
    /\ \A s \in Session : txn[s].pc = "issue" =>
           txn[s].number = counter + 1 /\ receipt[txn[s].p] = 0

LEMMA NumberedInit == Init => Numbered
BY DEF Init, Numbered, Idle

(* Every other step leaves receipts, counter and number holders alone.     *)
LEMMA OtherSteps ==
    ASSUME Typed, [Next]_vars,
           \A s \in Session : ~TakeNumber(s) /\ ~CommitCapture(s)
    PROVE  /\ receipt' = receipt /\ counter' = counter
           /\ \A x \in Session : txn'[x].pc = "issue" => txn'[x] = txn[x]
<1>1. txn \in [Session -> Transaction]
  BY DEF Typed, TypeOK
<1>2. ASSUME NEW s \in Session, NEW t, t.pc # "issue", txn' = [txn EXCEPT ![s] = t]
      PROVE  \A x \in Session : txn'[x].pc = "issue" => txn'[x] = txn[x]
  BY <1>1, <1>2
<1>3. ASSUME NEW s \in Session, Finish(s)
      PROVE  \A x \in Session : txn'[x].pc = "issue" => txn'[x] = txn[x]
  BY <1>2, <1>3 DEF Finish, Idle
<1>4. CASE UNCHANGED vars
  BY <1>4 DEF vars, tables
<1>5. CASE \/ \E p \in Payment : \/ \E online \in BOOLEAN : CreateOrder(p, online)
                                 \/ CustomerPays(p)
                                 \/ WebhookAfterCapture(p)
                                 \/ ReconcileStep(p)
           \/ \E id \in RefundId : RequestRefund(id)
           \/ \E id \in NoteId : CreateNote(id) \/ RejectNote(id)
           \/ ReconcileScan
           \/ ReconcileStops
  BY <1>5 DEF CreateOrder, CustomerPays, WebhookAfterCapture, ReconcileStep, RequestRefund,
              CreateNote, RejectNote, ReconcileScan, ReconcileStops, tables
<1>6. ASSUME NEW s \in Session,
             \/ \E p \in Payment : BeginOffline(s, p)
             \/ \E p, ref \in Payment, via \in {"client", "webhook"} : BeginVerify(s, p, ref, via)
             \/ \E id \in RefundId : BeginApprove(s, id)
             \/ \E id \in NoteId : BeginNote(s, id)
             \/ \E i \in Invoice : BeginWriteOff(s, i)
             \/ BeginCarry(s)
      PROVE  /\ receipt' = receipt /\ counter' = counter
             /\ \A x \in Session : txn'[x].pc = "issue" => txn'[x] = txn[x]
  <2>1. receipt' = receipt /\ counter' = counter
    BY <1>6 DEF BeginOffline, BeginVerify, BeginApprove, BeginNote, BeginWriteOff, BeginCarry, tables
  <2>2. CASE \E p \in Payment : BeginOffline(s, p)
    BY <1>1, <2>1, <2>2 DEF BeginOffline, Start, Idle
  <2>3. CASE \E p, ref \in Payment, via \in {"client", "webhook"} : BeginVerify(s, p, ref, via)
    BY <1>1, <2>1, <2>3 DEF BeginVerify, Start, Idle
  <2>4. CASE \E id \in RefundId : BeginApprove(s, id)
    BY <1>1, <2>1, <2>4 DEF BeginApprove, Start, Idle
  <2>5. CASE \E id \in NoteId : BeginNote(s, id)
    BY <1>1, <2>1, <2>5 DEF BeginNote, Start, Idle
  <2>6. CASE \E i \in Invoice : BeginWriteOff(s, i)
    BY <1>1, <2>1, <2>6 DEF BeginWriteOff, Start, Idle
  <2>7. CASE BeginCarry(s)
    BY <1>1, <2>1, <2>7 DEF BeginCarry, Start, Idle
  <2>8. QED BY <1>6, <2>2, <2>3, <2>4, <2>5, <2>6, <2>7
<1>7. ASSUME NEW s \in Session,
             \/ FetchConfirmed(s) \/ CreditInvoice(s)
             \/ RefundAtGateway(s) \/ RefundByHand(s) \/ ReverseInvoice(s) \/ BillOpening(s)
      PROVE  /\ receipt' = receipt /\ counter' = counter
             /\ \A x \in Session : txn'[x].pc = "issue" => txn'[x] = txn[x]
  <2>1. receipt' = receipt /\ counter' = counter
    BY <1>7 DEF FetchConfirmed, CreditInvoice, RefundAtGateway, RefundByHand, ReverseInvoice,
                BillOpening, tables
  <2>2. \A x \in Session : x # s => txn'[x] = txn[x]
    BY <1>1, <1>7 DEF FetchConfirmed, CreditInvoice, RefundAtGateway, RefundByHand, ReverseInvoice,
                      BillOpening, Goto
  <2>3. txn'[s].pc # "issue"
    BY <1>1, <1>7 DEF FetchConfirmed, CreditInvoice, RefundAtGateway, RefundByHand, ReverseInvoice,
                      BillOpening, Goto, Transaction
  <2>4. QED BY <2>1, <2>2, <2>3
<1>8. ASSUME NEW s \in Session,
             \/ FetchRefused(s) \/ CommitRefund(s) \/ CommitNote(s)
             \/ CommitWriteOff(s) \/ MarkCarried(s) \/ Abort(s) \/ RowRefused(s)
      PROVE  /\ receipt' = receipt /\ counter' = counter
             /\ \A x \in Session : txn'[x].pc = "issue" => txn'[x] = txn[x]
  BY <1>3, <1>8 DEF FetchRefused, CommitRefund, CommitNote, CommitWriteOff, MarkCarried, Abort, RowRefused, tables
<1>9. QED BY <1>4, <1>5, <1>6, <1>7, <1>8 DEF Next

LEMMA NumberedStep == Typed /\ Numbered /\ [Next]_vars => Numbered'
<1> SUFFICES ASSUME Typed, Numbered, [Next]_vars PROVE Numbered'
  OBVIOUS
<1>1. /\ counter \in Nat /\ receipt \in [Payment -> Nat]
      /\ txn \in [Session -> Transaction] /\ \A s \in Session : RequestOK(txn[s])
  BY DEF Typed, TypeOK
<1>2. ASSUME NEW s \in Session, TakeNumber(s)
      PROVE  Numbered'
  <2>1. /\ receipt' = receipt /\ counter' = counter
        /\ \A x \in Session : txn[x].pc # "issue"
        /\ receipt[txn[s].p] = 0
        /\ txn[s].pc = "number"
    BY <1>2 DEF TakeNumber, tables, CounterFree, Unreceipted
  <2>2. /\ txn'[s].number = counter + 1 /\ txn'[s].p = txn[s].p
        /\ \A x \in Session : x # s => txn'[x] = txn[x]
    BY <1>1, <1>2 DEF TakeNumber, Transaction
  <2>3. QED BY <1>1, <2>1, <2>2 DEF Numbered
<1>3. ASSUME NEW s \in Session, CommitCapture(s)
      PROVE  Numbered'
  <2> DEFINE p == txn[s].p
  <2>1. p \in Payment
    BY <1>1, <1>3 DEF CommitCapture, RequestOK, Captures
  <2>2. /\ txn[s].number = counter + 1 /\ receipt[p] = 0
        /\ \A x \in Session : x # s => txn[x].pc # "issue"
    BY <1>3 DEF CommitCapture, Numbered
  <2>3. counter' = counter + 1 /\ receipt' = [receipt EXCEPT ![p] = counter + 1]
    BY <1>3, <2>2 DEF CommitCapture
  <2>4. \A x \in Session : txn'[x].pc # "issue"
    BY <1>1, <1>3, <2>2 DEF CommitCapture, Finish, Idle
  <2> HIDE DEF p
  <2>5. \A q \in Payment : receipt'[q] = IF q = p THEN counter + 1 ELSE receipt[q]
    BY <1>1, <2>3
  <2>6. \A q \in Payment : receipt[q] \in 0..counter
    BY DEF Numbered
  <2>7. \A q \in Payment : receipt'[q] \in 0..counter'
    BY <1>1, <2>3, <2>5, <2>6
  <2>8. \A n \in 1..counter' : \E q \in Payment : receipt'[q] = n
    <3> SUFFICES ASSUME NEW n \in 1..counter'
                 PROVE  \E q \in Payment : receipt'[q] = n
      OBVIOUS
    <3>1. CASE n = counter + 1
      BY <2>1, <2>5, <3>1
    <3>2. CASE n # counter + 1
      <4>1. n \in 1..counter
        BY <1>1, <2>3, <3>2
      <4>2. PICK q \in Payment : receipt[q] = n
        BY <4>1 DEF Numbered
      <4>3. q # p
        BY <2>2, <4>1, <4>2
      <4>4. QED BY <2>5, <4>2, <4>3
    <3>3. QED BY <3>1, <3>2
  <2>9. \A q, r \in Payment : receipt'[q] = receipt'[r] /\ receipt'[q] # 0 => q = r
    BY <1>1, <2>5, <2>6 DEF Numbered
  <2>10. QED BY <2>4, <2>7, <2>8, <2>9 DEF Numbered
<1>4. CASE \A s \in Session : ~TakeNumber(s) /\ ~CommitCapture(s)
  BY <1>4, OtherSteps DEF Numbered
<1>5. QED BY <1>2, <1>3, <1>4

LEMMA NumberedIsGapFree == Typed /\ Numbered => ReceiptsGapFree
<1> SUFFICES ASSUME Typed, Numbered PROVE ReceiptsGapFree
  OBVIOUS
<1>1. counter \in Nat /\ receipt \in [Payment -> Nat]
  BY DEF Typed, TypeOK
<1>2. {receipt[p] : p \in Issued} \subseteq 1..counter
  BY <1>1 DEF Numbered, Issued
<1>3. 1..counter \subseteq {receipt[p] : p \in Issued}
  <2> SUFFICES ASSUME NEW n \in 1..counter
               PROVE  n \in {receipt[p] : p \in Issued}
    OBVIOUS
  <2>1. PICK p \in Payment : receipt[p] = n
    BY DEF Numbered
  <2>2. p \in Issued
    BY <1>1, <2>1 DEF Issued
  <2>3. QED BY <2>1, <2>2
<1>4. \A p, q \in Issued : receipt[p] = receipt[q] => p = q
  BY DEF Numbered, Issued
<1>5. QED BY <1>2, <1>3, <1>4 DEF ReceiptsGapFree

(* Receipt numbers have no gaps and no duplicates for any number of        *)
(* captures running at once, with any of them rolling back.                *)
THEOREM ReceiptsAreGapFree == Spec => []ReceiptsGapFree
BY TypedInit, TypedStep, NumberedInit, NumberedStep, NumberedIsGapFree, PTL DEF Spec

(* No step withdraws or renumbers a receipt, nor issues a second one for   *)
(* the same payment.                                                       *)
THEOREM ReceiptsArePermanent == Spec => ReceiptPermanent
<1>1. Typed /\ Numbered /\ [Next]_vars =>
          [\A p \in Payment : receipt[p] # 0 => receipt'[p] = receipt[p]]_vars
  <2> SUFFICES ASSUME Typed, Numbered, [Next]_vars, NEW p \in Payment, receipt[p] # 0
               PROVE  receipt'[p] = receipt[p]
    OBVIOUS
  <2>1. ASSUME NEW s \in Session, CommitCapture(s)
        PROVE  receipt'[p] = receipt[p]
    <3>1. txn[s].p # p
      BY <2>1 DEF Numbered, CommitCapture
    <3>2. QED BY <2>1, <3>1 DEF CommitCapture, Typed, TypeOK
  <2>2. ASSUME NEW s \in Session, TakeNumber(s)
        PROVE  receipt'[p] = receipt[p]
    BY <2>2 DEF TakeNumber, tables
  <2>3. CASE \A s \in Session : ~TakeNumber(s) /\ ~CommitCapture(s)
    BY <2>3, OtherSteps
  <2>4. QED BY <2>1, <2>2, <2>3
<1>2. QED
  BY <1>1, TypedInit, TypedStep, NumberedInit, NumberedStep, PTL DEF Spec, ReceiptPermanent

-----------------------------------------------------------------------------
(* How a capture under way can have got where it is.                       *)

HasMoney == {"captured", "refunded"}

CaptureMove(x) ==
    /\ txn'[x].pc = "fetch" =>
           \/ txn'[x] = txn[x]
           \/ /\ txn'[x].via # "offline"
              /\ txn'[x].ref \in Payment /\ gateway[txn'[x].ref] \in HasMoney
              /\ gateway' = gateway
    /\ txn'[x].pc = "credit" => txn'[x] = txn[x] \/ FetchConfirmed(x)
    /\ txn'[x].pc \in {"number", "issue"} =>
           \/ \E p \in Payment : BeginOffline(x, p)
           \/ /\ txn[x].pc \in {"credit", "number", "issue"}
              /\ txn'[x].via = txn[x].via
              /\ txn'[x].p = txn[x].p
              /\ txn'[x].i = txn[x].i
              /\ txn'[x].ref = txn[x].ref

LEMMA CaptureMoves ==
    ASSUME Typed, [Next]_vars, NEW x \in Session
    PROVE  CaptureMove(x)
<1>1. txn \in [Session -> Transaction]
  BY DEF Typed, TypeOK
<1>2. CASE txn'[x] = txn[x]
  BY <1>2 DEF CaptureMove
<1>3. ASSUME NEW s \in Session, s # x, NEW t, txn' = [txn EXCEPT ![s] = t]
      PROVE  CaptureMove(x)
  BY <1>1, <1>2, <1>3
<1>4. CASE UNCHANGED vars
  BY <1>2, <1>4 DEF vars
<1>5. CASE \/ \E p \in Payment : \/ \E online \in BOOLEAN : CreateOrder(p, online)
                                 \/ CustomerPays(p)
                                 \/ WebhookAfterCapture(p)
                                 \/ ReconcileStep(p)
           \/ \E id \in RefundId : RequestRefund(id)
           \/ \E id \in NoteId : CreateNote(id) \/ RejectNote(id)
           \/ ReconcileScan
           \/ ReconcileStops
  BY <1>2, <1>5 DEF CreateOrder, CustomerPays, WebhookAfterCapture, ReconcileStep, RequestRefund,
                    CreateNote, RejectNote, ReconcileScan, ReconcileStops
<1>6. ASSUME NEW s \in Session,
             \/ \E p \in Payment : BeginOffline(s, p)
             \/ \E p, ref \in Payment, via \in {"client", "webhook"} : BeginVerify(s, p, ref, via)
             \/ \E id \in RefundId : BeginApprove(s, id)
             \/ \E id \in NoteId : BeginNote(s, id)
             \/ \E i \in Invoice : BeginWriteOff(s, i)
             \/ BeginCarry(s)
      PROVE  CaptureMove(x)
  <2>1. CASE s # x
    BY <1>3, <1>6, <2>1 DEF BeginOffline, BeginVerify, BeginApprove, BeginNote, BeginWriteOff,
                            BeginCarry, Start
  <2>2. CASE s = x
    <3>1. CASE \E p \in Payment : BeginOffline(s, p)
      <4>1. txn'[x].pc = "number"
        BY <1>1, <2>2, <3>1 DEF BeginOffline, Start, Idle
      <4>2. QED BY <2>2, <3>1, <4>1 DEF CaptureMove
    <3>2. CASE \E p, ref \in Payment, via \in {"client", "webhook"} : BeginVerify(s, p, ref, via)
      <4>1. PICK p \in Payment, ref \in Payment, via \in {"client", "webhook"} : BeginVerify(s, p, ref, via)
        BY <3>2
      <4>2. /\ txn'[x].pc = "fetch" /\ txn'[x].via = via /\ txn'[x].ref = ref
            /\ gateway[ref] \in HasMoney /\ gateway' = gateway
        BY <1>1, <2>2, <4>1 DEF BeginVerify, Start, Idle, HasMoney
      <4>3. via # "offline"
        OBVIOUS
      <4>4. QED BY <4>2, <4>3 DEF CaptureMove
    <3>3. CASE \E id \in RefundId : BeginApprove(s, id)
      BY <1>1, <2>2, <3>3 DEF CaptureMove, BeginApprove, Start, Idle
    <3>4. CASE \E id \in NoteId : BeginNote(s, id)
      BY <1>1, <2>2, <3>4 DEF CaptureMove, BeginNote, Start, Idle
    <3>5. CASE \E i \in Invoice : BeginWriteOff(s, i)
      BY <1>1, <2>2, <3>5 DEF CaptureMove, BeginWriteOff, Start, Idle
    <3>6. CASE BeginCarry(s)
      BY <1>1, <2>2, <3>6 DEF CaptureMove, BeginCarry, Start, Idle
    <3>7. QED BY <1>6, <3>1, <3>2, <3>3, <3>4, <3>5, <3>6
  <2>3. QED BY <2>1, <2>2
<1>7. ASSUME NEW s \in Session,
             \/ FetchConfirmed(s) \/ CreditInvoice(s) \/ TakeNumber(s)
             \/ RefundAtGateway(s) \/ RefundByHand(s) \/ ReverseInvoice(s) \/ BillOpening(s)
      PROVE  CaptureMove(x)
  <2>1. CASE s # x
    BY <1>1, <1>2, <1>7, <2>1 DEF FetchConfirmed, CreditInvoice, TakeNumber, RefundAtGateway,
                                  RefundByHand, ReverseInvoice, BillOpening, Goto
  <2>2. CASE s = x
    <3>1. CASE FetchConfirmed(s)
      <4>1. txn'[x].pc = "credit"
        BY <1>1, <2>2, <3>1 DEF FetchConfirmed, Transaction
      <4>2. QED BY <2>2, <3>1, <4>1 DEF CaptureMove
    <3>2. CASE CreditInvoice(s)
      <4>1. /\ txn'[x].pc = "number" /\ txn[x].pc = "credit" /\ txn'[x].via = txn[x].via
            /\ txn'[x].p = txn[x].p /\ txn'[x].i = txn[x].i /\ txn'[x].ref = txn[x].ref
        BY <1>1, <2>2, <3>2 DEF CreditInvoice, Goto, Transaction
      <4>2. QED BY <4>1 DEF CaptureMove
    <3>3. CASE TakeNumber(s)
      <4>1. /\ txn'[x].pc = "issue" /\ txn[x].pc = "number" /\ txn'[x].via = txn[x].via
            /\ txn'[x].p = txn[x].p /\ txn'[x].i = txn[x].i /\ txn'[x].ref = txn[x].ref
        BY <1>1, <2>2, <3>3 DEF TakeNumber, Transaction
      <4>2. QED BY <4>1 DEF CaptureMove
    <3>4. CASE RefundAtGateway(s) \/ RefundByHand(s) \/ ReverseInvoice(s) \/ BillOpening(s)
      <4>1. txn'[x].pc \in {"reverse", "mark", "mark_carried"}
        BY <1>1, <2>2, <3>4 DEF RefundAtGateway, RefundByHand, ReverseInvoice, BillOpening, Goto,
                                Transaction
      <4>2. QED BY <4>1 DEF CaptureMove
    <3>5. QED BY <1>7, <3>1, <3>2, <3>3, <3>4
  <2>3. QED BY <2>1, <2>2
<1>8. ASSUME NEW s \in Session,
             \/ FetchRefused(s) \/ CommitCapture(s) \/ CommitRefund(s) \/ CommitNote(s)
             \/ CommitWriteOff(s) \/ MarkCarried(s) \/ Abort(s) \/ RowRefused(s)
      PROVE  CaptureMove(x)
  <2>1. Finish(s)
    BY <1>8 DEF FetchRefused, CommitCapture, CommitRefund, CommitNote, CommitWriteOff,
                MarkCarried, Abort, RowRefused
  <2>2. CASE s # x
    BY <1>3, <2>1, <2>2 DEF Finish
  <2>3. CASE s = x
    BY <1>1, <2>1, <2>3 DEF CaptureMove, Finish, Idle
  <2>4. QED BY <2>2, <2>3
<1>9. QED BY <1>4, <1>5, <1>6, <1>7, <1>8 DEF Next

-----------------------------------------------------------------------------
(* The counter and carry-forward.  A counter request reads the invoice     *)
(* under its row lock and keeps the lock to the end; carry-forward has to  *)
(* wait for it, so what the request checked still holds when it commits.   *)

CounterHolds ==
    \A s \in Session :
        /\ txn[s].pc \in {"fetch", "credit"} => txn[s].via # "offline"
        /\ txn[s].pc \in {"number", "issue"} /\ txn[s].via = "offline"
               => ~invoice[txn[s].i].carried

LEMMA CounterHoldsStep == Typed /\ CounterHolds /\ [Next]_vars => CounterHolds'
<1> SUFFICES ASSUME Typed, CounterHolds, [Next]_vars, NEW x \in Session
             PROVE  /\ txn'[x].pc \in {"fetch", "credit"} => txn'[x].via # "offline"
                    /\ txn'[x].pc \in {"number", "issue"} /\ txn'[x].via = "offline"
                           => ~invoice'[txn'[x].i].carried
  BY DEF CounterHolds
<1>1. /\ txn \in [Session -> Transaction] /\ \A s \in Session : RequestOK(txn[s])
      /\ invoice \in [Invoice -> InvoiceRow]
  BY DEF Typed, TypeOK
<1>2. CaptureMove(x)
  BY CaptureMoves
<1>3. txn'[x].pc \in {"fetch", "credit"} => txn'[x].via # "offline"
  <2>1. FetchConfirmed(x) => txn'[x].via = txn[x].via /\ txn[x].pc = "fetch"
    BY <1>1 DEF FetchConfirmed, Transaction
  <2>2. QED BY <1>2, <2>1 DEF CaptureMove, CounterHolds
<1>4. ASSUME txn'[x].pc \in {"number", "issue"}, txn'[x].via = "offline"
      PROVE  ~invoice'[txn'[x].i].carried
  <2>1. CASE \E p \in Payment : BeginOffline(x, p)
    <3>1. PICK p \in Payment : BeginOffline(x, p)
      BY <2>1
    <3>2. txn'[x].i = For[p] /\ UNCHANGED invoice
      BY <1>1, <3>1 DEF BeginOffline, Start, Idle, tables, books
    <3>3. ~invoice[For[p]].carried
      BY <3>1 DEF BeginOffline, Collectible
    <3>4. QED BY <3>2, <3>3
  <2>2. CASE ~\E p \in Payment : BeginOffline(x, p)
    <3> DEFINE i == txn[x].i
    <3>1. /\ txn[x].pc \in {"number", "issue"} /\ txn[x].via = "offline" /\ txn'[x].i = i
      BY <1>2, <1>4, <2>2 DEF CaptureMove, CounterHolds
    <3>2. ~invoice[i].carried /\ i \in Invoice
      BY <1>1, <3>1, ConstantsAssumption DEF CounterHolds, RequestOK, Captures
    <3>3. invoice'[i].carried = invoice[i].carried
      <4>1. ASSUME NEW s \in Session, CommitCapture(s)
            PROVE  invoice'[i].carried = invoice[i].carried
        BY <1>1, <3>2, <4>1 DEF CommitCapture, CreditedInvoice, SavePaid, InvoiceRow
      <4>2. ASSUME NEW s \in Session, CommitRefund(s)
            PROVE  invoice'[i].carried = invoice[i].carried
        BY <1>1, <3>2, <4>2 DEF CommitRefund, SavePaid, InvoiceRow
      <4>3. ASSUME NEW s \in Session, CommitNote(s)
            PROVE  invoice'[i].carried = invoice[i].carried
        BY <1>1, <3>2, <4>3 DEF CommitNote, SaveTotal, InvoiceRow
      <4>4. ASSUME NEW s \in Session, CommitWriteOff(s)
            PROVE  invoice'[i].carried = invoice[i].carried
        BY <1>1, <3>2, <4>4 DEF CommitWriteOff, SavePaid, InvoiceRow
      <4>5. ASSUME NEW s \in Session, MarkCarried(s)
            PROVE  invoice'[i].carried = invoice[i].carried
        <5>1. ~InvoiceFree(i)
          BY <3>1 DEF InvoiceFree, HoldsInvoice
        <5>2. ~Outstanding(i)
          BY <3>2, <4>5, <5>1 DEF MarkCarried
        <5>3. invoice'[i] = [invoice[i] EXCEPT !.carried = @ \/ Outstanding(i)]
          BY <3>2, <4>5 DEF MarkCarried
        <5>4. QED BY <1>1, <3>2, <5>2, <5>3 DEF InvoiceRow
      <4>6. CASE \A s \in Session : /\ ~CommitCapture(s) /\ ~CommitRefund(s) /\ ~CommitNote(s)
                                    /\ ~CommitWriteOff(s) /\ ~MarkCarried(s)
        <5>1. UNCHANGED invoice
          BY <4>6 DEF Next, vars, tables, books, CreateOrder, CustomerPays, WebhookAfterCapture,
                      ReconcileStep, RequestRefund, CreateNote, RejectNote, ReconcileScan,
                      ReconcileStops, BeginOffline, BeginVerify, BeginApprove, BeginNote,
                      BeginWriteOff, BeginCarry, FetchRefused, FetchConfirmed, CreditInvoice,
                      TakeNumber, RefundAtGateway, RefundByHand, ReverseInvoice, BillOpening,
                      Abort, RowRefused
        <5>2. QED BY <5>1
      <4>7. QED BY <4>1, <4>2, <4>3, <4>4, <4>5, <4>6
    <3>4. QED BY <3>1, <3>2, <3>3
  <2>3. QED BY <2>1, <2>2
<1>5. QED BY <1>3, <1>4

(* The counter never takes money for an invoice that has been carried      *)
(* forward, even when the promotion runs at the same time.                 *)
THEOREM OfflineCarriedApart == Spec => OfflineSparesCarried
<1>1. Init => CounterHolds
  BY DEF Init, CounterHolds, Idle
<1>2. Typed /\ CounterHolds /\ [Next]_vars =>
          [\A p \in Payment : receipt[p] = 0 /\ receipt'[p] # 0 /\ payment'[p].gateway_id = None
                                  => ~invoice[For[p]].carried]_vars
  <2> SUFFICES ASSUME Typed, CounterHolds, [Next]_vars, NEW p \in Payment,
                      receipt[p] = 0, receipt'[p] # 0, payment'[p].gateway_id = None
               PROVE  ~invoice[For[p]].carried
    OBVIOUS
  <2>1. CASE \A s \in Session : ~TakeNumber(s) /\ ~CommitCapture(s)
    BY <2>1, OtherSteps
  <2>2. ASSUME NEW s \in Session, TakeNumber(s)
        PROVE  ~invoice[For[p]].carried
    BY <2>2 DEF TakeNumber, tables
  <2>3. ASSUME NEW s \in Session, CommitCapture(s)
        PROVE  ~invoice[For[p]].carried
    <3>1. /\ receipt \in [Payment -> Nat] /\ payment \in [Payment -> PaymentRow]
          /\ RequestOK(txn[s]) /\ txn[s].pc = "issue"
      BY <2>3 DEF CommitCapture, Typed, TypeOK
    <3>2. txn[s].p = p
      BY <2>3, <3>1 DEF CommitCapture
    <3>3. txn[s].via = "offline"
      BY <2>3, <3>1, <3>2 DEF CommitCapture, RequestOK, Captures
    <3>4. txn[s].i = For[p]
      BY <3>1, <3>2 DEF RequestOK, Captures
    <3>5. QED BY <3>1, <3>3, <3>4 DEF CounterHolds
  <2>4. QED BY <2>1, <2>2, <2>3
<1>3. QED
  BY <1>1, <1>2, TypedInit, TypedStep, CounterHoldsStep, PTL DEF Spec, OfflineSparesCarried

-----------------------------------------------------------------------------
(* Payment rows.  Three actions write them besides the captures' commit;   *)
(* every other step leaves them alone.                                     *)

LEMMA PaymentWriters ==
    ASSUME [Next]_vars
    PROVE  \/ \E p \in Payment, online \in BOOLEAN : CreateOrder(p, online)
           \/ \E p \in Payment : ReconcileStep(p)
           \/ \E s \in Session : FetchRefused(s) \/ CommitCapture(s) \/ CommitRefund(s)
           \/ payment' = payment
<1>1. CASE UNCHANGED vars
  BY <1>1 DEF vars, tables
<1>2. CASE \E p \in Payment : CustomerPays(p) \/ WebhookAfterCapture(p)
  BY <1>2 DEF CustomerPays, WebhookAfterCapture, tables
<1>3. CASE \/ \E id \in RefundId : RequestRefund(id)
           \/ \E id \in NoteId : CreateNote(id) \/ RejectNote(id)
           \/ ReconcileScan
           \/ ReconcileStops
  BY <1>3 DEF RequestRefund, CreateNote, RejectNote, ReconcileScan, ReconcileStops, tables
<1>4. ASSUME NEW s \in Session,
             \/ \E p \in Payment : BeginOffline(s, p)
             \/ \E p, ref \in Payment, via \in {"client", "webhook"} : BeginVerify(s, p, ref, via)
             \/ \E id \in RefundId : BeginApprove(s, id)
             \/ \E id \in NoteId : BeginNote(s, id)
             \/ \E i \in Invoice : BeginWriteOff(s, i)
             \/ BeginCarry(s)
             \/ FetchConfirmed(s) \/ CreditInvoice(s) \/ TakeNumber(s)
             \/ RefundAtGateway(s) \/ RefundByHand(s) \/ ReverseInvoice(s)
             \/ CommitNote(s) \/ CommitWriteOff(s) \/ BillOpening(s) \/ MarkCarried(s) \/ Abort(s) \/ RowRefused(s)
      PROVE  payment' = payment
  BY <1>4 DEF BeginOffline, BeginVerify, BeginApprove, BeginNote, BeginWriteOff, BeginCarry,
              FetchConfirmed, CreditInvoice, TakeNumber, RefundAtGateway, RefundByHand,
              ReverseInvoice, CommitNote, CommitWriteOff, BillOpening, MarkCarried, Abort, RowRefused, tables
<1>5. QED BY <1>1, <1>2, <1>3, <1>4 DEF Next

(* No pending payment ever has a gateway id, so the branch of the          *)
(* reconciliation job that polls the gateway is never taken.               *)
THEOREM JobNeverPolls == Spec => []PendingHasNoGatewayId
<1>1. Init => PendingHasNoGatewayId
  BY DEF Init, PendingHasNoGatewayId
<1>2. Typed /\ PendingHasNoGatewayId /\ [Next]_vars => PendingHasNoGatewayId'
  <2> SUFFICES ASSUME Typed, PendingHasNoGatewayId, [Next]_vars, NEW q \in Payment,
                      payment'[q].status \in {"created", "pending"}
               PROVE  payment'[q].gateway_id = None
    BY DEF PendingHasNoGatewayId
  <2>1. payment \in [Payment -> PaymentRow]
    BY DEF Typed, TypeOK
  <2>2. ASSUME NEW p \in Payment, NEW online \in BOOLEAN, CreateOrder(p, online)
        PROVE  payment'[q].gateway_id = None
    BY <2>1, <2>2 DEF CreateOrder, PendingHasNoGatewayId
  <2>3. ASSUME NEW p \in Payment, ReconcileStep(p)
        PROVE  payment'[q].gateway_id = None
    BY <2>1, <2>3 DEF ReconcileStep, PendingHasNoGatewayId, PaymentRow
  <2>4. ASSUME NEW s \in Session, FetchRefused(s)
        PROVE  payment'[q].gateway_id = None
    BY <2>1, <2>4 DEF FetchRefused, PendingHasNoGatewayId, PaymentRow
  <2>5. ASSUME NEW s \in Session, CommitCapture(s)
        PROVE  payment'[q].gateway_id = None
    BY <2>1, <2>5 DEF CommitCapture, PendingHasNoGatewayId
  <2>6. ASSUME NEW s \in Session, CommitRefund(s)
        PROVE  payment'[q].gateway_id = None
    BY <2>1, <2>6 DEF CommitRefund, PendingHasNoGatewayId, PaymentRow
  <2>7. CASE payment' = payment
    BY <2>7 DEF PendingHasNoGatewayId
  <2>8. QED BY <2>2, <2>3, <2>4, <2>5, <2>6, <2>7, PaymentWriters
<1>3. QED BY <1>1, <1>2, TypedInit, TypedStep, PTL DEF Spec

-----------------------------------------------------------------------------
(* Receipts and the gateway's money.  A capture goes on only after the     *)
(* gateway confirmed it has the money, the gateway never unlearns that, a  *)
(* payment nobody created is unknown to everybody, and the unique column   *)
(* keeps a gateway payment to one row and one request that is to write it. *)

Seeking(t)  == t.pc \in Captures /\ t.ref # None
Claiming(t) == Seeking(t) /\ t.pc # "fetch"

BlankRows ==
    \A p \in Payment : payment[p].status = "none" =>
        receipt[p] = 0 /\ gateway[p] = "none" /\ ~payment[p].online /\ payment[p].gateway_id = None

IdsBacked ==
    /\ \A p \in Payment : payment[p].gateway_id # None => gateway[payment[p].gateway_id] \in HasMoney
    /\ \A s \in Session : Seeking(txn[s]) => gateway[txn[s].ref] \in HasMoney

IdsUnique ==
    /\ \A p, q \in Payment :
           payment[p].gateway_id = payment[q].gateway_id => p = q \/ payment[p].gateway_id = None
    /\ \A s \in Session, p \in Payment :
           Claiming(txn[s]) /\ p # txn[s].p => payment[p].gateway_id # txn[s].ref
    /\ \A s, x \in Session :
           Claiming(txn[s]) /\ Claiming(txn[x]) /\ txn[s].ref = txn[x].ref => s = x

IdsThere ==
    /\ \A p \in Payment : receipt[p] # 0 /\ payment[p].online => payment[p].gateway_id # None
    /\ \A s \in Session : txn[s].pc \in {"fetch", "credit"} => txn[s].ref # None

Backed == BlankRows /\ IdsBacked /\ IdsUnique /\ IdsThere

LEMMA BackedInit == Init => Backed
BY DEF Init, Backed, BlankRows, IdsBacked, IdsUnique, IdsThere, Seeking, Claiming, Idle

LEMMA ReceiptWriters ==
    ASSUME Typed, [Next]_vars
    PROVE  (\E s \in Session : CommitCapture(s)) \/ receipt' = receipt
<1>1. ASSUME NEW s \in Session, TakeNumber(s)
      PROVE  receipt' = receipt
  BY <1>1 DEF TakeNumber, tables
<1>2. CASE \A s \in Session : ~TakeNumber(s) /\ ~CommitCapture(s)
  BY <1>2, OtherSteps
<1>3. QED BY <1>1, <1>2

LEMMA GatewayWriters ==
    ASSUME [Next]_vars
    PROVE  \/ \E p \in Payment, online \in BOOLEAN : CreateOrder(p, online)
           \/ \E p \in Payment : CustomerPays(p)
           \/ \E s \in Session : RefundAtGateway(s)
           \/ gateway' = gateway
<1>1. CASE UNCHANGED vars
  BY <1>1 DEF vars
<1>2. CASE \/ \E p \in Payment : WebhookAfterCapture(p) \/ ReconcileStep(p)
           \/ \E id \in RefundId : RequestRefund(id)
           \/ \E id \in NoteId : CreateNote(id) \/ RejectNote(id)
           \/ ReconcileScan
           \/ ReconcileStops
  BY <1>2 DEF WebhookAfterCapture, ReconcileStep, RequestRefund, CreateNote, RejectNote,
              ReconcileScan, ReconcileStops
<1>3. ASSUME NEW s \in Session,
             \/ \E p \in Payment : BeginOffline(s, p)
             \/ \E p, ref \in Payment, via \in {"client", "webhook"} : BeginVerify(s, p, ref, via)
             \/ \E id \in RefundId : BeginApprove(s, id)
             \/ \E id \in NoteId : BeginNote(s, id)
             \/ \E i \in Invoice : BeginWriteOff(s, i)
             \/ BeginCarry(s)
             \/ FetchRefused(s) \/ FetchConfirmed(s)
             \/ CreditInvoice(s) \/ TakeNumber(s) \/ CommitCapture(s)
             \/ RefundByHand(s) \/ ReverseInvoice(s) \/ CommitRefund(s)
             \/ CommitNote(s) \/ CommitWriteOff(s) \/ BillOpening(s) \/ MarkCarried(s) \/ Abort(s) \/ RowRefused(s)
      PROVE  gateway' = gateway
  BY <1>3 DEF BeginOffline, BeginVerify, BeginApprove, BeginNote, BeginWriteOff, BeginCarry,
              FetchRefused, FetchConfirmed, CreditInvoice, TakeNumber, CommitCapture,
              RefundByHand, ReverseInvoice, CommitRefund, CommitNote, CommitWriteOff,
              BillOpening, MarkCarried, Abort, RowRefused
<1>4. QED BY <1>1, <1>2, <1>3 DEF Next

(* The gateway goes on having what it has.                                 *)
LEMMA MoneyStays ==
    ASSUME Typed, Backed, [Next]_vars, NEW q \in Payment, gateway[q] \in HasMoney
    PROVE  gateway'[q] \in HasMoney
<1>1. gateway \in [Payment -> {"none", "open", "captured", "refunded"}]
  BY DEF Typed, TypeOK
<1>2. ASSUME NEW p \in Payment, NEW online \in BOOLEAN, CreateOrder(p, online)
      PROVE  gateway'[q] \in HasMoney
  BY <1>1, <1>2 DEF CreateOrder, Backed, BlankRows, HasMoney
<1>3. ASSUME NEW p \in Payment, CustomerPays(p)
      PROVE  gateway'[q] \in HasMoney
  BY <1>1, <1>3 DEF CustomerPays, HasMoney
<1>4. ASSUME NEW s \in Session, RefundAtGateway(s)
      PROVE  gateway'[q] \in HasMoney
  BY <1>1, <1>4 DEF RefundAtGateway, HasMoney
<1>5. QED BY <1>2, <1>3, <1>4, GatewayWriters

(* The gateway id of a row is written by a capture, or one that is refused. *)
LEMMA IdWriters ==
    ASSUME Typed, Backed, [Next]_vars
    PROVE  \/ \A q \in Payment : payment'[q].gateway_id = payment[q].gateway_id
           \/ \E s \in Session :
                 /\ FetchRefused(s) \/ CommitCapture(s)
                 /\ txn[s].p \in Payment
                 /\ \A q \in Payment : payment'[q].gateway_id =
                        IF q = txn[s].p THEN txn[s].ref ELSE payment[q].gateway_id
<1>1. payment \in [Payment -> PaymentRow] /\ \A s \in Session : RequestOK(txn[s])
  BY DEF Typed, TypeOK
<1>2. ASSUME NEW p \in Payment, NEW online \in BOOLEAN, CreateOrder(p, online)
      PROVE  \A q \in Payment : payment'[q].gateway_id = payment[q].gateway_id
  BY <1>1, <1>2 DEF CreateOrder, Backed, BlankRows
<1>3. ASSUME NEW p \in Payment, ReconcileStep(p)
      PROVE  \A q \in Payment : payment'[q].gateway_id = payment[q].gateway_id
  BY <1>1, <1>3 DEF ReconcileStep, PaymentRow
<1>4. ASSUME NEW s \in Session, CommitRefund(s)
      PROVE  \A q \in Payment : payment'[q].gateway_id = payment[q].gateway_id
  BY <1>1, <1>4 DEF CommitRefund, PaymentRow
<1>5. ASSUME NEW s \in Session, FetchRefused(s)
      PROVE  /\ txn[s].p \in Payment
             /\ \A q \in Payment : payment'[q].gateway_id =
                    IF q = txn[s].p THEN txn[s].ref ELSE payment[q].gateway_id
  <2>1. txn[s].p \in Payment
    BY <1>1, <1>5 DEF FetchRefused, RequestOK, Captures
  <2>2. QED BY <1>1, <1>5, <2>1 DEF FetchRefused, PaymentRow
<1>6. ASSUME NEW s \in Session, CommitCapture(s)
      PROVE  /\ txn[s].p \in Payment
             /\ \A q \in Payment : payment'[q].gateway_id =
                    IF q = txn[s].p THEN txn[s].ref ELSE payment[q].gateway_id
  <2>1. txn[s].p \in Payment
    BY <1>1, <1>6 DEF CommitCapture, RequestOK, Captures
  <2>2. QED BY <1>1, <1>6, <2>1 DEF CommitCapture, PaymentRow
<1>7. CASE payment' = payment
  BY <1>7
<1>8. QED BY <1>2, <1>3, <1>4, <1>5, <1>6, <1>7, PaymentWriters

(* A request that is to write a gateway id was to write it before, or has  *)
(* just been told that the gateway has the money.                          *)
LEMMA ClaimMoves ==
    ASSUME Typed, [Next]_vars, NEW x \in Session, Claiming(txn'[x])
    PROVE  /\ txn'[x].p = txn[x].p /\ txn'[x].ref = txn[x].ref
           /\ txn[x].ref \in Payment
           /\ Claiming(txn[x]) \/ FetchConfirmed(x)
<1>1. txn \in [Session -> Transaction] /\ RequestOK(txn[x])
  BY DEF Typed, TypeOK
<1>2. CaptureMove(x)
  BY CaptureMoves
<1>3. CASE txn'[x] = txn[x]
  BY <1>1, <1>3 DEF Transaction, Claiming, Seeking
<1>4. CASE FetchConfirmed(x)
  BY <1>1, <1>4 DEF FetchConfirmed, Transaction, Claiming, Seeking
<1>5. ASSUME NEW p \in Payment, BeginOffline(x, p)
      PROVE  FALSE
  <2>1. txn'[x].ref = None
    BY <1>1, <1>5 DEF BeginOffline, Start, Idle
  <2>2. QED BY <2>1 DEF Claiming, Seeking
<1>6. CASE /\ txn[x].pc \in {"credit", "number", "issue"}
           /\ txn'[x].p = txn[x].p /\ txn'[x].ref = txn[x].ref
  BY <1>1, <1>6 DEF Transaction, Claiming, Seeking, Captures
<1>7. txn'[x].pc \in {"credit", "number", "issue"}
  BY DEF Claiming, Seeking, Captures
<1>8. QED BY <1>2, <1>3, <1>4, <1>5, <1>6, <1>7 DEF CaptureMove

LEMMA BlankRowsStep == Typed /\ Backed /\ [Next]_vars => BlankRows'
<1> SUFFICES ASSUME Typed, Backed, [Next]_vars, NEW q \in Payment, payment'[q].status = "none"
             PROVE  /\ receipt'[q] = 0 /\ gateway'[q] = "none" /\ ~payment'[q].online
                    /\ payment'[q].gateway_id = None
  BY DEF BlankRows
<1>1. /\ receipt \in [Payment -> Nat] /\ payment \in [Payment -> PaymentRow]
      /\ gateway \in [Payment -> {"none", "open", "captured", "refunded"}]
      /\ \A s \in Session : RequestOK(txn[s])
  BY DEF Typed, TypeOK
<1>2. ASSUME NEW s \in Session, CommitCapture(s)
      PROVE  q # txn[s].p /\ payment'[q] = payment[q] /\ receipt'[q] = receipt[q]
  <2>1. txn[s].p \in Payment
    BY <1>1, <1>2 DEF CommitCapture, RequestOK, Captures
  <2>2. QED BY <1>1, <1>2, <2>1 DEF CommitCapture
<1>3. ASSUME NEW p \in Payment, NEW online \in BOOLEAN, CreateOrder(p, online)
      PROVE  q # p /\ payment'[q] = payment[q]
  BY <1>1, <1>3 DEF CreateOrder
<1>4. ASSUME NEW p \in Payment, ReconcileStep(p)
      PROVE  payment'[q] = payment[q]
  BY <1>1, <1>4 DEF ReconcileStep, PaymentRow
<1>5. ASSUME NEW s \in Session, FetchRefused(s)
      PROVE  payment'[q] = payment[q]
  BY <1>1, <1>5 DEF FetchRefused, PaymentRow
<1>6. ASSUME NEW s \in Session, CommitRefund(s)
      PROVE  /\ payment[q].status = "none" /\ payment'[q].online = payment[q].online
             /\ payment'[q].gateway_id = payment[q].gateway_id
  BY <1>1, <1>6 DEF CommitRefund, PaymentRow
<1>7. /\ payment[q].status = "none" /\ payment'[q].online = payment[q].online
      /\ payment'[q].gateway_id = payment[q].gateway_id
  BY <1>2, <1>3, <1>4, <1>5, <1>6, PaymentWriters
<1>8. receipt[q] = 0 /\ gateway[q] = "none" /\ ~payment[q].online /\ payment[q].gateway_id = None
  BY <1>7 DEF Backed, BlankRows
<1>9. receipt'[q] = 0
  BY <1>2, <1>8, ReceiptWriters
<1>10. gateway'[q] = "none"
  <2>1. ASSUME NEW p \in Payment, CustomerPays(p)
        PROVE  gateway'[q] = "none"
    BY <1>1, <1>8, <2>1 DEF CustomerPays
  <2>2. ASSUME NEW p \in Payment, NEW online \in BOOLEAN, CreateOrder(p, online)
        PROVE  gateway'[q] = "none"
    BY <1>1, <1>3, <1>8, <2>2 DEF CreateOrder
  <2>3. ASSUME NEW s \in Session, RefundAtGateway(s)
        PROVE  gateway'[q] = "none"
    <3>1. txn[s].p \in Payment
      BY <1>1, <2>3 DEF RefundAtGateway, RequestOK
    <3>2. payment[txn[s].p].gateway_id # q
      BY <1>8, <2>3, <3>1 DEF RefundAtGateway, ThroughGateway, Backed, IdsBacked, HasMoney
    <3>3. QED BY <1>1, <1>8, <2>3, <3>2 DEF RefundAtGateway
  <2>4. QED BY <1>8, <2>1, <2>2, <2>3, GatewayWriters
<1>11. QED BY <1>7, <1>8, <1>9, <1>10

LEMMA IdsBackedStep == Typed /\ Backed /\ [Next]_vars => IdsBacked'
<1> SUFFICES ASSUME Typed, Backed, [Next]_vars PROVE IdsBacked'
  OBVIOUS
<1>1. /\ payment \in [Payment -> PaymentRow] /\ txn \in [Session -> Transaction]
      /\ \A s \in Session : RequestOK(txn[s])
  BY DEF Typed, TypeOK
<1>2. ASSUME NEW s \in Session, Seeking(txn[s])
      PROVE  txn[s].ref \in Payment /\ gateway'[txn[s].ref] \in HasMoney
  <2>1. txn[s].ref \in Payment
    BY <1>1, <1>2 DEF Transaction, Seeking
  <2>2. gateway[txn[s].ref] \in HasMoney
    BY <1>2 DEF Backed, IdsBacked
  <2>3. QED BY <2>1, <2>2, MoneyStays
<1>3. ASSUME NEW q \in Payment, payment[q].gateway_id # None
      PROVE  gateway'[payment[q].gateway_id] \in HasMoney
  <2>1. payment[q].gateway_id \in Payment
    BY <1>1, <1>3 DEF PaymentRow
  <2>2. gateway[payment[q].gateway_id] \in HasMoney
    BY <1>3 DEF Backed, IdsBacked
  <2>3. QED BY <2>1, <2>2, MoneyStays
<1>4. ASSUME NEW q \in Payment, payment'[q].gateway_id # None
      PROVE  gateway'[payment'[q].gateway_id] \in HasMoney
  <2>1. CASE payment'[q].gateway_id = payment[q].gateway_id
    BY <1>3, <1>4, <2>1
  <2>2. ASSUME NEW s \in Session, FetchRefused(s) \/ CommitCapture(s),
               payment'[q].gateway_id = txn[s].ref
        PROVE  gateway'[payment'[q].gateway_id] \in HasMoney
    <3>1. Seeking(txn[s])
      BY <1>4, <2>2 DEF FetchRefused, CommitCapture, Seeking, Captures
    <3>2. QED BY <1>2, <2>2, <3>1
  <2>3. QED BY <2>1, <2>2, IdWriters
<1>5. ASSUME NEW x \in Session, Seeking(txn'[x])
      PROVE  gateway'[txn'[x].ref] \in HasMoney
  <2>1. CASE Claiming(txn'[x])
    <3>1. txn'[x].ref = txn[x].ref /\ (Claiming(txn[x]) \/ FetchConfirmed(x))
      BY <2>1, ClaimMoves
    <3>2. Seeking(txn[x])
      BY <1>5, <3>1 DEF Claiming, Seeking, FetchConfirmed, Captures
    <3>3. QED BY <1>2, <3>1, <3>2
  <2>2. CASE txn'[x].pc = "fetch"
    <3>1. CASE txn'[x] = txn[x]
      BY <1>2, <1>5, <3>1
    <3>2. CASE gateway[txn'[x].ref] \in HasMoney /\ gateway' = gateway
      BY <3>2
    <3>3. QED BY <2>2, <3>1, <3>2, CaptureMoves DEF CaptureMove
  <2>3. QED BY <1>5, <2>1, <2>2 DEF Claiming
<1>6. QED BY <1>4, <1>5 DEF IdsBacked

LEMMA IdsUniqueStep == Typed /\ Backed /\ [Next]_vars => IdsUnique'
<1> SUFFICES ASSUME Typed, Backed, [Next]_vars PROVE IdsUnique'
  OBVIOUS
<1>1. /\ payment \in [Payment -> PaymentRow] /\ txn \in [Session -> Transaction]
      /\ \A s \in Session : RequestOK(txn[s])
  BY DEF Typed, TypeOK
<1>2. IdsUnique /\ IdsThere
  BY DEF Backed
<1>3. ASSUME NEW s \in Session, FetchRefused(s) \/ CommitCapture(s), txn[s].ref # None,
             NEW q \in Payment, q # txn[s].p
      PROVE  payment[q].gateway_id # txn[s].ref
  <2>1. CASE FetchRefused(s)
    BY <1>3, <2>1 DEF FetchRefused, Unused
  <2>2. CASE CommitCapture(s)
    <3>1. Claiming(txn[s])
      BY <1>3, <2>2 DEF CommitCapture, Claiming, Seeking, Captures
    <3>2. QED BY <1>2, <1>3, <3>1 DEF IdsUnique
  <2>3. QED BY <1>3, <2>1, <2>2
<1>4. ASSUME NEW s \in Session, FetchRefused(s) \/ CommitCapture(s), txn[s].ref # None,
             NEW x \in Session, x # s, Claiming(txn[x])
      PROVE  txn[x].ref # txn[s].ref
  <2>1. CASE FetchRefused(s)
    BY <1>4, <2>1 DEF FetchRefused, UnclaimedId, Claiming
  <2>2. CASE CommitCapture(s)
    <3>1. Claiming(txn[s])
      BY <1>4, <2>2 DEF CommitCapture, Claiming, Seeking, Captures
    <3>2. QED BY <1>2, <1>4, <3>1 DEF IdsUnique
  <2>3. QED BY <1>4, <2>1, <2>2
<1>5. ASSUME NEW p \in Payment, NEW q \in Payment, p # q, payment'[p].gateway_id # None
      PROVE  payment'[p].gateway_id # payment'[q].gateway_id
  <2>1. CASE \A r \in Payment : payment'[r].gateway_id = payment[r].gateway_id
    BY <1>2, <1>5, <2>1 DEF IdsUnique
  <2>2. ASSUME NEW s \in Session, FetchRefused(s) \/ CommitCapture(s),
               \A r \in Payment : payment'[r].gateway_id =
                   IF r = txn[s].p THEN txn[s].ref ELSE payment[r].gateway_id
        PROVE  payment'[p].gateway_id # payment'[q].gateway_id
    <3>1. CASE p = txn[s].p
      BY <1>3, <1>5, <2>2, <3>1
    <3>2. CASE q = txn[s].p
      BY <1>3, <1>5, <2>2, <3>2
    <3>3. CASE p # txn[s].p /\ q # txn[s].p
      BY <1>2, <1>5, <2>2, <3>3 DEF IdsUnique
    <3>4. QED BY <3>1, <3>2, <3>3
  <2>3. QED BY <2>1, <2>2, IdWriters
<1>6. ASSUME NEW x \in Session, Claiming(txn'[x]), NEW q \in Payment, q # txn'[x].p
      PROVE  payment'[q].gateway_id # txn'[x].ref
  <2>1. /\ txn'[x].p = txn[x].p /\ txn'[x].ref = txn[x].ref /\ txn[x].ref # None
        /\ Claiming(txn[x]) \/ FetchConfirmed(x)
    BY <1>6, ClaimMoves DEF Claiming, Seeking
  <2>2. CASE FetchConfirmed(x)
    BY <1>6, <2>1, <2>2 DEF FetchConfirmed, Unused, tables
  <2>3. CASE Claiming(txn[x])
    <3>1. payment[q].gateway_id # txn[x].ref
      BY <1>2, <1>6, <2>1, <2>3 DEF IdsUnique
    <3>2. ASSUME NEW s \in Session, FetchRefused(s) \/ CommitCapture(s), q = txn[s].p,
                 payment'[q].gateway_id = txn[s].ref
          PROVE  payment'[q].gateway_id # txn'[x].ref
      <4>1. CASE txn[s].ref = None
        BY <2>1, <3>2, <4>1
      <4>2. CASE txn[s].ref # None
        BY <1>4, <1>6, <2>1, <2>3, <3>2, <4>2
      <4>3. QED BY <4>1, <4>2
    <3>3. CASE payment'[q].gateway_id = payment[q].gateway_id
      BY <2>1, <3>1, <3>3
    <3>4. QED BY <3>2, <3>3, IdWriters
  <2>4. QED BY <2>1, <2>2, <2>3
<1>7. ASSUME NEW s \in Session, NEW x \in Session, s # x, FetchConfirmed(s),
             Claiming(txn'[x])
      PROVE  txn'[s].ref # txn'[x].ref
  <2>1. txn'[x] = txn[x] /\ txn'[s].ref = txn[s].ref
    BY <1>1, <1>7 DEF FetchConfirmed, Transaction
  <2>2. QED BY <1>7, <2>1 DEF FetchConfirmed, UnclaimedId, Claiming
<1>8. ASSUME NEW s \in Session, NEW x \in Session, s # x,
             Claiming(txn'[s]), Claiming(txn'[x])
      PROVE  txn'[s].ref # txn'[x].ref
  <2>1. /\ txn'[s].ref = txn[s].ref /\ (Claiming(txn[s]) \/ FetchConfirmed(s))
        /\ txn'[x].ref = txn[x].ref /\ (Claiming(txn[x]) \/ FetchConfirmed(x))
    BY <1>8, ClaimMoves
  <2>2. CASE Claiming(txn[s]) /\ Claiming(txn[x])
    BY <1>2, <1>8, <2>1, <2>2 DEF IdsUnique
  <2>3. QED BY <1>7, <1>8, <2>1, <2>2
<1>9. QED BY <1>5, <1>6, <1>8 DEF IdsUnique

LEMMA IdsThereStep == Typed /\ Backed /\ [Next]_vars => IdsThere'
<1> SUFFICES ASSUME Typed, Backed, [Next]_vars PROVE IdsThere'
  OBVIOUS
<1>1. /\ receipt \in [Payment -> Nat] /\ payment \in [Payment -> PaymentRow]
      /\ txn \in [Session -> Transaction] /\ \A s \in Session : RequestOK(txn[s])
  BY DEF Typed, TypeOK
<1>2. BlankRows /\ IdsThere
  BY DEF Backed
<1>3. ASSUME NEW q \in Payment, receipt'[q] # 0, payment'[q].online
      PROVE  payment'[q].gateway_id # None
  <2>1. ASSUME NEW s \in Session, CommitCapture(s)
        PROVE  payment'[q].gateway_id # None
    <3>1. txn[s].p \in Payment /\ (txn[s].via = "offline" <=> txn[s].ref = None)
      BY <1>1, <2>1 DEF CommitCapture, RequestOK, Captures
    <3>2. CASE q = txn[s].p
      BY <1>1, <1>3, <2>1, <3>1, <3>2 DEF CommitCapture
    <3>3. CASE q # txn[s].p
      <4>1. receipt'[q] = receipt[q] /\ payment'[q] = payment[q]
        BY <1>1, <2>1, <3>1, <3>3 DEF CommitCapture
      <4>2. QED BY <1>2, <1>3, <4>1 DEF IdsThere
    <3>4. QED BY <3>2, <3>3
  <2>2. CASE \A s \in Session : ~CommitCapture(s)
    <3>1. receipt[q] # 0
      BY <1>3, <2>2, ReceiptWriters
    <3>2. payment[q].online
      <4>1. ASSUME NEW p \in Payment, NEW online \in BOOLEAN, CreateOrder(p, online)
            PROVE  payment[q].online
        BY <1>1, <1>2, <1>3, <3>1, <4>1 DEF CreateOrder, BlankRows
      <4>2. ASSUME NEW p \in Payment, ReconcileStep(p)
            PROVE  payment[q].online
        BY <1>1, <1>3, <4>2 DEF ReconcileStep, PaymentRow
      <4>3. ASSUME NEW s \in Session, FetchRefused(s)
            PROVE  payment[q].online
        BY <1>1, <1>3, <4>3 DEF FetchRefused, PaymentRow
      <4>4. ASSUME NEW s \in Session, CommitRefund(s)
            PROVE  payment[q].online
        BY <1>1, <1>3, <4>4 DEF CommitRefund, PaymentRow
      <4>5. QED BY <1>3, <2>2, <4>1, <4>2, <4>3, <4>4, PaymentWriters
    <3>3. payment[q].gateway_id # None
      BY <1>2, <3>1, <3>2 DEF IdsThere
    <3>4. ASSUME NEW s \in Session, FetchRefused(s), payment'[q].gateway_id = txn[s].ref
          PROVE  payment'[q].gateway_id # None
      BY <1>2, <3>4 DEF FetchRefused, IdsThere
    <3>5. QED BY <2>2, <3>3, <3>4, IdWriters
  <2>3. QED BY <2>1, <2>2
<1>4. ASSUME NEW x \in Session, txn'[x].pc \in {"fetch", "credit"}
      PROVE  txn'[x].ref # None
  <2>1. CaptureMove(x)
    BY CaptureMoves
  <2>2. CASE txn'[x] = txn[x]
    BY <1>2, <1>4, <2>2 DEF IdsThere
  <2>3. CASE txn'[x].ref \in Payment
    BY <2>3, ConstantsAssumption
  <2>4. CASE FetchConfirmed(x)
    <3>1. txn'[x].ref = txn[x].ref /\ txn[x].pc = "fetch"
      BY <1>1, <2>4 DEF FetchConfirmed, Transaction
    <3>2. QED BY <1>2, <3>1 DEF IdsThere
  <2>5. QED BY <1>4, <2>1, <2>2, <2>3, <2>4 DEF CaptureMove
<1>5. QED BY <1>3, <1>4 DEF IdsThere

LEMMA BackedStep == Typed /\ Backed /\ [Next]_vars => Backed'
BY BlankRowsStep, IdsBackedStep, IdsUniqueStep, IdsThereStep DEF Backed

(* Whichever payments clients and events name, and however often: behind a *)
(* receipt that was not issued at the counter is money the gateway has or  *)
(* had, and no two receipts are for the same.                              *)
THEOREM ReceiptsHaveMoney == Spec => []ReceiptHasMoney
<1>1. Backed => ReceiptHasMoney
  BY DEF Backed, IdsBacked, IdsUnique, IdsThere, ReceiptHasMoney, Issued, HasMoney
<1>2. QED BY <1>1, TypedInit, TypedStep, BackedInit, BackedStep, PTL DEF Spec
-----------------------------------------------------------------------------
(* Sums over the rows of a table.  aggregate(Sum) is a fold over a finite  *)
(* set; what it adds up to is proved by induction over the subsets of the  *)
(* set, which the library's well-founded order gives.                      *)

(* Induction over the subsets of a finite set.                             *)
LEMMA SetInduction ==
    ASSUME NEW S, IsFiniteSet(S), NEW Good,
           \A T \in SUBSET S : (\A U \in SUBSET T : U # T => U \in Good) => T \in Good
    PROVE  S \in Good
<1> DEFINE Bad == {T \in SUBSET S : T \notin Good}
<1> SUFFICES ASSUME S \notin Good PROVE FALSE
  OBVIOUS
<1>1. IsWellFoundedOn(StrictSubsetOrdering(S), SUBSET S)
  <2>1. FiniteSubsetsOf(S) = SUBSET S
    BY FS_FiniteSubsetsOfFinite
  <2>2. IsWellFoundedOn(StrictSubsetOrdering(S), FiniteSubsetsOf(S))
    BY FS_StrictSubsetOrderingWellFounded
  <2> QED BY <2>1, <2>2, Zenon
<1>2. Bad \subseteq SUBSET S /\ Bad # {}
  BY Zenon
<1>3. PICK T \in Bad : \A U \in Bad : ~(<<U, T>> \in StrictSubsetOrdering(S))
  <2> HIDE DEF Bad
  <2> QED BY <1>1, <1>2, WFMin
<1>4. T \in SUBSET S /\ T \notin Good
  BY <1>3
<1>5. ASSUME NEW U \in SUBSET T, U # T PROVE U \in Good
  <2>1. <<U, T>> \in StrictSubsetOrdering(S)
    BY <1>4, <1>5 DEF StrictSubsetOrdering
  <2>2. U \notin Bad
    BY <1>3, <2>1, Zenon
  <2> QED BY <1>4, <2>2
<1> QED BY <1>4, <1>5

Pick(s) == CHOOSE x \in s : TRUE

(* total is the table a sum over the subsets of ids is worked out in.      *)
IsTable(total, rows, ids) ==
    total = [s \in SUBSET ids |->
                IF s = {} THEN 0 ELSE rows[Pick(s)].amount + total[s \ {Pick(s)}]]

LEMMA PickIn == ASSUME NEW s, s # {} PROVE Pick(s) \in s
BY DEF Pick

(* The fold that adds up the rows is this table, taken at the whole set.   *)
LEMMA AmountOfTable ==
    ASSUME NEW rows, NEW ids
    PROVE  AmountOf(rows, ids) = (CHOOSE total : IsTable(total, rows, ids))[ids]
BY DEF AmountOf, MapThenSumSet, MapThenFoldSet, IsTable, Pick

LEMMA TableOver ==
    ASSUME NEW total, NEW rows, NEW ids, IsTable(total, rows, ids), NEW s \in SUBSET ids
    PROVE  total[s] = IF s = {} THEN 0 ELSE rows[Pick(s)].amount + total[s \ {Pick(s)}]
<1> DEFINE value == [u \in SUBSET ids |->
                IF u = {} THEN 0 ELSE rows[Pick(u)].amount + total[u \ {Pick(u)}]]
<1>1. total = value
  BY DEF IsTable
<1>2. value[s] = IF s = {} THEN 0 ELSE rows[Pick(s)].amount + total[s \ {Pick(s)}]
  OBVIOUS
<1> QED BY <1>1, <1>2, Zenon

(* Two tables that hold a set agree about it.                              *)
LEMMA TablesAgree ==
    ASSUME NEW f, NEW g, NEW rows, NEW A, NEW B, NEW S, IsFiniteSet(S),
           IsTable(f, rows, A), IsTable(g, rows, B), S \subseteq A, S \subseteq B
    PROVE  f[S] = g[S]
<1> DEFINE Good == {T \in SUBSET S : f[T] = g[T]}
<1>1. ASSUME NEW T \in SUBSET S, \A U \in SUBSET T : U # T => U \in Good
      PROVE  T \in Good
  <2>1. CASE T = {}
    BY <2>1, TableOver
  <2>2. CASE T # {}
    <3>1. Pick(T) \in T
      BY <2>2, PickIn
    <3>2. f[T] = rows[Pick(T)].amount + f[T \ {Pick(T)}]
      BY <2>2, TableOver
    <3>3. g[T] = rows[Pick(T)].amount + g[T \ {Pick(T)}]
      BY <2>2, TableOver
    <3>4. T \ {Pick(T)} \in Good
      BY <1>1, <3>1
    <3> QED BY <3>2, <3>3, <3>4
  <2> QED BY <2>1, <2>2
<1> HIDE DEF Good
<1>2. S \in Good
  BY <1>1, SetInduction
<1> QED BY <1>2 DEF Good

LEMMA TableExists ==
    ASSUME NEW rows, NEW ids, IsFiniteSet(ids)
    PROVE  \E total : IsTable(total, rows, ids)
<1> DEFINE Good == {T \in SUBSET ids : \E total : IsTable(total, rows, T)}
           Table(T) == CHOOSE total : IsTable(total, rows, T)
           Rest(s) == s \ {Pick(s)}
<1>1. ASSUME NEW T \in SUBSET ids, \A U \in SUBSET T : U # T => U \in Good
      PROVE  T \in Good
  <2> DEFINE total == [s \in SUBSET T |->
                          IF s = {} THEN 0 ELSE rows[Pick(s)].amount + Table(Rest(s))[Rest(s)]]
  <2>1. ASSUME NEW U \in SUBSET T, U # T
        PROVE  IsTable(Table(U), rows, U)
    BY <1>1, <2>1, Zenon
  <2>2. ASSUME NEW s \in SUBSET T, s # {}
        PROVE  Rest(s) \in SUBSET T /\ Rest(s) # T /\ Rest(s) \in SUBSET s
    BY <2>2, PickIn
  <2>3. ASSUME NEW U \in SUBSET T, U # T
        PROVE  total[U] = Table(U)[U]
    <3>1. IsTable(Table(U), rows, U)
      BY <2>1, <2>3
    <3> HIDE DEF Table, Rest
    <3>2. CASE U = {}
      BY <3>1, <3>2, TableOver
    <3>3. CASE U # {}
      <4>1. Rest(U) \in SUBSET T /\ Rest(U) # T /\ Rest(U) \in SUBSET U
        BY <2>2, <3>3
      <4>2. IsTable(Table(Rest(U)), rows, Rest(U)) /\ IsFiniteSet(Rest(U))
        BY <2>1, <4>1, FS_Subset
      <4>3. Table(Rest(U))[Rest(U)] = Table(U)[Rest(U)]
        BY <3>1, <4>1, <4>2, TablesAgree
      <4>4. Table(U)[U] = rows[Pick(U)].amount + Table(U)[Rest(U)]
        BY <3>1, <3>3, TableOver DEF Rest
      <4> QED BY <3>3, <4>3, <4>4
    <3> QED BY <3>2, <3>3
  <2>4. ASSUME NEW s \in SUBSET T
        PROVE  total[s] = IF s = {} THEN 0 ELSE rows[Pick(s)].amount + total[Rest(s)]
    <3> HIDE DEF Table, Rest
    <3>1. CASE s = {}
      BY <3>1
    <3>2. CASE s # {}
      <4>1. total[Rest(s)] = Table(Rest(s))[Rest(s)]
        <5> HIDE DEF total
        <5> QED BY <2>2, <2>3, <3>2
      <4>2. total[s] = rows[Pick(s)].amount + Table(Rest(s))[Rest(s)]
        BY <3>2
      <4> HIDE DEF total
      <4> QED BY <3>2, <4>1, <4>2
    <3> QED BY <3>1, <3>2
  <2>5. IsTable(total, rows, T)
    <3>1. total = [s \in SUBSET T |-> total[s]]
      BY SMT
    <3> HIDE DEF total
    <3> QED BY <2>4, <3>1 DEF IsTable
  <2> QED BY <2>5
<1> HIDE DEF Good
<1>2. ids \in Good
  BY <1>1, SetInduction
<1> QED BY <1>2 DEF Good

(* The sum is what the recursion of a sum says it is.                      *)
LEMMA AmountOfFrom ==
    ASSUME NEW rows, NEW ids, IsFiniteSet(ids)
    PROVE  AmountOf(rows, ids) = IF ids = {} THEN 0
                                 ELSE rows[Pick(ids)].amount + AmountOf(rows, ids \ {Pick(ids)})
<1> DEFINE Table(S) == CHOOSE total : IsTable(total, rows, S)
           rest == ids \ {Pick(ids)}
<1>1. IsFiniteSet(rest) /\ rest \in SUBSET ids
  BY FS_Subset
<1>2. IsTable(Table(ids), rows, ids) /\ IsTable(Table(rest), rows, rest)
  BY <1>1, TableExists, Zenon
<1>3. AmountOf(rows, ids) = Table(ids)[ids] /\ AmountOf(rows, rest) = Table(rest)[rest]
  BY AmountOfTable, Zenon
<1> HIDE DEF Table, rest
<1>4. Table(ids)[rest] = Table(rest)[rest]
  BY <1>1, <1>2, TablesAgree
<1> QED BY <1>2, <1>3, <1>4, TableOver DEF rest

LEMMA AmountOfType ==
    ASSUME NEW rows, NEW ids, IsFiniteSet(ids), \A x \in ids : rows[x].amount \in Nat
    PROVE  AmountOf(rows, ids) \in Nat
<1> DEFINE Good == {T \in SUBSET ids : AmountOf(rows, T) \in Nat}
<1>1. ASSUME NEW T \in SUBSET ids, \A U \in SUBSET T : U # T => U \in Good
      PROVE  T \in Good
  <2>1. IsFiniteSet(T)
    BY FS_Subset
  <2>2. CASE T = {}
    <3>1. AmountOf(rows, T) = 0
      BY <2>1, <2>2, AmountOfFrom
    <3> QED BY <3>1
  <2>3. CASE T # {}
    <3>1. Pick(T) \in T
      BY <2>3, PickIn
    <3>2. AmountOf(rows, T \ {Pick(T)}) \in Nat /\ rows[Pick(T)].amount \in Nat
      BY <1>1, <3>1
    <3> QED BY <2>1, <2>3, <3>2, AmountOfFrom
  <2> QED BY <2>2, <2>3
<1> HIDE DEF Good
<1>2. ids \in Good
  BY <1>1, SetInduction
<1> QED BY <1>2 DEF Good

(* Whichever row is taken away first, the sum is the same.                 *)
LEMMA AmountOfLess ==
    ASSUME NEW rows, NEW ids, IsFiniteSet(ids), \A x \in ids : rows[x].amount \in Nat,
           NEW x \in ids
    PROVE  AmountOf(rows, ids) = rows[x].amount + AmountOf(rows, ids \ {x})
<1> DEFINE Splits(T) == \A y \in T : AmountOf(rows, T) = rows[y].amount + AmountOf(rows, T \ {y})
           Good == {T \in SUBSET ids : Splits(T)}
<1>1. ASSUME NEW T \in SUBSET ids, \A U \in SUBSET T : U # T => U \in Good
      PROVE  T \in Good
  <2> SUFFICES ASSUME NEW y \in T PROVE AmountOf(rows, T) = rows[y].amount + AmountOf(rows, T \ {y})
    OBVIOUS
  <2> DEFINE z == Pick(T)
             Ty == T \ {y}
             Tz == T \ {z}
             Tyz == (T \ {y}) \ {z}
  <2>1. z \in T /\ IsFiniteSet(T)
    BY PickIn, FS_Subset
  <2>2. AmountOf(rows, T) = rows[z].amount + AmountOf(rows, Tz)
    BY <2>1, AmountOfFrom
  <2>3. CASE y = z
    BY <2>2, <2>3
  <2>4. CASE y # z
    <3>1. Ty \in SUBSET T /\ Ty # T /\ Tz \in SUBSET T /\ Tz # T
      BY <2>1
    <3>2. Splits(Ty) /\ Splits(Tz)
      BY <1>1, <3>1
    <3>3. z \in Ty /\ y \in Tz /\ Tz \ {y} = Tyz
      BY <2>1, <2>4
    <3>4. AmountOf(rows, Tz) = rows[y].amount + AmountOf(rows, Tyz)
      BY <3>2, <3>3, Zenon
    <3>5. AmountOf(rows, Ty) = rows[z].amount + AmountOf(rows, Tyz)
      BY <3>2, <3>3, Zenon
    <3>6. IsFiniteSet(Tyz) /\ \A v \in Tyz : rows[v].amount \in Nat
      BY <2>1, FS_Subset
    <3>7. AmountOf(rows, Tyz) \in Nat
      BY <3>6, AmountOfType
    <3>8. rows[y].amount \in Nat /\ rows[z].amount \in Nat
      BY <2>1
    <3> HIDE DEF Ty, Tz, Tyz, z
    <3>9. AmountOf(rows, T) = rows[y].amount + AmountOf(rows, Ty)
      BY <2>2, <3>4, <3>5, <3>7, <3>8
    <3> QED BY <3>9 DEF Ty
  <2> QED BY <2>3, <2>4
<1> HIDE DEF Good
<1>2. ids \in Good
  BY <1>1, SetInduction
<1> QED BY <1>2 DEF Good

(* The sum reads nothing but the amounts of the rows it is over.           *)
LEMMA AmountOfSame ==
    ASSUME NEW rows, NEW others, NEW ids, IsFiniteSet(ids),
           \A x \in ids : others[x].amount = rows[x].amount
    PROVE  AmountOf(others, ids) = AmountOf(rows, ids)
<1> DEFINE Good == {T \in SUBSET ids : AmountOf(others, T) = AmountOf(rows, T)}
<1>1. ASSUME NEW T \in SUBSET ids, \A U \in SUBSET T : U # T => U \in Good
      PROVE  T \in Good
  <2>1. IsFiniteSet(T)
    BY FS_Subset
  <2>2. CASE T = {}
    BY <2>1, <2>2, AmountOfFrom
  <2>3. CASE T # {}
    <3>1. Pick(T) \in T
      BY <2>3, PickIn
    <3>2. /\ AmountOf(others, T \ {Pick(T)}) = AmountOf(rows, T \ {Pick(T)})
          /\ others[Pick(T)].amount = rows[Pick(T)].amount
      BY <1>1, <3>1
    <3>3. AmountOf(rows, T) = rows[Pick(T)].amount + AmountOf(rows, T \ {Pick(T)})
      BY <2>1, <2>3, AmountOfFrom
    <3>4. AmountOf(others, T) = others[Pick(T)].amount + AmountOf(others, T \ {Pick(T)})
      BY <2>1, <2>3, AmountOfFrom
    <3> QED BY <3>2, <3>3, <3>4
  <2> QED BY <2>2, <2>3
<1> HIDE DEF Good
<1>2. ids \in Good
  BY <1>1, SetInduction
<1> QED BY <1>2 DEF Good

LEMMA AmountOfMore ==
    ASSUME NEW rows, NEW ids, IsFiniteSet(ids), NEW x, x \notin ids,
           \A y \in ids \cup {x} : rows[y].amount \in Nat
    PROVE  AmountOf(rows, ids \cup {x}) = AmountOf(rows, ids) + rows[x].amount
<1> DEFINE more == ids \cup {x}
<1>1. IsFiniteSet(more) /\ x \in more /\ more \ {x} = ids
  BY FS_AddElement
<1>2. AmountOf(rows, ids) \in Nat /\ rows[x].amount \in Nat
  BY AmountOfType
<1>3. AmountOf(rows, more) = rows[x].amount + AmountOf(rows, more \ {x})
  <2> HIDE DEF more
  <2>1. \A y \in more : rows[y].amount \in Nat
    BY DEF more
  <2> QED BY <1>1, <2>1, AmountOfLess
<1> HIDE DEF more
<1>4. AmountOf(rows, more) = rows[x].amount + AmountOf(rows, ids)
  BY <1>1, <1>3, Zenon
<1>5. AmountOf(rows, more) = AmountOf(rows, ids) + rows[x].amount
  BY <1>2, <1>4
<1> QED BY <1>5 DEF more

(* Fewer rows never come to more.                                          *)
LEMMA AmountOfPart ==
    ASSUME NEW rows, NEW ids, IsFiniteSet(ids), \A x \in ids : rows[x].amount \in Nat,
           NEW part \in SUBSET ids
    PROVE  AmountOf(rows, part) <= AmountOf(rows, ids)
<1> DEFINE Good == {T \in SUBSET ids : part \subseteq T => AmountOf(rows, part) <= AmountOf(rows, T)}
<1>1. ASSUME NEW T \in SUBSET ids, \A U \in SUBSET T : U # T => U \in Good
      PROVE  T \in Good
  <2>0. IsFiniteSet(part) /\ AmountOf(rows, part) \in Nat
    BY FS_Subset, AmountOfType
  <2>1. IsFiniteSet(T)
    BY FS_Subset
  <2>2. CASE part = T
    BY <2>0, <2>2
  <2>3. CASE part \subseteq T /\ part # T
    <3>1. PICK x \in T : x \notin part
      BY <2>3
    <3>2. IsFiniteSet(T \ {x}) /\ T \ {x} \in SUBSET T /\ T \ {x} # T
      BY <2>1, FS_RemoveElement
    <3>3. AmountOf(rows, T \ {x}) \in Nat /\ rows[x].amount \in Nat
      BY <3>2, AmountOfType
    <3>4. AmountOf(rows, T) = rows[x].amount + AmountOf(rows, T \ {x})
      BY <2>1, AmountOfLess
    <3>5. AmountOf(rows, part) <= AmountOf(rows, T \ {x})
      BY <1>1, <2>3, <3>1, <3>2
    <3>6. AmountOf(rows, part) <= AmountOf(rows, T)
      BY <2>0, <3>3, <3>4, <3>5
    <3> QED BY <3>6
  <2> QED BY <2>2, <2>3
<1> HIDE DEF Good
<1>2. ids \in Good
  BY <1>1, SetInduction
<1> QED BY <1>2 DEF Good

-----------------------------------------------------------------------------
(* How a request that captures, refunds or writes off can have got where   *)
(* it is: it began now, with the rows as they are, or goes on with what it *)
(* had.                                                                    *)

Refunding == {"refund", "reverse", "mark"}

SameWork(x) ==
    /\ txn'[x].p = txn[x].p
    /\ txn'[x].i = txn[x].i
    /\ txn'[x].id = txn[x].id
    /\ txn'[x].seen = txn[x].seen
    /\ txn'[x].amount = txn[x].amount

RequestMove(x) ==
    \/ txn'[x] = txn[x]
    \/ txn'[x].pc \notin Captures \cup Refunding \cup {"write_off"}
    \/ \E i \in Invoice : BeginWriteOff(x, i)
    \/ \E p, ref \in Payment, via \in {"client", "webhook"} : BeginVerify(x, p, ref, via)
    \/ \E p \in Payment : BeginOffline(x, p)
    \/ FetchConfirmed(x)
    \/ SameWork(x) /\ txn[x].pc = "credit" /\ txn'[x].pc = "number"
    \/ SameWork(x) /\ txn[x].pc = "number" /\ txn'[x].pc = "issue"
    \/ \E id \in RefundId : BeginApprove(x, id)
    \/ SameWork(x) /\ txn[x].pc = "refund" /\ txn'[x].pc = "reverse"
    \/ SameWork(x) /\ ReverseInvoice(x)

LEMMA RequestMoves ==
    ASSUME Typed, [Next]_vars, NEW x \in Session
    PROVE  RequestMove(x)
<1>1. txn \in [Session -> Transaction]
  BY DEF Typed, TypeOK
<1>2. CASE txn'[x] = txn[x]
  BY <1>2 DEF RequestMove
<1>3. ASSUME NEW s \in Session, s # x, NEW t, txn' = [txn EXCEPT ![s] = t]
      PROVE  RequestMove(x)
  BY <1>1, <1>2, <1>3
<1>4. CASE UNCHANGED vars
  BY <1>2, <1>4 DEF vars
<1>5. CASE \/ \E p \in Payment : \/ \E online \in BOOLEAN : CreateOrder(p, online)
                                 \/ CustomerPays(p)
                                 \/ WebhookAfterCapture(p)
                                 \/ ReconcileStep(p)
           \/ \E id \in RefundId : RequestRefund(id)
           \/ \E id \in NoteId : CreateNote(id) \/ RejectNote(id)
           \/ ReconcileScan
           \/ ReconcileStops
  BY <1>2, <1>5 DEF CreateOrder, CustomerPays, WebhookAfterCapture, ReconcileStep, RequestRefund,
                    CreateNote, RejectNote, ReconcileScan, ReconcileStops
<1>6. ASSUME NEW s \in Session,
             \/ \E p \in Payment : BeginOffline(s, p)
             \/ \E p, ref \in Payment, via \in {"client", "webhook"} : BeginVerify(s, p, ref, via)
             \/ \E id \in RefundId : BeginApprove(s, id)
             \/ \E id \in NoteId : BeginNote(s, id)
             \/ \E i \in Invoice : BeginWriteOff(s, i)
             \/ BeginCarry(s)
      PROVE  RequestMove(x)
  <2>1. CASE s # x
    BY <1>3, <1>6, <2>1 DEF BeginOffline, BeginVerify, BeginApprove, BeginNote, BeginWriteOff,
                            BeginCarry, Start
  <2>2. CASE s = x
    <3>1. CASE \/ \E p \in Payment : BeginOffline(s, p)
               \/ \E p, ref \in Payment, via \in {"client", "webhook"} : BeginVerify(s, p, ref, via)
               \/ \E id \in RefundId : BeginApprove(s, id)
               \/ \E i \in Invoice : BeginWriteOff(s, i)
      <4>1. CASE \E p \in Payment : BeginOffline(s, p)
        BY <2>2, <4>1, Zenon DEF RequestMove
      <4>2. CASE \E p, ref \in Payment, via \in {"client", "webhook"} : BeginVerify(s, p, ref, via)
        BY <2>2, <4>2, Zenon DEF RequestMove
      <4>3. CASE \E id \in RefundId : BeginApprove(s, id)
        BY <2>2, <4>3, Zenon DEF RequestMove
      <4>4. CASE \E i \in Invoice : BeginWriteOff(s, i)
        BY <2>2, <4>4, Zenon DEF RequestMove
      <4>5. QED BY <3>1, <4>1, <4>2, <4>3, <4>4
    <3>2. CASE \E id \in NoteId : BeginNote(s, id)
      BY <1>1, <2>2, <3>2 DEF RequestMove, BeginNote, Start, Idle, Captures, Refunding
    <3>3. CASE BeginCarry(s)
      BY <1>1, <2>2, <3>3 DEF RequestMove, BeginCarry, Start, Idle, Captures, Refunding
    <3>4. QED BY <1>6, <3>1, <3>2, <3>3
  <2>3. QED BY <2>1, <2>2
<1>7. ASSUME NEW s \in Session,
             \/ FetchConfirmed(s) \/ CreditInvoice(s) \/ TakeNumber(s)
             \/ RefundAtGateway(s) \/ RefundByHand(s) \/ ReverseInvoice(s) \/ BillOpening(s)
      PROVE  RequestMove(x)
  <2>1. CASE s # x
    BY <1>1, <1>2, <1>7, <2>1 DEF FetchConfirmed, CreditInvoice, TakeNumber, RefundAtGateway,
                                  RefundByHand, ReverseInvoice, BillOpening, Goto
  <2>2. CASE s = x
    <3>1. CASE FetchConfirmed(s)
      BY <2>2, <3>1 DEF RequestMove
    <3>2. CASE CreditInvoice(s)
      BY <1>1, <2>2, <3>2 DEF RequestMove, SameWork, CreditInvoice, Goto, Transaction
    <3>3. CASE TakeNumber(s)
      BY <1>1, <2>2, <3>3 DEF RequestMove, SameWork, TakeNumber, Transaction
    <3>4. CASE RefundAtGateway(s)
      BY <1>1, <2>2, <3>4 DEF RequestMove, SameWork, RefundAtGateway, Goto, Transaction
    <3>5. CASE RefundByHand(s)
      BY <1>1, <2>2, <3>5 DEF RequestMove, SameWork, RefundByHand, Goto, Transaction
    <3>6. CASE ReverseInvoice(s)
      <4>1. SameWork(x)
        BY <1>1, <2>2, <3>6 DEF SameWork, ReverseInvoice, Transaction
      <4>2. QED BY <2>2, <3>6, <4>1 DEF RequestMove
    <3>7. CASE BillOpening(s)
      BY <1>1, <2>2, <3>7 DEF RequestMove, BillOpening, Goto, Transaction, Captures, Refunding
    <3>8. QED BY <1>7, <3>1, <3>2, <3>3, <3>4, <3>5, <3>6, <3>7
  <2>3. QED BY <2>1, <2>2
<1>8. ASSUME NEW s \in Session,
             \/ FetchRefused(s) \/ CommitCapture(s) \/ CommitRefund(s) \/ CommitNote(s)
             \/ CommitWriteOff(s) \/ MarkCarried(s) \/ Abort(s) \/ RowRefused(s)
      PROVE  RequestMove(x)
  <2>1. Finish(s)
    BY <1>8 DEF FetchRefused, CommitCapture, CommitRefund, CommitNote, CommitWriteOff,
                MarkCarried, Abort, RowRefused
  <2>2. CASE s # x
    BY <1>3, <2>1, <2>2 DEF Finish
  <2>3. CASE s = x
    BY <1>1, <2>1, <2>3 DEF RequestMove, Finish, Idle, Captures, Refunding
  <2>4. QED BY <2>2, <2>3
<1>9. QED BY <1>4, <1>5, <1>6, <1>7, <1>8 DEF Next

(* What a request begins with.                                             *)
LEMMA Began ==
    ASSUME Typed, NEW x \in Session
    PROVE  /\ \A p, ref \in Payment, via \in {"client", "webhook"} : BeginVerify(x, p, ref, via) =>
                  /\ txn'[x].pc = "fetch" /\ txn'[x].i = For[p]
                  /\ txn'[x].amount = payment[p].amount /\ payment[p].status # "none"
                  /\ txn'[x].seen \in {invoice[For[p]], None}
                  /\ UNCHANGED <<invoice, payment, receipt, refund>>
           /\ \A p \in Payment : BeginOffline(x, p) =>
                  /\ txn'[x].pc = "number" /\ txn'[x].i = For[p]
                  /\ txn'[x].amount \in Amounts /\ txn'[x].seen = invoice[For[p]]
                  /\ UNCHANGED <<invoice, payment, receipt, refund>>
           /\ FetchConfirmed(x) =>
                  /\ txn[x].pc = "fetch" /\ txn'[x].pc = "credit"
                  /\ txn'[x].i = txn[x].i /\ txn'[x].amount = txn[x].amount
                  /\ txn'[x].seen = (IF txn[x].seen = None THEN invoice[txn[x].i] ELSE txn[x].seen)
                  /\ UNCHANGED <<invoice, payment, receipt, refund>>
           /\ \A i \in Invoice : BeginWriteOff(x, i) =>
                  txn'[x].pc = "write_off" /\ "write_off" \in Ops
           /\ \A id \in RefundId : BeginApprove(x, id) =>
                  /\ Ops \cap {"approve", "approve_auto"} # {}
                  /\ txn'[x].pc = "refund" /\ txn'[x].id = id /\ txn'[x].p = id[1]
                  /\ txn'[x].i = For[id[1]] /\ txn'[x].amount = refund[id].amount
                  /\ txn'[x].seen = invoice[For[id[1]]]
                  /\ refund[id].status = "requested"
                  /\ \A s \in Session : txn[s].id # id
                  /\ \A s \in Session : s # x => txn'[s] = txn[s]
                  /\ UNCHANGED <<invoice, payment, receipt, refund>>
           /\ ReverseInvoice(x) =>
                  /\ txn[x].pc = "reverse" /\ txn'[x].pc = "mark"
                  /\ InvoiceFree(txn[x].i)
                  /\ txn'[x].whole = RefundsCover(txn[x])
                  /\ \A s \in Session : s # x => txn'[s] = txn[s]
                  /\ UNCHANGED <<invoice, payment, receipt, refund>>
<1>1. txn \in [Session -> Transaction]
  BY DEF Typed, TypeOK
<1>2. ASSUME NEW p \in Payment, NEW ref \in Payment, NEW via \in {"client", "webhook"}, BeginVerify(x, p, ref, via)
      PROVE  /\ txn'[x].pc = "fetch" /\ txn'[x].i = For[p]
             /\ txn'[x].amount = payment[p].amount /\ payment[p].status # "none"
             /\ txn'[x].seen \in {invoice[For[p]], None}
             /\ UNCHANGED <<invoice, payment, receipt, refund>>
  BY <1>1, <1>2 DEF BeginVerify, Verifiable, Start, Idle, tables, books
<1>3. ASSUME NEW p \in Payment, BeginOffline(x, p)
      PROVE  /\ txn'[x].pc = "number" /\ txn'[x].i = For[p]
             /\ txn'[x].amount \in Amounts /\ txn'[x].seen = invoice[For[p]]
             /\ UNCHANGED <<invoice, payment, receipt, refund>>
  BY <1>1, <1>3 DEF BeginOffline, Start, Idle, tables, books
<1>4. ASSUME FetchConfirmed(x)
      PROVE  /\ txn[x].pc = "fetch" /\ txn'[x].pc = "credit"
             /\ txn'[x].i = txn[x].i /\ txn'[x].amount = txn[x].amount
             /\ txn'[x].seen = (IF txn[x].seen = None THEN invoice[txn[x].i] ELSE txn[x].seen)
             /\ UNCHANGED <<invoice, payment, receipt, refund>>
  BY <1>1, <1>4 DEF FetchConfirmed, Transaction, tables, books
<1>5. ASSUME NEW id \in RefundId, BeginApprove(x, id)
      PROVE  /\ Ops \cap {"approve", "approve_auto"} # {}
             /\ txn'[x].pc = "refund" /\ txn'[x].id = id /\ txn'[x].p = id[1]
             /\ txn'[x].i = For[id[1]] /\ txn'[x].amount = refund[id].amount
             /\ txn'[x].seen = invoice[For[id[1]]]
             /\ refund[id].status = "requested"
             /\ \A s \in Session : txn[s].id # id
             /\ \A s \in Session : s # x => txn'[s] = txn[s]
             /\ UNCHANGED <<invoice, payment, receipt, refund>>
  BY <1>1, <1>5 DEF BeginApprove, Untouched, Start, Idle, tables, books
<1>6. ASSUME ReverseInvoice(x)
      PROVE  /\ txn[x].pc = "reverse" /\ txn'[x].pc = "mark"
             /\ InvoiceFree(txn[x].i)
             /\ txn'[x].whole = RefundsCover(txn[x])
             /\ \A s \in Session : s # x => txn'[s] = txn[s]
             /\ UNCHANGED <<invoice, payment, receipt, refund>>
  <2>1. txn[x].pc = "reverse" /\ InvoiceFree(txn[x].i) /\ UNCHANGED tables
    BY <1>6 DEF ReverseInvoice
  <2>2. UNCHANGED <<invoice, payment, receipt, refund>>
    BY <2>1 DEF tables, books
  <2> DEFINE whole == RefundsCover(txn[x])
  <2>3. txn' = [txn EXCEPT ![x].pc = "mark", ![x].whole = whole]
    BY <1>6 DEF ReverseInvoice
  <2> HIDE DEF whole
  <2>4. /\ txn'[x].pc = "mark" /\ txn'[x].whole = whole
        /\ \A s \in Session : s # x => txn'[s] = txn[s]
    BY <1>1, <2>3 DEF Transaction
  <2>5. QED BY <2>1, <2>2, <2>4 DEF whole
<1>7. ASSUME NEW i \in Invoice, BeginWriteOff(x, i)
      PROVE  txn'[x].pc = "write_off" /\ "write_off" \in Ops
  BY <1>1, <1>7 DEF BeginWriteOff, Start, Idle
<1>8. QED BY <1>2, <1>3, <1>4, <1>5, <1>6, <1>7

-----------------------------------------------------------------------------
(* The rows of refunds and invoices, and who writes them.                  *)

LEMMA RefundWriters ==
    ASSUME [Next]_vars
    PROVE  \/ \E id \in RefundId : RequestRefund(id)
           \/ \E s \in Session : CommitCapture(s) \/ CommitRefund(s)
           \/ refund' = refund
<1>1. CASE UNCHANGED vars
  BY <1>1 DEF vars, tables
<1>2. CASE \/ \E p \in Payment : \/ \E online \in BOOLEAN : CreateOrder(p, online)
                                 \/ CustomerPays(p)
                                 \/ WebhookAfterCapture(p)
                                 \/ ReconcileStep(p)
           \/ \E id \in NoteId : CreateNote(id) \/ RejectNote(id)
           \/ ReconcileScan
           \/ ReconcileStops
  BY <1>2 DEF CreateOrder, CustomerPays, WebhookAfterCapture, ReconcileStep, CreateNote, RejectNote,
              ReconcileScan, ReconcileStops, tables
<1>3. ASSUME NEW s \in Session,
             \/ \E p \in Payment : BeginOffline(s, p)
             \/ \E p, ref \in Payment, via \in {"client", "webhook"} : BeginVerify(s, p, ref, via)
             \/ \E id \in RefundId : BeginApprove(s, id)
             \/ \E id \in NoteId : BeginNote(s, id)
             \/ \E i \in Invoice : BeginWriteOff(s, i)
             \/ BeginCarry(s)
      PROVE  refund' = refund
  BY <1>3, Zenon DEF BeginOffline, BeginVerify, BeginApprove, BeginNote, BeginWriteOff, BeginCarry,
                     tables
<1>4. ASSUME NEW s \in Session,
             \/ FetchConfirmed(s) \/ CreditInvoice(s) \/ TakeNumber(s)
             \/ RefundAtGateway(s) \/ RefundByHand(s) \/ ReverseInvoice(s)
      PROVE  refund' = refund
  BY <1>4 DEF FetchConfirmed, CreditInvoice, TakeNumber, RefundAtGateway, RefundByHand,
              ReverseInvoice, tables
<1>5. ASSUME NEW s \in Session,
             \/ FetchRefused(s) \/ CommitNote(s) \/ CommitWriteOff(s)
             \/ BillOpening(s) \/ MarkCarried(s) \/ Abort(s) \/ RowRefused(s)
      PROVE  refund' = refund
  BY <1>5 DEF FetchRefused, CommitNote, CommitWriteOff, BillOpening, MarkCarried, Abort, RowRefused, tables
<1>6. QED BY <1>1, <1>2, <1>3, <1>4, <1>5 DEF Next

(* A credit note and the carry-forward leave alone what counts as paid.    *)
LEMMA PaidWriters ==
    ASSUME Typed, [Next]_vars
    PROVE  \/ \E s \in Session : CommitCapture(s) \/ CommitRefund(s) \/ CommitWriteOff(s)
           \/ \A i \in Invoice : invoice'[i].paid = invoice[i].paid
<1>1. /\ invoice \in [Invoice -> InvoiceRow] /\ txn \in [Session -> Transaction]
      /\ \A s \in Session : RequestOK(txn[s])
  BY DEF Typed, TypeOK
<1>2. CASE UNCHANGED vars
  BY <1>2 DEF vars, tables, books
<1>3. CASE \/ \E p \in Payment : \/ \E online \in BOOLEAN : CreateOrder(p, online)
                                 \/ CustomerPays(p)
                                 \/ WebhookAfterCapture(p)
                                 \/ ReconcileStep(p)
           \/ \E id \in RefundId : RequestRefund(id)
           \/ \E id \in NoteId : CreateNote(id) \/ RejectNote(id)
           \/ ReconcileScan
           \/ ReconcileStops
  BY <1>3 DEF CreateOrder, CustomerPays, WebhookAfterCapture, ReconcileStep, RequestRefund,
              CreateNote, RejectNote, ReconcileScan, ReconcileStops, tables, books
<1>4. ASSUME NEW s \in Session,
             \/ \E p \in Payment : BeginOffline(s, p)
             \/ \E p, ref \in Payment, via \in {"client", "webhook"} : BeginVerify(s, p, ref, via)
             \/ \E id \in RefundId : BeginApprove(s, id)
             \/ \E id \in NoteId : BeginNote(s, id)
             \/ \E i \in Invoice : BeginWriteOff(s, i)
             \/ BeginCarry(s)
      PROVE  invoice' = invoice
  BY <1>4, Zenon DEF BeginOffline, BeginVerify, BeginApprove, BeginNote, BeginWriteOff, BeginCarry,
                     tables, books
<1>5. ASSUME NEW s \in Session,
             \/ FetchRefused(s) \/ FetchConfirmed(s) \/ CreditInvoice(s) \/ TakeNumber(s)
             \/ RefundAtGateway(s) \/ RefundByHand(s) \/ ReverseInvoice(s)
             \/ BillOpening(s) \/ Abort(s) \/ RowRefused(s)
      PROVE  invoice' = invoice
  BY <1>5 DEF FetchRefused, FetchConfirmed, CreditInvoice, TakeNumber, RefundAtGateway,
              RefundByHand, ReverseInvoice, BillOpening, Abort, RowRefused, tables, books
<1>6. ASSUME NEW s \in Session, CommitNote(s)
      PROVE  \A i \in Invoice : invoice'[i].paid = invoice[i].paid
  BY <1>1, <1>6 DEF CommitNote, SaveTotal, InvoiceRow
<1>7. ASSUME NEW s \in Session, MarkCarried(s)
      PROVE  \A i \in Invoice : invoice'[i].paid = invoice[i].paid
  BY <1>1, <1>7 DEF MarkCarried, InvoiceRow
<1>8. QED BY <1>2, <1>3, <1>4, <1>5, <1>6, <1>7 DEF Next

(* A payment has a receipt exactly when money came in for it, and what     *)
(* came in is positive; only such a payment is ever refunded.  What the    *)
(* gateway or the job is asked about was ordered before.                   *)
RowsOK ==
    /\ \A p \in Payment :
           /\ payment[p].status # "none" => payment[p].amount # 0
           /\ payment[p].status \in {"captured", "refunded"} => receipt[p] # 0
           /\ receipt[p] # 0 => payment[p].status \in {"captured", "refunded", "failed"}
    /\ \A id \in RefundId : refund[id].status # "none" => receipt[id[1]] # 0
    /\ \A s \in Session : txn[s].pc \in Captures => txn[s].amount # 0
    /\ \A s \in Session : txn[s].pc = "fetch" => payment[txn[s].p].status # "none"
    /\ \A p \in listing : payment[p].status # "none"

(* A request that approves a refund holds one that is still asked for,     *)
(* which no other request holds; the one that is about to commit has the   *)
(* invoice to itself, so its sum of the payment's refunds is still right.  *)
Holding(t) ==
    /\ t.p = t.id[1] /\ t.i = For[t.p]
    /\ refund[t.id].status = "requested" /\ refund[t.id].amount = t.amount

Approvals ==
    /\ \A s \in Session : txn[s].pc \in Refunding => Holding(txn[s])
    /\ \A s, x \in Session :
           s # x /\ txn[s].pc \in Refunding /\ txn[x].pc \in Refunding => txn[s].id # txn[x].id
    /\ \A s, x \in Session :
           s # x /\ txn[s].pc = "mark" /\ txn[x].pc = "mark" => txn[s].i # txn[x].i
    /\ \A s \in Session : txn[s].pc = "mark" => txn[s].whole = RefundsCover(txn[s])

Money == Typed /\ Numbered /\ Backed /\ RowsOK /\ Approvals

LEMMA RefundIdIs ==
    ASSUME NEW id \in RefundId
    PROVE  id[1] \in Payment
BY DEF RefundId

(* The three steps that write a refund.                                    *)
LEMMA RequestedRow ==
    ASSUME Money, NEW id \in RefundId, RequestRefund(id)
    PROVE  /\ refund[id].status = "none" /\ refund'[id].status = "requested"
           /\ refund'[id].amount \in Nat
           /\ \A q \in RefundId : q # id => refund'[q] = refund[q]
           /\ receipt[id[1]] # 0
           /\ Pledged(id[1]) + refund'[id].amount <= payment[id[1]].amount
           /\ UNCHANGED <<invoice, payment, receipt, txn>>
<1>1. refund \in [RefundId -> RefundRow]
  BY DEF Money, Typed, TypeOK
<1>2. PICK amount \in Amounts :
          /\ refund[id].status = "none"
          /\ payment[id[1]].status = "captured"
          /\ Pledged(id[1]) + amount <= payment[id[1]].amount
          /\ refund' = [refund EXCEPT ![id] = [status |-> "requested", amount |-> amount]]
          /\ UNCHANGED <<books, payment, receipt, counter, note, logged, opening,
                         gateway, repaid, txn, listing>>
  BY DEF RequestRefund
<1>3. refund'[id].status = "requested" /\ refund'[id].amount = amount
  BY <1>1, <1>2
<1>4. \A q \in RefundId : q # id => refund'[q] = refund[q]
  BY <1>1, <1>2
<1>5. receipt[id[1]] # 0
  BY <1>2, RefundIdIs DEF Money, RowsOK
<1>6. UNCHANGED <<invoice, payment, receipt, txn>>
  BY <1>2 DEF books
<1>7. Pledged(id[1]) + refund'[id].amount <= payment[id[1]].amount
  BY <1>2, <1>3, Zenon
<1>8. amount \in Nat
  BY ConstantsAssumption
<1>9. QED BY <1>2, <1>3, <1>4, <1>5, <1>6, <1>7, <1>8

LEMMA CapturedRows ==
    ASSUME Money, NEW s \in Session, CommitCapture(s)
    PROVE  LET t == txn[s] IN
           /\ t.p \in Payment /\ t.i = For[t.p] /\ t.pc = "issue" /\ t.seen \in InvoiceRow
           /\ t.amount \in Nat /\ t.amount # 0 /\ t \in Transaction
           /\ receipt[t.p] = 0 /\ receipt'[t.p] # 0
           /\ payment'[t.p].status = "captured" /\ payment'[t.p].amount = t.amount
           /\ \A q \in Payment : q # t.p => payment'[q] = payment[q] /\ receipt'[q] = receipt[q]
           /\ \A q \in RefundId : q # <<t.p, AutoRefund>> => refund'[q] = refund[q]
           /\ <<t.p, AutoRefund>> \in RefundId
           /\ Excess(t) = 0 => refund' = refund
           /\ Excess(t) # 0 => /\ refund'[<<t.p, AutoRefund>>].status = "requested"
                               /\ refund'[<<t.p, AutoRefund>>].amount = Excess(t)
           /\ txn'[s].pc = "idle" /\ \A x \in Session : x # s => txn'[x] = txn[x]
<1> DEFINE t == txn[s]
<1>1. /\ txn \in [Session -> Transaction] /\ \A x \in Session : RequestOK(txn[x])
      /\ receipt \in [Payment -> Nat] /\ counter \in Nat /\ payment \in [Payment -> PaymentRow]
      /\ refund \in [RefundId -> RefundRow]
  BY DEF Money, Typed, TypeOK
<1>2. t.pc = "issue" /\ Finish(s)
  BY DEF CommitCapture
<1>3. t.p \in Payment /\ t.i = For[t.p] /\ t.seen \in InvoiceRow
  BY <1>1, <1>2 DEF RequestOK, Captures
<1>4. t.amount \in Nat /\ t.amount # 0 /\ t \in Transaction
  BY <1>1, <1>2 DEF Transaction, Money, RowsOK, Captures
<1>5. receipt[t.p] = 0 /\ t.number # 0
  BY <1>1, <1>2 DEF Money, Numbered
<1>6. /\ receipt'[t.p] # 0
      /\ payment'[t.p].status = "captured" /\ payment'[t.p].amount = t.amount
      /\ \A q \in Payment : q # t.p => payment'[q] = payment[q] /\ receipt'[q] = receipt[q]
  BY <1>1, <1>3, <1>5 DEF CommitCapture
<1>7. <<t.p, AutoRefund>> \in RefundId
  BY <1>3 DEF RefundId
<1>8. refund' = [refund EXCEPT ![<<t.p, AutoRefund>>] =
           IF Excess(t) = 0 THEN @ ELSE [status |-> "requested", amount |-> Excess(t)]]
  BY DEF CommitCapture
<1>9. txn'[s].pc = "idle" /\ \A x \in Session : x # s => txn'[x] = txn[x]
  BY <1>1, <1>2 DEF Finish, Idle
<1> HIDE DEF t
<1>10. /\ \A q \in RefundId : q # <<t.p, AutoRefund>> => refund'[q] = refund[q]
       /\ Excess(t) = 0 => refund' = refund
       /\ Excess(t) # 0 => /\ refund'[<<t.p, AutoRefund>>].status = "requested"
                           /\ refund'[<<t.p, AutoRefund>>].amount = Excess(t)
  BY <1>1, <1>7, <1>8
<1>11. QED BY <1>2, <1>3, <1>4, <1>5, <1>6, <1>7, <1>9, <1>10 DEF t

LEMMA RefundedRows ==
    ASSUME Money, NEW s \in Session, CommitRefund(s)
    PROVE  LET t == txn[s] IN
           /\ t.pc = "mark" /\ t.p \in Payment /\ t.i = For[t.p] /\ t.seen \in InvoiceRow
           /\ t.id \in RefundId /\ t.p = t.id[1] /\ t.amount \in Nat
           /\ refund[t.id].status = "requested" /\ refund[t.id].amount = t.amount
           /\ refund'[t.id].status = "processed" /\ refund'[t.id].amount = t.amount
           /\ \A q \in RefundId : q # t.id => refund'[q] = refund[q]
           /\ receipt' = receipt
           /\ \A q \in Payment : payment'[q].amount = payment[q].amount
           /\ \A q \in Payment : q # t.p => payment'[q] = payment[q]
           /\ payment'[t.p].status = IF RefundsCover(t) THEN "refunded" ELSE payment[t.p].status
           /\ txn'[s].pc = "idle" /\ \A x \in Session : x # s => txn'[x] = txn[x]
<1> DEFINE t == txn[s]
<1>1. /\ txn \in [Session -> Transaction] /\ \A x \in Session : RequestOK(txn[x])
      /\ payment \in [Payment -> PaymentRow] /\ refund \in [RefundId -> RefundRow]
  BY DEF Money, Typed, TypeOK
<1>2. t.pc = "mark" /\ Finish(s) /\ receipt' = receipt
  BY DEF CommitRefund
<1>3. t.p \in Payment /\ t.id \in RefundId /\ t.seen \in InvoiceRow /\ t.amount \in Nat
  BY <1>1, <1>2 DEF RequestOK, Transaction
<1>4. /\ t.p = t.id[1] /\ t.i = For[t.p]
      /\ refund[t.id].status = "requested" /\ refund[t.id].amount = t.amount
  BY <1>2 DEF Money, Approvals, Holding, Refunding
<1>5. refund' = [refund EXCEPT ![t.id].status = "processed"]
  BY DEF CommitRefund
<1>6. payment' = [payment EXCEPT ![t.p].status = IF t.whole THEN "refunded" ELSE @]
  BY DEF CommitRefund
<1>7. t.whole = RefundsCover(t)
  BY <1>2 DEF Money, Approvals
<1>8. txn'[s].pc = "idle" /\ \A x \in Session : x # s => txn'[x] = txn[x]
  BY <1>1, <1>2 DEF Finish, Idle
<1> HIDE DEF t
<1>9. /\ refund'[t.id].status = "processed" /\ refund'[t.id].amount = t.amount
      /\ \A q \in RefundId : q # t.id => refund'[q] = refund[q]
  BY <1>1, <1>3, <1>4, <1>5 DEF RefundRow
<1>10. /\ \A q \in Payment : payment'[q].amount = payment[q].amount
       /\ \A q \in Payment : q # t.p => payment'[q] = payment[q]
       /\ payment'[t.p].status = IF t.whole THEN "refunded" ELSE payment[t.p].status
  BY <1>1, <1>3, <1>6 DEF PaymentRow
<1>11. payment'[t.p].status = IF RefundsCover(t) THEN "refunded" ELSE payment[t.p].status
  BY <1>7, <1>10, Zenon
<1>12. QED BY <1>2, <1>3, <1>4, <1>8, <1>9, <1>10, <1>11 DEF t

-----------------------------------------------------------------------------
(* Sums of refunds.                                                        *)

LEMMA RefundIdFinite == IsFiniteSet(RefundId)
<1>1. IsFiniteSet(Requests \cup {AutoRefund})
  BY ConstantsAssumption, FS_AddElement
<1>2. QED BY <1>1, ConstantsAssumption, FS_Product DEF RefundId

(* The refunds of a payment in a table of refunds, and what they come to.  *)
RowsOf(rows, p, statuses) == {id \in RefundId : id[1] = p /\ rows[id].status \in statuses}
SumOf(rows, p, statuses) == AmountOf(rows, RowsOf(rows, p, statuses))

LEMMA RefundsOfIs ==
    ASSUME NEW p, NEW statuses
    PROVE  /\ RefundsOf(p, statuses) = SumOf(refund, p, statuses)
           /\ RefundsOf(p, statuses)' = SumOf(refund', p, statuses)
BY DEF RefundsOf, RefundIds, SumOf, RowsOf

LEMMA RefundsCoverIs ==
    ASSUME NEW s
    PROVE  /\ RefundsCover(txn[s]) =
                  (SumOf(refund, txn[s].p, {"processed"}) + txn[s].amount >= payment[txn[s].p].amount)
           /\ RefundsCover(txn[s])' =
                  (SumOf(refund', txn'[s].p, {"processed"}) + txn'[s].amount
                       >= payment'[txn'[s].p].amount)
BY DEF RefundsCover, RefundsOf, RefundIds, SumOf, RowsOf

LEMMA SumOfType ==
    ASSUME NEW rows, \A id \in RefundId : rows[id].amount \in Nat, NEW p, NEW statuses
    PROVE  SumOf(rows, p, statuses) \in Nat
<1> DEFINE ids == RowsOf(rows, p, statuses)
<1>1. ids \subseteq RefundId
  BY DEF RowsOf
<1>2. IsFiniteSet(ids)
  BY <1>1, RefundIdFinite, FS_Subset
<1> HIDE DEF ids
<1>3. AmountOf(rows, ids) \in Nat
  BY <1>1, <1>2, AmountOfType
<1>4. QED BY <1>3 DEF ids, SumOf

(* The refunds of a payment go on adding up to the same while each of them *)
(* stays as it is, stays uncounted, or stays counted with its amount.      *)
LEMMA SumOfSame ==
    ASSUME NEW rows, NEW others, NEW p, NEW statuses,
           \A id \in RefundId : id[1] = p =>
               \/ others[id] = rows[id]
               \/ rows[id].status \notin statuses /\ others[id].status \notin statuses
               \/ /\ rows[id].status \in statuses /\ others[id].status \in statuses
                  /\ others[id].amount = rows[id].amount
    PROVE  SumOf(others, p, statuses) = SumOf(rows, p, statuses)
<1> DEFINE ids == RowsOf(rows, p, statuses)
<1>1. RowsOf(others, p, statuses) = ids
  BY DEF RowsOf
<1>2. \A id \in ids : others[id].amount = rows[id].amount
  BY DEF RowsOf
<1>3. IsFiniteSet(ids)
  BY RefundIdFinite, FS_Subset DEF RowsOf
<1> HIDE DEF ids
<1>4. AmountOf(others, ids) = AmountOf(rows, ids)
  BY <1>2, <1>3, AmountOfSame
<1>5. QED BY <1>1, <1>4, Zenon DEF ids, SumOf

(* One refund more counts with its amount.                                 *)
LEMMA SumOfMore ==
    ASSUME NEW rows, NEW others, NEW statuses, NEW id \in RefundId, NEW p, id[1] = p,
           \A q \in RefundId : others[q].amount \in Nat,
           \A q \in RefundId : q # id => others[q] = rows[q],
           rows[id].status \notin statuses, others[id].status \in statuses
    PROVE  SumOf(others, p, statuses) = SumOf(rows, p, statuses) + others[id].amount
<1> DEFINE ids == RowsOf(rows, p, statuses)
<1>1. RowsOf(others, p, statuses) = ids \cup {id}
  BY DEF RowsOf
<1>2. id \notin ids /\ ids \subseteq RefundId
  BY DEF RowsOf
<1>3. \A q \in ids : others[q].amount = rows[q].amount
  BY <1>2
<1> HIDE DEF ids
<1>4. IsFiniteSet(ids)
  BY <1>2, RefundIdFinite, FS_Subset
<1>5. AmountOf(others, ids) = AmountOf(rows, ids)
  BY <1>3, <1>4, AmountOfSame
<1>6. AmountOf(others, ids \cup {id}) = AmountOf(others, ids) + others[id].amount
  BY <1>2, <1>4, AmountOfMore
<1>7. SumOf(others, p, statuses) = AmountOf(others, ids \cup {id})
  BY <1>1, Zenon DEF SumOf
<1>8. SumOf(rows, p, statuses) = AmountOf(rows, ids)
  BY DEF ids, SumOf
<1>9. QED BY <1>5, <1>6, <1>7, <1>8, Zenon

(* A payment none of whose refunds has a counted status has none to sum.   *)
LEMMA SumOfNone ==
    ASSUME NEW rows, NEW p, NEW statuses,
           \A id \in RefundId : id[1] = p => rows[id].status \notin statuses
    PROVE  SumOf(rows, p, statuses) = 0
<1>1. RowsOf(rows, p, statuses) = {}
  BY DEF RowsOf
<1>2. AmountOf(rows, {}) = 0
  BY AmountOfFrom, FS_EmptySet
<1>3. QED BY <1>1, <1>2, Zenon DEF SumOf

(* Two statuses at once count no less than one of them.                    *)
LEMMA SumOfPart ==
    ASSUME NEW rows, \A id \in RefundId : rows[id].amount \in Nat, NEW p,
           NEW some, NEW statuses, some \subseteq statuses
    PROVE  SumOf(rows, p, some) <= SumOf(rows, p, statuses)
<1> DEFINE part == RowsOf(rows, p, some)
           ids  == RowsOf(rows, p, statuses)
<1>1. part \subseteq ids /\ ids \subseteq RefundId
  BY DEF RowsOf
<1>2. IsFiniteSet(ids)
  BY <1>1, RefundIdFinite, FS_Subset
<1> HIDE DEF part, ids
<1>3. AmountOf(rows, part) <= AmountOf(rows, ids)
  BY <1>1, <1>2, AmountOfPart
<1>4. QED BY <1>3 DEF part, ids, SumOf

-----------------------------------------------------------------------------
(* Receipts, payments and refunds stay in step.                            *)

LEMMA OrderedStays ==
    ASSUME Money, [Next]_vars, NEW q \in Payment, payment[q].status # "none"
    PROVE  payment'[q].status # "none"
<1>1. payment \in [Payment -> PaymentRow]
  BY DEF Money, Typed, TypeOK
<1>2. ASSUME NEW p \in Payment, NEW online \in BOOLEAN, CreateOrder(p, online)
      PROVE  payment'[q].status # "none"
  BY <1>1, <1>2 DEF CreateOrder
<1>3. ASSUME NEW p \in Payment, ReconcileStep(p)
      PROVE  payment'[q].status # "none"
  BY <1>1, <1>3 DEF ReconcileStep, PaymentRow
<1>4. ASSUME NEW s \in Session, FetchRefused(s)
      PROVE  payment'[q].status # "none"
  BY <1>1, <1>4 DEF FetchRefused, PaymentRow
<1>5. ASSUME NEW s \in Session, CommitCapture(s)
      PROVE  payment'[q].status # "none"
  BY <1>5, CapturedRows
<1>6. ASSUME NEW s \in Session, CommitRefund(s)
      PROVE  payment'[q].status # "none"
  BY <1>6, RefundedRows
<1>7. QED BY <1>2, <1>3, <1>4, <1>5, <1>6, PaymentWriters

LEMMA ListingWriters ==
    ASSUME [Next]_vars
    PROVE  ReconcileScan \/ listing' \subseteq listing
<1>1. CASE UNCHANGED vars
  BY <1>1 DEF vars
<1>2. CASE \/ \E p \in Payment : \/ \E online \in BOOLEAN : CreateOrder(p, online)
                                 \/ CustomerPays(p)
                                 \/ WebhookAfterCapture(p)
                                 \/ ReconcileStep(p)
           \/ \E id \in RefundId : RequestRefund(id)
           \/ \E id \in NoteId : CreateNote(id) \/ RejectNote(id)
           \/ ReconcileStops
  BY <1>2 DEF CreateOrder, CustomerPays, WebhookAfterCapture, ReconcileStep, RequestRefund,
              CreateNote, RejectNote, ReconcileStops
<1>3. ASSUME NEW s \in Session,
             \/ \E p \in Payment : BeginOffline(s, p)
             \/ \E p, ref \in Payment, via \in {"client", "webhook"} : BeginVerify(s, p, ref, via)
             \/ \E id \in RefundId : BeginApprove(s, id)
             \/ \E id \in NoteId : BeginNote(s, id)
             \/ \E i \in Invoice : BeginWriteOff(s, i)
             \/ BeginCarry(s)
      PROVE  listing' = listing
  BY <1>3, Zenon DEF BeginOffline, BeginVerify, BeginApprove, BeginNote, BeginWriteOff, BeginCarry
<1>4. ASSUME NEW s \in Session,
             \/ FetchRefused(s) \/ FetchConfirmed(s) \/ CreditInvoice(s) \/ TakeNumber(s)
             \/ CommitCapture(s) \/ RefundAtGateway(s) \/ RefundByHand(s) \/ ReverseInvoice(s)
      PROVE  listing' = listing
  BY <1>4 DEF FetchRefused, FetchConfirmed, CreditInvoice, TakeNumber, CommitCapture,
              RefundAtGateway, RefundByHand, ReverseInvoice
<1>5. ASSUME NEW s \in Session,
             \/ CommitRefund(s) \/ CommitNote(s) \/ CommitWriteOff(s) \/ BillOpening(s)
             \/ MarkCarried(s) \/ Abort(s) \/ RowRefused(s)
      PROVE  listing' = listing
  BY <1>5 DEF CommitRefund, CommitNote, CommitWriteOff, BillOpening, MarkCarried, Abort, RowRefused
<1>6. QED BY <1>1, <1>2, <1>3, <1>4, <1>5 DEF Next

(* A receipt and what was received with it are for good.                   *)
LEMMA IssuedStays ==
    ASSUME Money, [Next]_vars, NEW q \in Payment, receipt[q] # 0
    PROVE  /\ receipt'[q] = receipt[q]
           /\ payment'[q].amount = payment[q].amount
           /\ payment'[q].status \in {"captured", "refunded", "failed"}
<1>1. payment \in [Payment -> PaymentRow]
  BY DEF Money, Typed, TypeOK
<1>2. /\ payment[q].status \in {"captured", "refunded", "failed"}
      /\ payment[q].status # "none"
  BY DEF Money, RowsOK
<1>3. ASSUME NEW s \in Session, CommitCapture(s)
      PROVE  payment'[q] = payment[q] /\ receipt'[q] = receipt[q]
  BY <1>3, CapturedRows
<1>4. receipt'[q] = receipt[q]
  BY <1>3, ReceiptWriters DEF Money
<1>5. ASSUME NEW p \in Payment, NEW online \in BOOLEAN, CreateOrder(p, online)
      PROVE  payment'[q] = payment[q]
  BY <1>1, <1>2, <1>5 DEF CreateOrder
<1>6. ASSUME NEW p \in Payment, ReconcileStep(p)
      PROVE  /\ payment'[q].amount = payment[q].amount
             /\ payment'[q].status \in {"captured", "refunded", "failed"}
  BY <1>1, <1>2, <1>6 DEF ReconcileStep, PaymentRow
<1>7. ASSUME NEW s \in Session, FetchRefused(s)
      PROVE  /\ payment'[q].amount = payment[q].amount
             /\ payment'[q].status \in {"captured", "refunded", "failed"}
  BY <1>1, <1>2, <1>7 DEF FetchRefused, PaymentRow
<1>8. ASSUME NEW s \in Session, CommitRefund(s)
      PROVE  /\ payment'[q].amount = payment[q].amount
             /\ payment'[q].status \in {"captured", "refunded", "failed"}
  BY <1>2, <1>8, RefundedRows
<1>9. QED BY <1>2, <1>3, <1>4, <1>5, <1>6, <1>7, <1>8, PaymentWriters

LEMMA RowsOKInit == Init => RowsOK
BY DEF Init, RowsOK, Idle, Captures, RefundId

LEMMA RowsOKStep ==
    ASSUME Money, [Next]_vars
    PROVE  RowsOK'
<1>1. /\ payment \in [Payment -> PaymentRow] /\ receipt \in [Payment -> Nat]
      /\ listing \subseteq Payment /\ \A s \in Session : RequestOK(txn[s])
      /\ Typed
  BY DEF Money, Typed, TypeOK
<1>2. ASSUME NEW q \in Payment, payment'[q].status # "none"
      PROVE  payment'[q].amount # 0
  <2>1. ASSUME NEW p \in Payment, NEW online \in BOOLEAN, CreateOrder(p, online)
        PROVE  payment'[q].amount # 0
    BY <1>1, <1>2, <2>1, ConstantsAssumption DEF CreateOrder, Money, RowsOK
  <2>2. ASSUME NEW p \in Payment, ReconcileStep(p)
        PROVE  payment'[q].amount # 0
    BY <1>1, <1>2, <2>2 DEF ReconcileStep, PaymentRow, Money, RowsOK
  <2>3. ASSUME NEW s \in Session, FetchRefused(s)
        PROVE  payment'[q].amount # 0
    <3>1. payment[txn[s].p].status # "none"
      BY <2>3 DEF FetchRefused, Money, RowsOK
    <3>2. payment'[q].amount = payment[q].amount /\ payment[q].status # "none"
      BY <1>1, <1>2, <2>3, <3>1 DEF FetchRefused, PaymentRow
    <3>3. QED BY <3>2 DEF Money, RowsOK
  <2>4. ASSUME NEW s \in Session, CommitCapture(s)
        PROVE  payment'[q].amount # 0
    <3>1. /\ txn[s].amount # 0 /\ payment'[txn[s].p].amount = txn[s].amount
          /\ q # txn[s].p => payment'[q] = payment[q]
      BY <2>4, CapturedRows
    <3>2. payment[q].status # "none" => payment[q].amount # 0
      BY DEF Money, RowsOK
    <3>3. QED BY <1>2, <3>1, <3>2
  <2>5. ASSUME NEW s \in Session, CommitRefund(s)
        PROVE  payment'[q].amount # 0
    <3>1. receipt[txn[s].p] # 0
      <4>1. /\ txn[s].id \in RefundId /\ txn[s].p = txn[s].id[1]
            /\ refund[txn[s].id].status = "requested"
        BY <2>5, RefundedRows
      <4>2. QED BY <4>1 DEF Money, RowsOK
    <3>2. /\ payment'[q].amount = payment[q].amount
          /\ q # txn[s].p => payment'[q] = payment[q]
      BY <2>5, RefundedRows
    <3>3. payment[q].status # "none"
      BY <1>2, <3>1, <3>2 DEF Money, RowsOK
    <3>4. QED BY <3>2, <3>3 DEF Money, RowsOK
  <2>6. CASE payment' = payment
    BY <1>2, <2>6 DEF Money, RowsOK
  <2>7. QED BY <2>1, <2>2, <2>3, <2>4, <2>5, <2>6, PaymentWriters
<1>3. ASSUME NEW q \in Payment, payment'[q].status \in {"captured", "refunded"}
      PROVE  receipt'[q] # 0
  <2>1. CASE receipt[q] # 0
    BY <2>1, IssuedStays
  <2>2. ASSUME receipt[q] = 0, \A s \in Session : CommitCapture(s) => q # txn[s].p
        PROVE  payment[q].status \in {"captured", "refunded"}
    <3>1. ASSUME NEW p \in Payment, NEW online \in BOOLEAN, CreateOrder(p, online)
          PROVE  payment'[q] = payment[q]
      BY <1>1, <1>3, <3>1 DEF CreateOrder
    <3>2. ASSUME NEW p \in Payment, ReconcileStep(p)
          PROVE  payment'[q] = payment[q]
      BY <1>1, <1>3, <3>2 DEF ReconcileStep, PaymentRow
    <3>3. ASSUME NEW s \in Session, FetchRefused(s)
          PROVE  payment'[q] = payment[q]
      BY <1>1, <1>3, <3>3 DEF FetchRefused, PaymentRow
    <3>4. ASSUME NEW s \in Session, CommitRefund(s)
          PROVE  payment'[q] = payment[q]
      <4>1. /\ txn[s].id \in RefundId /\ txn[s].p = txn[s].id[1]
            /\ refund[txn[s].id].status = "requested"
            /\ q # txn[s].p => payment'[q] = payment[q]
        BY <3>4, RefundedRows
      <4>2. receipt[txn[s].p] # 0
        BY <4>1 DEF Money, RowsOK
      <4>3. QED BY <2>2, <4>1, <4>2
    <3>5. ASSUME NEW s \in Session, CommitCapture(s)
          PROVE  payment'[q] = payment[q]
      BY <2>2, <3>5, CapturedRows
    <3>6. QED BY <1>3, <3>1, <3>2, <3>3, <3>4, <3>5, PaymentWriters
  <2>3. ASSUME NEW s \in Session, CommitCapture(s), q = txn[s].p
        PROVE  receipt'[q] # 0
    BY <2>3, CapturedRows
  <2>4. QED BY <2>1, <2>2, <2>3 DEF Money, RowsOK
<1>4. ASSUME NEW q \in Payment, receipt'[q] # 0
      PROVE  payment'[q].status \in {"captured", "refunded", "failed"}
  <2>1. CASE receipt[q] # 0
    BY <2>1, IssuedStays
  <2>2. CASE receipt[q] = 0
    <3>1. PICK s \in Session : CommitCapture(s)
      BY <1>1, <1>4, <2>2, ReceiptWriters
    <3>2. q = txn[s].p
      BY <1>4, <2>2, <3>1, CapturedRows
    <3>3. QED BY <3>1, <3>2, CapturedRows
  <2>3. QED BY <1>1, <2>1, <2>2
<1>5. ASSUME NEW id \in RefundId, refund'[id].status # "none"
      PROVE  receipt'[id[1]] # 0
  <2>1. CASE receipt[id[1]] # 0
    BY <2>1, RefundIdIs, IssuedStays
  <2>2. CASE receipt[id[1]] = 0
    <3>1. refund[id].status = "none"
      BY <2>2 DEF Money, RowsOK
    <3>2. ASSUME NEW q \in RefundId, RequestRefund(q)
          PROVE  FALSE
      BY <1>5, <2>2, <3>1, <3>2, RequestedRow
    <3>3. ASSUME NEW s \in Session, CommitRefund(s)
          PROVE  FALSE
      BY <1>5, <3>1, <3>3, RefundedRows
    <3>4. PICK s \in Session : CommitCapture(s)
      BY <1>5, <3>1, <3>2, <3>3, RefundWriters
    <3>5. id = <<txn[s].p, AutoRefund>>
      BY <1>5, <3>1, <3>4, CapturedRows
    <3>6. QED BY <3>4, <3>5, CapturedRows
  <2>3. QED BY <2>1, <2>2
<1>6. ASSUME NEW x \in Session, txn'[x].pc \in Captures
      PROVE  txn'[x].amount # 0
  <2>1. RequestMove(x)
    BY <1>1, RequestMoves
  <2>2. CASE txn'[x] = txn[x] \/ (SameWork(x) /\ txn[x].pc \in Captures)
    BY <1>6, <2>2 DEF SameWork, Money, RowsOK
  <2>3. CASE \E p, ref \in Payment, via \in {"client", "webhook"} : BeginVerify(x, p, ref, via)
    BY <1>1, <2>3, Began DEF Money, RowsOK
  <2>4. CASE \E p \in Payment : BeginOffline(x, p)
    BY <1>1, <2>4, Began, ConstantsAssumption
  <2>5. CASE FetchConfirmed(x)
    BY <1>1, <2>5, Began DEF Money, RowsOK, Captures
  <2>6. CASE \E id \in RefundId : BeginApprove(x, id)
    BY <1>1, <1>6, <2>6, Began DEF Captures
  <2>7. CASE ReverseInvoice(x) \/ \E i \in Invoice : BeginWriteOff(x, i)
    BY <1>1, <1>6, <2>7, Began DEF Captures
  <2>8. QED BY <1>6, <2>1, <2>2, <2>3, <2>4, <2>5, <2>6, <2>7 DEF RequestMove, Captures
<1>7. ASSUME NEW x \in Session, txn'[x].pc = "fetch"
      PROVE  payment'[txn'[x].p].status # "none"
  <2>1. txn'[x] = txn[x] \/ \E p, ref \in Payment, via \in {"client", "webhook"} : BeginVerify(x, p, ref, via)
    <3>1. RequestMove(x)
      BY <1>1, RequestMoves
    <3>2. QED BY <1>1, <1>7, <3>1, Began DEF RequestMove, Captures
  <2>2. CASE txn'[x] = txn[x]
    <3>1. txn[x].p \in Payment /\ payment[txn[x].p].status # "none"
      BY <1>1, <1>7, <2>2 DEF RequestOK, Captures, Money, RowsOK
    <3>2. QED BY <2>2, <3>1, OrderedStays
  <2>3. CASE \E p, ref \in Payment, via \in {"client", "webhook"} : BeginVerify(x, p, ref, via)
    <3>1. PICK p \in Payment, ref \in Payment, via \in {"client", "webhook"} : BeginVerify(x, p, ref, via)
      BY <2>3
    <3>2. payment[p].status # "none" /\ payment' = payment
      BY <1>1, <3>1, Began
    <3>3. txn'[x].p = p
      <4>1. txn \in [Session -> Transaction]
        BY <1>1 DEF Typed, TypeOK
      <4>2. QED BY <3>1, <4>1 DEF BeginVerify, Start, Idle
    <3>4. QED BY <3>2, <3>3
  <2>4. QED BY <2>1, <2>2, <2>3
<1>8. ASSUME NEW p \in listing'
      PROVE  payment'[p].status # "none"
  <2>1. CASE ReconcileScan
    BY <1>8, <2>1 DEF ReconcileScan, tables
  <2>2. CASE listing' \subseteq listing
    BY <1>1, <1>8, <2>2, OrderedStays DEF Money, RowsOK
  <2>3. QED BY <2>1, <2>2, ListingWriters
<1>9. QED BY <1>2, <1>3, <1>4, <1>5, <1>6, <1>7, <1>8 DEF RowsOK

-----------------------------------------------------------------------------
(* Refunds: approvals exclude each other where they have to, so the sums   *)
(* they act on are right.                                                  *)

LEMMA RefundingMoves ==
    ASSUME Money, [Next]_vars, NEW x \in Session, txn'[x].pc \in Refunding
    PROVE  \/ /\ SameWork(x) /\ txn[x].pc \in Refunding
              /\ txn'[x].pc = "mark" => txn'[x] = txn[x] \/ ReverseInvoice(x)
           \/ \E id \in RefundId : BeginApprove(x, id)
<1>1. RequestMove(x) /\ Typed
  BY RequestMoves DEF Money
<1>2. CASE txn'[x] = txn[x]
  BY <1>2 DEF SameWork
<1>3. CASE \/ \E p, ref \in Payment, via \in {"client", "webhook"} : BeginVerify(x, p, ref, via)
           \/ \E p \in Payment : BeginOffline(x, p)
           \/ FetchConfirmed(x)
           \/ \E i \in Invoice : BeginWriteOff(x, i)
  BY <1>1, <1>3, Began DEF Refunding
<1>4. CASE SameWork(x) /\ ReverseInvoice(x)
  BY <1>1, <1>4, Began DEF Refunding
<1>5. QED BY <1>1, <1>2, <1>3, <1>4 DEF RequestMove, Captures, Refunding

(* Nobody writes the refund a request goes on holding.                     *)
LEMMA HeldStays ==
    ASSUME Money, [Next]_vars, NEW x \in Session,
           txn[x].pc \in Refunding, txn'[x].pc \in Refunding
    PROVE  refund'[txn[x].id] = refund[txn[x].id]
<1>1. /\ txn[x].id \in RefundId /\ refund[txn[x].id].status = "requested"
      /\ receipt[txn[x].id[1]] # 0
  <2>1. txn[x].id \in RefundId
    BY DEF Money, Typed, RequestOK, Refunding
  <2>2. refund[txn[x].id].status = "requested"
    BY DEF Money, Approvals, Holding
  <2>3. QED BY <2>1, <2>2 DEF Money, RowsOK
<1>2. ASSUME NEW id \in RefundId, RequestRefund(id)
      PROVE  refund'[txn[x].id] = refund[txn[x].id]
  BY <1>1, <1>2, RequestedRow
<1>3. ASSUME NEW s \in Session, CommitCapture(s)
      PROVE  refund'[txn[x].id] = refund[txn[x].id]
  <2>1. /\ receipt[txn[s].p] = 0
        /\ \A q \in RefundId : q # <<txn[s].p, AutoRefund>> => refund'[q] = refund[q]
    BY <1>3, CapturedRows
  <2>2. QED BY <1>1, <2>1
<1>4. ASSUME NEW s \in Session, CommitRefund(s)
      PROVE  refund'[txn[x].id] = refund[txn[x].id]
  <2>1. /\ txn[s].pc = "mark" /\ txn'[s].pc = "idle"
        /\ \A q \in RefundId : q # txn[s].id => refund'[q] = refund[q]
    BY <1>4, RefundedRows
  <2>2. s # x
    BY <2>1 DEF Refunding
  <2>3. txn[s].id # txn[x].id
    BY <2>1, <2>2 DEF Money, Approvals, Refunding
  <2>4. QED BY <1>1, <2>1, <2>3
<1>5. QED BY <1>2, <1>3, <1>4, RefundWriters

(* Nobody else adds to the refunds made of a payment while a request is    *)
(* about to commit one.                                                    *)
LEMMA MarkedSumStays ==
    ASSUME Money, [Next]_vars, NEW x \in Session,
           txn[x].pc = "mark", txn'[x].pc = "mark"
    PROVE  SumOf(refund', txn[x].p, {"processed"}) = SumOf(refund, txn[x].p, {"processed"})
<1> DEFINE p == txn[x].p
<1>1. /\ p \in Payment /\ txn[x].i = For[p] /\ receipt[p] # 0
  <2>1. txn[x].id \in RefundId /\ p \in Payment
    BY DEF Money, Typed, RequestOK
  <2>2. refund[txn[x].id].status = "requested" /\ p = txn[x].id[1] /\ txn[x].i = For[p]
    BY DEF Money, Approvals, Holding, Refunding
  <2>3. receipt[txn[x].id[1]] # 0
    BY <2>1, <2>2 DEF Money, RowsOK
  <2>4. QED BY <2>1, <2>2, <2>3
<1>2. ASSUME NEW id \in RefundId, RequestRefund(id), NEW q \in RefundId
      PROVE  \/ refund'[q] = refund[q]
             \/ refund[q].status \notin {"processed"} /\ refund'[q].status \notin {"processed"}
  BY <1>2, RequestedRow
<1>3. ASSUME NEW s \in Session, CommitCapture(s), NEW q \in RefundId, q[1] = p
      PROVE  refund'[q] = refund[q]
  <2>1. /\ receipt[txn[s].p] = 0
        /\ q # <<txn[s].p, AutoRefund>> => refund'[q] = refund[q]
    BY <1>3, CapturedRows
  <2>2. q # <<txn[s].p, AutoRefund>>
    BY <1>1, <1>3, <2>1
  <2>3. QED BY <2>1, <2>2
<1>4. ASSUME NEW s \in Session, CommitRefund(s), NEW q \in RefundId, q[1] = p
      PROVE  refund'[q] = refund[q]
  <2>1. /\ txn[s].pc = "mark" /\ txn'[s].pc = "idle"
        /\ txn[s].i = For[txn[s].p] /\ txn[s].p = txn[s].id[1]
        /\ q # txn[s].id => refund'[q] = refund[q]
    BY <1>4, RefundedRows
  <2>2. s # x
    BY <2>1
  <2>3. txn[s].i # txn[x].i
    BY <2>1, <2>2 DEF Money, Approvals
  <2>4. q # txn[s].id
    BY <1>1, <1>4, <2>1, <2>3
  <2>5. QED BY <2>1, <2>4
<1> HIDE DEF p
<1>5. ASSUME NEW q \in RefundId, q[1] = p
      PROVE  \/ refund'[q] = refund[q]
             \/ refund[q].status \notin {"processed"} /\ refund'[q].status \notin {"processed"}
  BY <1>2, <1>3, <1>4, <1>5, RefundWriters
<1>6. SumOf(refund', p, {"processed"}) = SumOf(refund, p, {"processed"})
  BY <1>5, SumOfSame
<1>7. QED BY <1>6 DEF p

LEMMA ApprovalsInit == Init => Approvals
BY DEF Init, Approvals, Idle, Refunding

LEMMA ApprovalsStep ==
    ASSUME Money, [Next]_vars
    PROVE  Approvals'
<1>1. Typed
  BY DEF Money
<1>2. ASSUME NEW x \in Session, txn'[x].pc \in Refunding
      PROVE  /\ txn'[x].p = txn'[x].id[1] /\ txn'[x].i = For[txn'[x].p]
             /\ refund'[txn'[x].id].status = "requested"
             /\ refund'[txn'[x].id].amount = txn'[x].amount
  <2>1. CASE SameWork(x) /\ txn[x].pc \in Refunding
    <3>1. /\ txn[x].p = txn[x].id[1] /\ txn[x].i = For[txn[x].p]
          /\ refund[txn[x].id].status = "requested"
          /\ refund[txn[x].id].amount = txn[x].amount
      BY <2>1 DEF Money, Approvals, Holding
    <3>2. refund'[txn[x].id] = refund[txn[x].id]
      BY <1>2, <2>1, HeldStays
    <3>3. QED BY <2>1, <3>1, <3>2 DEF SameWork
  <2>2. ASSUME NEW id \in RefundId, BeginApprove(x, id)
        PROVE  /\ txn'[x].p = txn'[x].id[1] /\ txn'[x].i = For[txn'[x].p]
               /\ refund'[txn'[x].id].status = "requested"
               /\ refund'[txn'[x].id].amount = txn'[x].amount
    BY <1>1, <2>2, Began
  <2>3. QED BY <1>2, <2>1, <2>2, RefundingMoves
<1>3. ASSUME NEW s \in Session, NEW x \in Session, s # x,
             txn'[s].pc \in Refunding, txn'[x].pc \in Refunding
      PROVE  txn'[s].id # txn'[x].id
  <2>1. ASSUME NEW u \in Session, NEW v \in Session, u # v,
               txn'[u].pc \in Refunding, NEW id \in RefundId, BeginApprove(v, id)
        PROVE  txn'[u].id # txn'[v].id
    BY <1>1, <2>1, Began
  <2>2. CASE SameWork(s) /\ txn[s].pc \in Refunding /\ SameWork(x) /\ txn[x].pc \in Refunding
    BY <1>3, <2>2 DEF SameWork, Money, Approvals
  <2>3. QED BY <1>3, <2>1, <2>2, RefundingMoves
<1>4. ASSUME NEW x \in Session, txn'[x].pc = "mark"
      PROVE  /\ SameWork(x) /\ txn[x].pc \in Refunding
             /\ \/ txn'[x] = txn[x]
                \/ ReverseInvoice(x)
  <2>1. ~\E id \in RefundId : BeginApprove(x, id)
    BY <1>1, <1>4, Began
  <2>2. QED BY <1>4, <2>1, RefundingMoves DEF Refunding
<1>5. ASSUME NEW s \in Session, NEW x \in Session, s # x,
             txn'[s].pc = "mark", txn'[x].pc = "mark"
      PROVE  txn'[s].i # txn'[x].i
  <2>1. ASSUME NEW u \in Session, NEW v \in Session, u # v,
               txn'[u].pc = "mark", ReverseInvoice(v)
        PROVE  txn'[u].i # txn[v].i
    <3>1. txn'[u] = txn[u] /\ InvoiceFree(txn[v].i)
      BY <1>1, <2>1, Began
    <3>2. QED BY <2>1, <3>1 DEF InvoiceFree, HoldsInvoice
  <2>2. txn'[s].i = txn[s].i /\ txn'[x].i = txn[x].i
    BY <1>4, <1>5 DEF SameWork
  <2>3. CASE txn'[s] = txn[s] /\ txn'[x] = txn[x]
    BY <1>5, <2>3 DEF Money, Approvals
  <2>4. CASE ReverseInvoice(x)
    BY <1>5, <2>1, <2>2, <2>4
  <2>5. CASE ReverseInvoice(s)
    BY <1>5, <2>1, <2>2, <2>5
  <2>6. QED BY <1>4, <1>5, <2>3, <2>4, <2>5
<1>6. ASSUME NEW x \in Session, txn'[x].pc = "mark"
      PROVE  txn'[x].whole = RefundsCover(txn[x])'
  <2> DEFINE p   == txn[x].p
             sum == SumOf(refund, p, {"processed"})
  <2>1. txn'[x].p = p /\ txn'[x].amount = txn[x].amount
    BY <1>4, <1>6 DEF SameWork
  <2>2. RefundsCover(txn[x])' =
            (SumOf(refund', p, {"processed"}) + txn[x].amount >= payment'[p].amount)
    BY <2>1, RefundsCoverIs
  <2>3. RefundsCover(txn[x]) = (sum + txn[x].amount >= payment[p].amount)
    BY RefundsCoverIs
  <2>4. CASE txn'[x] = txn[x]
    <3>1. txn[x].pc = "mark" /\ txn'[x].whole = RefundsCover(txn[x])
      BY <1>6, <2>4 DEF Money, Approvals
    <3>2. SumOf(refund', p, {"processed"}) = sum
      BY <1>6, <3>1, MarkedSumStays
    <3>3. p \in Payment /\ receipt[p] # 0
      <4>1. txn[x].id \in RefundId /\ p \in Payment
        BY <3>1 DEF Money, Typed, RequestOK
      <4>2. refund[txn[x].id].status = "requested" /\ p = txn[x].id[1]
        BY <3>1 DEF Money, Approvals, Holding, Refunding
      <4>3. receipt[txn[x].id[1]] # 0
        BY <4>1, <4>2 DEF Money, RowsOK
      <4>4. QED BY <4>1, <4>2, <4>3
    <3>4. payment'[p].amount = payment[p].amount
      BY <3>3, IssuedStays
    <3> HIDE DEF p, sum
    <3>5. QED BY <2>2, <2>3, <3>1, <3>2, <3>4, Zenon
  <2>5. CASE ReverseInvoice(x)
    <3>1. txn'[x].whole = RefundsCover(txn[x]) /\ UNCHANGED <<payment, refund>>
      BY <1>1, <2>5, Began
    <3> HIDE DEF p
    <3>2. QED BY <2>2, <2>3, <3>1, Zenon
  <2>6. QED BY <1>4, <1>6, <2>4, <2>5
<1>7. QED BY <1>2, <1>3, <1>5, <1>6 DEF Approvals, Holding

LEMMA MoneyInit == Init => Money
BY TypedInit, NumberedInit, BackedInit, RowsOKInit, ApprovalsInit DEF Money

LEMMA MoneyStep == Money /\ [Next]_vars => Money'
BY TypedStep, NumberedStep, BackedStep, RowsOKStep, ApprovalsStep DEF Money

-----------------------------------------------------------------------------
(* What the refunds of a payment come to.                                  *)

Asked == {"requested", "processed"}
Made  == {"processed"}

RefundsInBounds ==
    \A p \in Payment : SumOf(refund, p, Asked) <= payment[p].amount

RefundedRight ==
    \A p \in Payment : receipt[p] # 0 /\ payment[p].status # "failed" =>
        (payment[p].status = "refunded" <=> SumOf(refund, p, Made) = payment[p].amount)

LEMMA BoundsAre ==
    /\ RefundsWithinPayment <=> RefundsInBounds
    /\ RefundedIffCovered <=> RefundedRight
<1>1. RefundsWithinPayment <=> RefundsInBounds
  BY RefundsOfIs DEF RefundsWithinPayment, RefundsInBounds, Asked
<1>2. RefundedIffCovered <=> RefundedRight
  BY RefundsOfIs DEF RefundedIffCovered, RefundedRight, Made, Issued
<1>3. QED BY <1>1, <1>2

(* A payment without a receipt has no refunds.                             *)
LEMMA NoneRefunded ==
    ASSUME Money, NEW p \in Payment, receipt[p] = 0, NEW statuses, "none" \notin statuses
    PROVE  SumOf(refund, p, statuses) = 0
<1>1. \A id \in RefundId : id[1] = p => refund[id].status = "none"
  BY DEF Money, RowsOK
<1>2. QED BY <1>1, SumOfNone

LEMMA AmountsAre ==
    ASSUME Money
    PROVE  /\ \A id \in RefundId : refund[id].amount \in Nat
           /\ \A p \in Payment : payment[p].amount \in Nat
BY DEF Money, Typed, TypeOK, RefundRow, PaymentRow

(* What a step does to the refunds of a payment it does not touch.         *)
LEMMA OthersSum ==
    ASSUME NEW p, NEW statuses, \A id \in RefundId : id[1] = p => refund'[id] = refund[id]
    PROVE  SumOf(refund', p, statuses) = SumOf(refund, p, statuses)
BY SumOfSame

(* The capture of a payment asks for its excess back, and nothing else.    *)
LEMMA CapturedSum ==
    ASSUME Money, Money', NEW s \in Session, CommitCapture(s)
    PROVE  /\ SumOf(refund', txn[s].p, Asked) = Excess(txn[s])
           /\ SumOf(refund', txn[s].p, Made) = 0
           /\ Excess(txn[s]) <= txn[s].amount
<1> DEFINE p  == txn[s].p
           id == <<p, AutoRefund>>
           excess == Excess(txn[s])
<1>1. /\ p \in Payment /\ receipt[p] = 0 /\ id \in RefundId /\ id[1] = p
      /\ txn[s] \in Transaction /\ txn[s].seen \in InvoiceRow /\ txn[s].amount \in Nat
      /\ \A q \in RefundId : q # id => refund'[q] = refund[q]
      /\ excess = 0 => refund' = refund
      /\ excess # 0 => refund'[id].status = "requested" /\ refund'[id].amount = excess
  BY CapturedRows
<1>2. excess \in Nat /\ excess <= txn[s].amount
  <2>1. Applied(txn[s]) \in Nat /\ excess \in Nat
    BY <1>1, AppliedType
  <2>2. QED BY <1>1, <2>1 DEF Excess
<1>3. \A q \in RefundId : q[1] = p => refund[q].status = "none"
  BY <1>1 DEF Money, RowsOK
<1>4. SumOf(refund, p, Asked) = 0
  BY <1>1, NoneRefunded DEF Asked
<1>5. \A q \in RefundId : refund'[q].amount \in Nat
  <2>1. refund' \in [RefundId -> RefundRow]
    BY DEF Money, Typed, TypeOK
  <2>2. QED BY <2>1 DEF RefundRow
<1> HIDE DEF p, id, excess
<1>6. SumOf(refund', p, Asked) = excess
  <2>1. CASE excess = 0
    BY <1>1, <1>4, <2>1, Zenon
  <2>2. CASE excess # 0
    <3>1. refund[id].status \notin Asked /\ refund'[id].status \in Asked
      BY <1>1, <1>3, <2>2 DEF Asked
    <3>2. SumOf(refund', p, Asked) = SumOf(refund, p, Asked) + refund'[id].amount
      <4>1. /\ id \in RefundId /\ id[1] = p
            /\ \A q \in RefundId : q # id => refund'[q] = refund[q]
        BY <1>1
      <4>2. QED BY <1>5, <3>1, <4>1, SumOfMore
    <3>3. refund'[id].amount = excess
      BY <1>1, <2>2
    <3>4. QED BY <1>2, <1>4, <3>2, <3>3
  <2>3. QED BY <2>1, <2>2
<1>7. SumOf(refund', p, Made) = 0
  <2>1. \A q \in RefundId : q[1] = p => refund'[q].status \notin Made
    BY <1>1, <1>3 DEF Made
  <2>2. QED BY <2>1, SumOfNone
<1>8. QED BY <1>2, <1>6, <1>7 DEF p, excess

(* The commit of a refund counts it as made.                               *)
LEMMA RefundedSum ==
    ASSUME Money, Money', NEW s \in Session, CommitRefund(s)
    PROVE  /\ SumOf(refund', txn[s].p, Asked) = SumOf(refund, txn[s].p, Asked)
           /\ SumOf(refund', txn[s].p, Made) = SumOf(refund, txn[s].p, Made) + txn[s].amount
<1> DEFINE p  == txn[s].p
           id == txn[s].id
<1>1. /\ id \in RefundId /\ id[1] = p
      /\ refund[id].status = "requested" /\ refund[id].amount = txn[s].amount
      /\ refund'[id].status = "processed" /\ refund'[id].amount = txn[s].amount
      /\ \A q \in RefundId : q # id => refund'[q] = refund[q]
  BY RefundedRows
<1>2. \A q \in RefundId : refund'[q].amount \in Nat
  <2>1. refund' \in [RefundId -> RefundRow]
    BY DEF Money, Typed, TypeOK
  <2>2. QED BY <2>1 DEF RefundRow
<1> HIDE DEF p, id
<1>3. SumOf(refund', p, Asked) = SumOf(refund, p, Asked)
  <2>1. /\ refund[id].status \in Asked /\ refund'[id].status \in Asked
        /\ refund'[id].amount = refund[id].amount
    BY <1>1 DEF Asked
  <2>2. \A q \in RefundId : q[1] = p =>
            \/ refund'[q] = refund[q]
            \/ refund[q].status \notin Asked /\ refund'[q].status \notin Asked
            \/ /\ refund[q].status \in Asked /\ refund'[q].status \in Asked
               /\ refund'[q].amount = refund[q].amount
    BY <1>1, <2>1, Zenon
  <2>3. QED BY <2>2, SumOfSame
<1>4. SumOf(refund', p, Made) = SumOf(refund, p, Made) + refund'[id].amount
  <2>1. refund[id].status \notin Made /\ refund'[id].status \in Made
    BY <1>1 DEF Made
  <2>2. QED BY <1>1, <1>2, <2>1, SumOfMore
<1>5. QED BY <1>1, <1>3, <1>4 DEF p

LEMMA BoundsStep ==
    ASSUME Money, Money', RefundsInBounds, [Next]_vars
    PROVE  RefundsInBounds'
<1> SUFFICES ASSUME NEW p \in Payment
             PROVE  SumOf(refund', p, Asked) <= payment'[p].amount
  BY DEF RefundsInBounds, SumOf, RowsOf, Asked
<1>1. /\ \A q \in RefundId : refund'[q].amount \in Nat
      /\ payment'[p].amount \in Nat /\ payment[p].amount \in Nat
      /\ SumOf(refund, p, Asked) <= payment[p].amount
      /\ SumOf(refund, p, Asked) \in Nat
  <2>1. refund' \in [RefundId -> RefundRow] /\ payment' \in [Payment -> PaymentRow]
    BY DEF Money, Typed, TypeOK
  <2>2. \A q \in RefundId : refund[q].amount \in Nat
    BY AmountsAre
  <2>3. SumOf(refund, p, Asked) \in Nat
    BY <2>2, SumOfType
  <2>4. QED BY <2>1, <2>3, AmountsAre DEF RefundRow, PaymentRow, RefundsInBounds
<1>2. ASSUME SumOf(refund', p, Asked) = SumOf(refund, p, Asked),
             receipt[p] = 0 \/ payment'[p].amount = payment[p].amount
      PROVE  SumOf(refund', p, Asked) <= payment'[p].amount
  <2>1. CASE receipt[p] = 0
    <3>1. SumOf(refund, p, Asked) = 0
      BY <2>1, NoneRefunded DEF Asked
    <3>2. QED BY <1>1, <1>2, <3>1
  <2>2. CASE payment'[p].amount = payment[p].amount
    BY <1>1, <1>2, <2>2
  <2>3. QED BY <1>2, <2>1, <2>2
<1>3. receipt[p] = 0 \/ payment'[p].amount = payment[p].amount
  BY IssuedStays
<1>4. ASSUME NEW id \in RefundId, RequestRefund(id)
      PROVE  SumOf(refund', p, Asked) <= payment'[p].amount
  <2>1. /\ refund[id].status = "none" /\ refund'[id].status = "requested"
        /\ \A q \in RefundId : q # id => refund'[q] = refund[q]
        /\ Pledged(id[1]) + refund'[id].amount <= payment[id[1]].amount
        /\ payment' = payment
    BY <1>4, RequestedRow
  <2>2. CASE id[1] # p
    <3>1. SumOf(refund', p, Asked) = SumOf(refund, p, Asked)
      BY <2>1, <2>2, OthersSum
    <3>2. QED BY <1>2, <1>3, <3>1
  <2>3. CASE id[1] = p
    <3>1. SumOf(refund', p, Asked) = SumOf(refund, p, Asked) + refund'[id].amount
      <4>1. refund[id].status \notin Asked /\ refund'[id].status \in Asked
        BY <2>1 DEF Asked
      <4>2. /\ \A q \in RefundId : refund'[q].amount \in Nat
            /\ \A q \in RefundId : q # id => refund'[q] = refund[q]
        BY <1>1, <2>1
      <4>3. QED BY <2>3, <4>1, <4>2, SumOfMore
    <3>2. Pledged(p) = SumOf(refund, p, Asked)
      BY RefundsOfIs DEF Pledged, Asked
    <3>3. SumOf(refund, p, Asked) + refund'[id].amount <= payment[p].amount
      BY <2>1, <2>3, <3>2, Zenon
    <3>4. QED BY <2>1, <3>1, <3>3, Zenon
  <2>4. QED BY <2>2, <2>3
<1>5. ASSUME NEW s \in Session, CommitCapture(s)
      PROVE  SumOf(refund', p, Asked) <= payment'[p].amount
  <2>1. /\ payment'[txn[s].p].amount = txn[s].amount
        /\ \A q \in RefundId : q # <<txn[s].p, AutoRefund>> => refund'[q] = refund[q]
    BY <1>5, CapturedRows
  <2>2. CASE txn[s].p # p
    <3>1. \A q \in RefundId : q[1] = p => refund'[q] = refund[q]
      BY <2>1, <2>2
    <3>2. SumOf(refund', p, Asked) = SumOf(refund, p, Asked)
      BY <3>1, OthersSum
    <3>3. QED BY <1>2, <1>3, <3>2
  <2>3. CASE txn[s].p = p
    <3>1. SumOf(refund', txn[s].p, Asked) = Excess(txn[s]) /\ Excess(txn[s]) <= txn[s].amount
      BY <1>5, CapturedSum
    <3>2. QED BY <2>1, <2>3, <3>1, Zenon
  <2>4. QED BY <2>2, <2>3
<1>6. ASSUME NEW s \in Session, CommitRefund(s)
      PROVE  SumOf(refund', p, Asked) <= payment'[p].amount
  <2>1. /\ txn[s].p = txn[s].id[1]
        /\ \A q \in RefundId : q # txn[s].id => refund'[q] = refund[q]
    BY <1>6, RefundedRows
  <2>2. CASE txn[s].p # p
    <3>1. \A q \in RefundId : q[1] = p => refund'[q] = refund[q]
      BY <2>1, <2>2
    <3>2. SumOf(refund', p, Asked) = SumOf(refund, p, Asked)
      BY <3>1, OthersSum
    <3>3. QED BY <1>2, <1>3, <3>2
  <2>3. CASE txn[s].p = p
    <3>1. SumOf(refund', p, Asked) = SumOf(refund, p, Asked)
      BY <1>6, <2>3, RefundedSum, Zenon
    <3>2. QED BY <1>2, <1>3, <3>1
  <2>4. QED BY <2>2, <2>3
<1>7. CASE refund' = refund
  <2>1. SumOf(refund', p, Asked) = SumOf(refund, p, Asked)
    BY <1>7
  <2>2. QED BY <1>2, <1>3, <2>1
<1>8. QED BY <1>4, <1>5, <1>6, <1>7, RefundWriters

LEMMA RefundedStep ==
    ASSUME Money, Money', RefundsInBounds, RefundsInBounds', RefundedRight, [Next]_vars
    PROVE  RefundedRight'
<1> SUFFICES ASSUME NEW p \in Payment, receipt'[p] # 0, payment'[p].status # "failed"
             PROVE  payment'[p].status = "refunded"
                        <=> SumOf(refund', p, Made) = payment'[p].amount
  BY DEF RefundedRight, SumOf, RowsOf, Made
<1>1. ASSUME NEW s \in Session, CommitCapture(s), txn[s].p = p
      PROVE  payment'[p].status = "refunded" <=> SumOf(refund', p, Made) = payment'[p].amount
  <2>1. /\ payment'[p].status = "captured" /\ payment'[p].amount = txn[s].amount
        /\ txn[s].amount # 0
    BY <1>1, CapturedRows
  <2>2. SumOf(refund', p, Made) = 0
    BY <1>1, CapturedSum, Zenon
  <2>3. QED BY <2>1, <2>2
<1>2. ASSUME \A s \in Session : CommitCapture(s) => txn[s].p # p
      PROVE  receipt[p] # 0
  BY <1>2, ReceiptWriters, CapturedRows DEF Money
<1>3. ASSUME NEW s \in Session, CommitRefund(s), txn[s].p = p
      PROVE  payment'[p].status = "refunded" <=> SumOf(refund', p, Made) = payment'[p].amount
  <2> DEFINE made   == SumOf(refund, p, Made)
             amount == payment[p].amount
             more   == txn[s].amount
             after  == SumOf(refund', p, Made)
  <2>1. /\ payment'[p].status = IF RefundsCover(txn[s]) THEN "refunded" ELSE payment[p].status
        /\ payment'[p].amount = amount /\ more \in Nat /\ receipt' = receipt
    BY <1>3, RefundedRows
  <2>2. RefundsCover(txn[s]) = (made + more >= amount)
    <3>1. RefundsCover(txn[s]) =
              (SumOf(refund, txn[s].p, {"processed"}) + more >= payment[txn[s].p].amount)
      BY RefundsCoverIs
    <3>2. QED BY <1>3, <3>1, Zenon DEF Made
  <2>3. after = made + more
    BY <1>3, RefundedSum, Zenon
  <2>4. amount \in Nat /\ made \in Nat
    BY AmountsAre, SumOfType
  <2>5. after <= amount
    <3>1. \A q \in RefundId : refund'[q].amount \in Nat
      <4>1. refund' \in [RefundId -> RefundRow]
        BY DEF Money, Typed, TypeOK
      <4>2. QED BY <4>1 DEF RefundRow
    <3>2. after <= SumOf(refund', p, Asked)
      BY <3>1, SumOfPart DEF Made, Asked
    <3>3. SumOf(refund', p, Asked) <= amount
      <4>1. SumOf(refund', p, Asked) <= payment'[p].amount
        BY DEF RefundsInBounds, SumOf, RowsOf, Asked
      <4>2. QED BY <2>1, <4>1
    <3>4. SumOf(refund', p, Asked) \in Nat /\ after \in Nat
      BY <3>1, SumOfType
    <3> HIDE DEF after, amount
    <3>5. QED BY <2>4, <3>2, <3>3, <3>4
  <2>6. payment[p].status # "failed" => (payment[p].status = "refunded" <=> made = amount)
    BY <2>1 DEF RefundedRight
  <2> HIDE DEF made, amount, more, after
  <2>7. CASE made + more >= amount
    <3>1. payment'[p].status = "refunded"
      BY <2>1, <2>2, <2>7
    <3>2. after = amount
      BY <2>1, <2>3, <2>4, <2>5, <2>7
    <3>3. QED BY <2>1, <3>1, <3>2 DEF after
  <2>8. CASE ~(made + more >= amount)
    <3>1. payment'[p].status = payment[p].status
      BY <2>1, <2>2, <2>8
    <3>2. after # amount /\ made # amount
      BY <2>1, <2>3, <2>4, <2>8
    <3>3. QED BY <2>1, <2>6, <3>1, <3>2 DEF after
  <2>9. QED BY <2>7, <2>8
<1>4. ASSUME \A s \in Session : CommitCapture(s) => txn[s].p # p,
             \A s \in Session : CommitRefund(s) => txn[s].p # p
      PROVE  payment'[p].status = "refunded" <=> SumOf(refund', p, Made) = payment'[p].amount
  <2>1. receipt[p] # 0 /\ payment'[p].amount = payment[p].amount
    BY <1>2, <1>4, IssuedStays
  <2>2. payment'[p].status = payment[p].status
    <3>1. /\ payment \in [Payment -> PaymentRow]
          /\ payment[p].status \in {"captured", "refunded", "failed"}
      BY <2>1 DEF Money, Typed, TypeOK, RowsOK
    <3>2. ASSUME NEW q \in Payment, NEW online \in BOOLEAN, CreateOrder(q, online)
          PROVE  payment'[p] = payment[p]
      BY <3>1, <3>2 DEF CreateOrder
    <3>3. ASSUME NEW q \in Payment, ReconcileStep(q)
          PROVE  payment'[p] = payment[p]
      BY <3>1, <3>3 DEF ReconcileStep, PaymentRow
    <3>4. ASSUME NEW s \in Session, FetchRefused(s)
          PROVE  payment'[p] = payment[p]
      BY <3>1, <3>4 DEF FetchRefused, PaymentRow
    <3>5. ASSUME NEW s \in Session, CommitCapture(s)
          PROVE  payment'[p] = payment[p]
      BY <1>4, <3>5, CapturedRows
    <3>6. ASSUME NEW s \in Session, CommitRefund(s)
          PROVE  payment'[p] = payment[p]
      BY <1>4, <3>6, RefundedRows
    <3>7. QED BY <3>2, <3>3, <3>4, <3>5, <3>6, PaymentWriters
  <2>3. SumOf(refund', p, Made) = SumOf(refund, p, Made)
    <3>1. ASSUME NEW id \in RefundId, RequestRefund(id), NEW q \in RefundId
          PROVE  \/ refund'[q] = refund[q]
                 \/ refund[q].status \notin Made /\ refund'[q].status \notin Made
      BY <3>1, RequestedRow DEF Made
    <3>2. ASSUME NEW s \in Session, CommitCapture(s), NEW q \in RefundId, q[1] = p
          PROVE  refund'[q] = refund[q]
      <4>1. q # <<txn[s].p, AutoRefund>>
        BY <1>4, <3>2
      <4>2. QED BY <3>2, <4>1, CapturedRows
    <3>3. ASSUME NEW s \in Session, CommitRefund(s), NEW q \in RefundId, q[1] = p
          PROVE  refund'[q] = refund[q]
      <4>1. q # txn[s].id
        BY <1>4, <3>3, RefundedRows
      <4>2. QED BY <3>3, <4>1, RefundedRows
    <3>4. ASSUME NEW q \in RefundId, q[1] = p
          PROVE  \/ refund'[q] = refund[q]
                 \/ refund[q].status \notin Made /\ refund'[q].status \notin Made
      BY <3>1, <3>2, <3>3, <3>4, RefundWriters
    <3>5. QED BY <3>4, SumOfSame
  <2>4. payment[p].status # "failed" =>
            (payment[p].status = "refunded" <=> SumOf(refund, p, Made) = payment[p].amount)
    BY <2>1 DEF RefundedRight
  <2>5. QED BY <2>1, <2>2, <2>3, <2>4
<1>5. CASE \E s \in Session : CommitCapture(s) /\ txn[s].p = p
  BY <1>1, <1>5
<1>6. CASE \E s \in Session : CommitRefund(s) /\ txn[s].p = p
  BY <1>3, <1>6
<1>7. QED BY <1>4, <1>5, <1>6

LEMMA BoundsInit == Init => RefundsInBounds /\ RefundedRight
<1> SUFFICES ASSUME Init PROVE RefundsInBounds /\ RefundedRight
  OBVIOUS
<1>1. Money
  BY MoneyInit
<1>2. ASSUME NEW p \in Payment
      PROVE  receipt[p] = 0 /\ payment[p].amount = 0 /\ SumOf(refund, p, Asked) = 0
  BY <1>1, NoneRefunded DEF Init, Asked
<1>3. QED BY <1>2 DEF RefundsInBounds, RefundedRight

(* What is asked back or paid back of a payment, the excess that goes back *)
(* by itself included, never exceeds it, however many refunds are asked    *)
(* for and approved at once.                                               *)
THEOREM RefundsNeverExceedPayment == Spec => []RefundsWithinPayment
<1>1. RefundsInBounds => RefundsWithinPayment
  BY BoundsAre
<1>2. QED BY <1>1, MoneyInit, MoneyStep, BoundsInit, BoundsStep, PTL DEF Spec

(* A payment is marked refunded exactly when its refunds cover it: of two  *)
(* approvals that run at once, one sees the refund of the other.           *)
THEOREM RefundedExactlyWhenCovered == Spec => []RefundedIffCovered
<1>1. RefundedRight => RefundedIffCovered
  BY BoundsAre
<1>2. QED BY <1>1, MoneyInit, MoneyStep, BoundsInit, BoundsStep, RefundedStep, PTL DEF Spec

-----------------------------------------------------------------------------
(* What an invoice counts as paid, and what was received for it.  A        *)
(* request that is going to write an invoice may have read it long ago,    *)
(* but never more than was received by then, and what was received only    *)
(* grows.                                                                  *)

(* What the payments of i with a receipt come to, in a state of the        *)
(* tables.                                                                 *)
ReceivedIn(pay, rec, i) == AmountOf(pay, {p \in Payment : rec[p] # 0 /\ For[p] = i})

LEMMA ReceivedIs ==
    ASSUME NEW i
    PROVE  /\ Received(i) = ReceivedIn(payment, receipt, i)
           /\ Received(i)' = ReceivedIn(payment', receipt', i)
<1>1. IssuedFor(i) = {p \in Payment : receipt[p] # 0 /\ For[p] = i}
  BY DEF IssuedFor, Issued
<1>2. IssuedFor(i)' = {p \in Payment : receipt'[p] # 0 /\ For[p] = i}
  BY DEF IssuedFor, Issued
<1>3. Received(i) = AmountOf(payment, IssuedFor(i)) /\ Received(i)' = AmountOf(payment', IssuedFor(i)')
  BY DEF Received
<1>4. QED BY <1>1, <1>2, <1>3, Zenon DEF ReceivedIn

LEMMA ReceivedType ==
    ASSUME NEW pay, \A p \in Payment : pay[p].amount \in Nat, NEW rec, NEW i
    PROVE  ReceivedIn(pay, rec, i) \in Nat
<1> DEFINE ids == {p \in Payment : rec[p] # 0 /\ For[p] = i}
<1>1. IsFiniteSet(ids) /\ ids \subseteq Payment
  BY ConstantsAssumption, FS_Subset
<1> HIDE DEF ids
<1>2. AmountOf(pay, ids) \in Nat
  BY <1>1, AmountOfType
<1>3. QED BY <1>2 DEF ids, ReceivedIn

(* Only a capture adds to what was received, and it adds its payment.      *)
LEMMA ReceivedMoves ==
    ASSUME Money, Money', [Next]_vars, NEW i
    PROVE  /\ (\A s \in Session : CommitCapture(s) => txn[s].i # i) =>
                  ReceivedIn(payment', receipt', i) = ReceivedIn(payment, receipt, i)
           /\ \A s \in Session : CommitCapture(s) /\ txn[s].i = i =>
                  ReceivedIn(payment', receipt', i)
                      = ReceivedIn(payment, receipt, i) + txn[s].amount
<1> DEFINE ids  == {p \in Payment : receipt[p] # 0 /\ For[p] = i}
           after == {p \in Payment : receipt'[p] # 0 /\ For[p] = i}
<1>1. IsFiniteSet(ids) /\ ids \subseteq Payment
  BY ConstantsAssumption, FS_Subset
<1>2. \A p \in ids : payment'[p].amount = payment[p].amount
  BY IssuedStays
<1>3. \A p \in Payment : payment'[p].amount \in Nat
  <2>1. payment' \in [Payment -> PaymentRow]
    BY DEF Money, Typed, TypeOK
  <2>2. QED BY <2>1 DEF PaymentRow
<1>4. AmountOf(payment', ids) = AmountOf(payment, ids)
  <2> HIDE DEF ids
  <2>1. QED BY <1>1, <1>2, AmountOfSame
<1>5. ASSUME \A s \in Session : CommitCapture(s) => txn[s].i # i
      PROVE  ReceivedIn(payment', receipt', i) = ReceivedIn(payment, receipt, i)
  <2>1. ASSUME NEW p \in Payment, For[p] = i
        PROVE  receipt'[p] = receipt[p]
    <3>1. ASSUME NEW s \in Session, CommitCapture(s)
          PROVE  receipt'[p] = receipt[p]
      <4>1. p # txn[s].p
        BY <1>5, <2>1, <3>1, CapturedRows
      <4>2. QED BY <3>1, <4>1, CapturedRows
    <3>2. QED BY <3>1, ReceiptWriters DEF Money
  <2>2. after = ids
    BY <2>1
  <2> HIDE DEF ids, after
  <2>3. AmountOf(payment', after) = AmountOf(payment, ids)
    BY <1>4, <2>2, Zenon
  <2>4. QED BY <2>3 DEF ReceivedIn, ids, after
<1>6. ASSUME NEW s \in Session, CommitCapture(s), txn[s].i = i
      PROVE  ReceivedIn(payment', receipt', i) = ReceivedIn(payment, receipt, i) + txn[s].amount
  <2> DEFINE p == txn[s].p
  <2>1. /\ p \in Payment /\ For[p] = i /\ receipt[p] = 0 /\ receipt'[p] # 0
        /\ payment'[p].amount = txn[s].amount
        /\ \A q \in Payment : q # p => receipt'[q] = receipt[q]
    BY <1>6, CapturedRows
  <2>2. after = ids \cup {p} /\ p \notin ids
    BY <2>1
  <2> HIDE DEF ids, after, p
  <2>3. AmountOf(payment', ids \cup {p}) = AmountOf(payment', ids) + payment'[p].amount
    BY <1>1, <1>3, <2>1, <2>2, AmountOfMore
  <2>4. AmountOf(payment', after) = AmountOf(payment, ids) + txn[s].amount
    BY <1>4, <2>1, <2>2, <2>3, Zenon
  <2>5. QED BY <2>4 DEF ReceivedIn, ids, after
<1>7. QED BY <1>5, <1>6

LEMMA ReceivedGrows ==
    ASSUME Money, Money', [Next]_vars, NEW i
    PROVE  /\ ReceivedIn(payment, receipt, i) \in Nat
           /\ ReceivedIn(payment', receipt', i) \in Nat
           /\ ReceivedIn(payment', receipt', i) >= ReceivedIn(payment, receipt, i)
<1>1. ReceivedIn(payment, receipt, i) \in Nat /\ ReceivedIn(payment', receipt', i) \in Nat
  <2>1. payment' \in [Payment -> PaymentRow]
    BY DEF Money, Typed, TypeOK
  <2>2. \A p \in Payment : payment[p].amount \in Nat /\ payment'[p].amount \in Nat
    BY <2>1, AmountsAre DEF PaymentRow
  <2>3. QED BY <2>2, ReceivedType
<1>2. CASE \A s \in Session : CommitCapture(s) => txn[s].i # i
  BY <1>1, <1>2, ReceivedMoves
<1>3. ASSUME NEW s \in Session, CommitCapture(s), txn[s].i = i
      PROVE  ReceivedIn(payment', receipt', i) >= ReceivedIn(payment, receipt, i)
  <2>1. txn[s].amount \in Nat
    BY <1>3, CapturedRows
  <2>2. QED BY <1>1, <1>3, <2>1, ReceivedMoves
<1>4. QED BY <1>1, <1>2, <1>3

(* What the two commits that move money write.                             *)
LEMMA CapturedPaid ==
    ASSUME Money, NEW s \in Session, CommitCapture(s)
    PROVE  /\ txn[s].i \in Invoice
           /\ invoice'[txn[s].i].paid = IF Applied(txn[s]) = 0 THEN invoice[txn[s].i].paid
                                        ELSE txn[s].seen.paid + Applied(txn[s])
           /\ \A i \in Invoice : i # txn[s].i => invoice'[i] = invoice[i]
           /\ Applied(txn[s]) \in Nat /\ Applied(txn[s]) <= txn[s].amount
<1> DEFINE t == txn[s]
<1>1. /\ t \in Transaction /\ t.seen \in InvoiceRow /\ t.amount \in Nat
      /\ t.p \in Payment /\ t.i = For[t.p]
      /\ invoice \in [Invoice -> InvoiceRow]
  BY CapturedRows DEF Money, Typed, TypeOK
<1>2. t.i \in Invoice
  BY <1>1, ConstantsAssumption
<1>3. Applied(t) \in Nat /\ Applied(t) <= t.amount
  <2>1. Balance(t.seen) \in Nat
    BY <1>1, BalanceType
  <2>2. QED BY <1>1, <2>1, LeastType DEF Applied
<1>4. invoice' = [invoice EXCEPT ![t.i] = CreditedInvoice(t)]
  BY DEF CommitCapture
<1>5. CreditedInvoice(t) = IF Applied(t) = 0 THEN invoice[t.i]
                           ELSE SavePaid(invoice[t.i], Credit(t.seen, Applied(t)))
  BY DEF CreditedInvoice
<1> HIDE DEF t
<1>6. SavePaid(invoice[t.i], Credit(t.seen, Applied(t))).paid = t.seen.paid + Applied(t)
  <2> DEFINE applied == Applied(t)
             row     == invoice[t.i]
             seen    == t.seen
  <2>1. row \in InvoiceRow /\ seen \in InvoiceRow /\ applied \in Nat
    BY <1>1, <1>2, <1>3
  <2> HIDE DEF applied, row, seen
  <2>2. SavePaid(row, Credit(seen, applied)).paid = seen.paid + applied
    BY <2>1 DEF SavePaid, Credit, WithPaid, InvoiceRow
  <2>3. QED BY <2>2 DEF applied, row, seen
<1>7. invoice'[t.i].paid = CreditedInvoice(t).paid /\ \A i \in Invoice : i # t.i => invoice'[i] = invoice[i]
  BY <1>1, <1>2, <1>4
<1>8. invoice'[t.i].paid = IF Applied(t) = 0 THEN invoice[t.i].paid ELSE t.seen.paid + Applied(t)
  BY <1>5, <1>6, <1>7
<1>9. QED BY <1>2, <1>3, <1>7, <1>8 DEF t

LEMMA RefundedPaid ==
    ASSUME Money, NEW s \in Session, CommitRefund(s)
    PROVE  /\ txn[s].i \in Invoice
           /\ invoice'[txn[s].i].paid = Monus(txn[s].seen.paid, txn[s].amount)
           /\ \A i \in Invoice : i # txn[s].i => invoice'[i] = invoice[i]
<1> DEFINE t == txn[s]
<1>1. /\ t.seen \in InvoiceRow /\ t.amount \in Nat /\ t.p \in Payment /\ t.i = For[t.p]
      /\ invoice \in [Invoice -> InvoiceRow]
  BY RefundedRows DEF Money, Typed, TypeOK
<1>2. t.i \in Invoice
  BY <1>1, ConstantsAssumption
<1>3. invoice' = [invoice EXCEPT ![t.i] = SavePaid(@, Debit(t.seen, t.amount))]
  BY DEF CommitRefund
<1> HIDE DEF t
<1>4. SavePaid(invoice[t.i], Debit(t.seen, t.amount)).paid = Monus(t.seen.paid, t.amount)
  <2> DEFINE amount == t.amount
             row    == invoice[t.i]
             seen   == t.seen
  <2>1. row \in InvoiceRow /\ seen \in InvoiceRow /\ amount \in Nat
    BY <1>1, <1>2
  <2> HIDE DEF amount, row, seen
  <2>2. SavePaid(row, Debit(seen, amount)).paid = Monus(seen.paid, amount)
    BY <2>1 DEF SavePaid, Debit, WithPaid, InvoiceRow
  <2>3. QED BY <2>2 DEF amount, row, seen
<1>5. /\ invoice'[t.i] = SavePaid(invoice[t.i], Debit(t.seen, t.amount))
      /\ \A i \in Invoice : i # t.i => invoice'[i] = invoice[i]
  BY <1>1, <1>2, <1>3
<1>6. invoice'[t.i].paid = Monus(t.seen.paid, t.amount)
  BY <1>4, <1>5
<1>7. QED BY <1>2, <1>5, <1>6 DEF t

(* The requests that are going to write what counts as paid.               *)
Writes(t) == \/ t.pc \in {"credit", "number", "issue"} \cup Refunding
             \/ t.pc = "fetch" /\ t.seen # None

PaidInBounds ==
    /\ \A i \in Invoice : invoice[i].paid <= ReceivedIn(payment, receipt, i)
    /\ \A s \in Session : Writes(txn[s]) =>
           txn[s].seen.paid <= ReceivedIn(payment, receipt, txn[s].i)
    /\ \A s \in Session : txn[s].pc # "write_off"

LEMMA PaidInBoundsInit == Init => PaidInBounds
<1> SUFFICES ASSUME Init PROVE PaidInBounds
  OBVIOUS
<1>1. Money
  BY MoneyInit
<1>2. \A i \in Invoice : invoice[i].paid = 0
  BY DEF Init
<1>3. \A s \in Session : txn[s].pc = "idle"
  BY DEF Init, Idle
<1>4. \A i \in Invoice : ReceivedIn(payment, receipt, i) \in Nat
  BY <1>1, AmountsAre, ReceivedType
<1>5. QED BY <1>2, <1>3, <1>4 DEF PaidInBounds, Writes, Refunding

(* What a request read stays within what was received.                     *)
LEMMA SeenStep ==
    ASSUME Money, Money', PaidInBounds, [Next]_vars, NEW x \in Session, Writes(txn'[x])
    PROVE  txn'[x].seen.paid <= ReceivedIn(payment', receipt', txn'[x].i)
<1>1. /\ RequestMove(x) /\ Typed
      /\ \A s \in Session : RequestOK(txn[s]) /\ txn'[x] \in Transaction
      /\ invoice \in [Invoice -> InvoiceRow]
  <2>1. txn' \in [Session -> Transaction]
    BY DEF Money, Typed, TypeOK
  <2>2. QED BY <2>1, RequestMoves DEF Money, Typed, TypeOK
<1>2. ASSUME NEW i \in Invoice, NEW n \in Nat, n <= ReceivedIn(payment, receipt, i)
      PROVE  n <= ReceivedIn(payment', receipt', i)
  <2>1. /\ ReceivedIn(payment, receipt, i) \in Nat
        /\ ReceivedIn(payment', receipt', i) \in Nat
        /\ ReceivedIn(payment', receipt', i) >= ReceivedIn(payment, receipt, i)
    BY ReceivedGrows
  <2>2. QED BY <1>2, <2>1
<1>3. ASSUME NEW i \in Invoice
      PROVE  invoice[i].paid <= ReceivedIn(payment', receipt', i)
  <2>1. invoice[i].paid \in Nat
    BY <1>1 DEF InvoiceRow
  <2>2. QED BY <1>2, <2>1 DEF PaidInBounds
<1>4. ASSUME Writes(txn[x]), txn'[x].seen = txn[x].seen, txn'[x].i = txn[x].i
      PROVE  txn'[x].seen.paid <= ReceivedIn(payment', receipt', txn'[x].i)
  <2>1. txn[x].i \in Invoice
    BY <1>1, <1>4, ConstantsAssumption DEF Writes, Refunding, RequestOK, Captures
  <2>2. txn[x].seen.paid \in Nat
    <3>1. txn[x].seen \in InvoiceRow
      <4>1. txn[x] \in Transaction
        BY <1>1 DEF Typed, TypeOK
      <4>2. QED BY <1>1, <1>4, <4>1 DEF Writes, Refunding, RequestOK, Transaction
    <3>2. QED BY <3>1 DEF InvoiceRow
  <2>3. txn[x].seen.paid <= ReceivedIn(payment, receipt, txn[x].i)
    BY <1>4 DEF PaidInBounds
  <2>4. txn[x].seen.paid <= ReceivedIn(payment', receipt', txn[x].i)
    BY <1>2, <2>1, <2>2, <2>3
  <2>5. QED BY <1>4, <2>4
<1>5. CASE txn'[x] = txn[x]
  BY <1>4, <1>5
<1>6. CASE /\ SameWork(x)
           /\ txn[x].pc \in {"credit", "number", "refund", "reverse"}
  BY <1>4, <1>6 DEF SameWork, Writes, Refunding
<1>7. ASSUME NEW i \in Invoice, txn'[x].i = i, txn'[x].seen = invoice[i]
      PROVE  txn'[x].seen.paid <= ReceivedIn(payment', receipt', txn'[x].i)
  BY <1>3, <1>7
<1>8. CASE \E p, ref \in Payment, via \in {"client", "webhook"} : BeginVerify(x, p, ref, via)
  <2>1. PICK p \in Payment :
          /\ txn'[x].pc = "fetch" /\ txn'[x].i = For[p]
          /\ txn'[x].seen \in {invoice[For[p]], None}
    BY <1>1, <1>8, Began
  <2>2. txn'[x].seen = invoice[For[p]] /\ For[p] \in Invoice
    BY <2>1, ConstantsAssumption DEF Writes, Refunding
  <2>3. QED BY <1>7, <2>1, <2>2
<1>9. CASE \E p \in Payment : BeginOffline(x, p)
  <2>1. PICK p \in Payment : txn'[x].i = For[p] /\ txn'[x].seen = invoice[For[p]]
    BY <1>1, <1>9, Began
  <2>2. QED BY <1>7, <2>1, ConstantsAssumption
<1>10. CASE FetchConfirmed(x)
  <2>1. /\ txn[x].pc = "fetch" /\ txn'[x].i = txn[x].i
        /\ txn'[x].seen = (IF txn[x].seen = None THEN invoice[txn[x].i] ELSE txn[x].seen)
    BY <1>1, <1>10, Began
  <2>2. CASE txn[x].seen = None
    <3>1. txn[x].i \in Invoice
      BY <1>1, <2>1, ConstantsAssumption DEF RequestOK, Captures
    <3>2. QED BY <1>7, <2>1, <2>2, <3>1
  <2>3. CASE txn[x].seen # None
    BY <1>4, <2>1, <2>3 DEF Writes
  <2>4. QED BY <2>2, <2>3
<1>11. CASE \E id \in RefundId : BeginApprove(x, id)
  <2>1. PICK id \in RefundId : txn'[x].i = For[id[1]] /\ txn'[x].seen = invoice[For[id[1]]]
    BY <1>1, <1>11, Began
  <2>2. For[id[1]] \in Invoice
    BY RefundIdIs, ConstantsAssumption
  <2>3. QED BY <1>7, <2>1, <2>2
<1>12. CASE ReverseInvoice(x) /\ SameWork(x)
  BY <1>1, <1>6, <1>12, Began
<1>13. CASE \E i \in Invoice : BeginWriteOff(x, i)
  BY <1>1, <1>13, Began DEF Writes, Refunding
<1>14. CASE txn'[x].pc \notin Captures \cup Refunding \cup {"write_off"}
  BY <1>14 DEF Writes, Captures
<1>15. QED
  BY <1>1, <1>5, <1>6, <1>8, <1>9, <1>10, <1>11, <1>12, <1>13, <1>14 DEF RequestMove

LEMMA PaidInBoundsStep ==
    ASSUME "write_off" \notin Ops, Money, Money', PaidInBounds, [Next]_vars
    PROVE  PaidInBounds'
<1>1. Typed /\ invoice \in [Invoice -> InvoiceRow]
  BY DEF Money, Typed, TypeOK
<1>2. ASSUME NEW i \in Invoice
      PROVE  invoice'[i].paid <= ReceivedIn(payment', receipt', i)
  <2> DEFINE before == ReceivedIn(payment, receipt, i)
             after  == ReceivedIn(payment', receipt', i)
  <2>1. before \in Nat /\ after \in Nat /\ after >= before
    BY ReceivedGrows
  <2>2. invoice[i].paid \in Nat /\ invoice[i].paid <= before
    BY <1>1 DEF InvoiceRow, PaidInBounds
  <2>3. ASSUME NEW s \in Session, CommitCapture(s), txn[s].i = i
        PROVE  invoice'[i].paid <= after
    <3>1. /\ txn[s].pc = "issue" /\ txn[s].seen \in InvoiceRow /\ txn[s].amount \in Nat
      BY <2>3, CapturedRows
    <3>2. txn[s].seen.paid <= before /\ txn[s].seen.paid \in Nat
      BY <2>3, <3>1 DEF PaidInBounds, Writes, InvoiceRow
    <3>3. /\ invoice'[i].paid = IF Applied(txn[s]) = 0 THEN invoice[i].paid
                                ELSE txn[s].seen.paid + Applied(txn[s])
          /\ Applied(txn[s]) \in Nat /\ Applied(txn[s]) <= txn[s].amount
      BY <2>3, CapturedPaid
    <3>4. after = before + txn[s].amount
      BY <2>3, ReceivedMoves
    <3> HIDE DEF before, after
    <3>5. QED BY <2>1, <2>2, <3>1, <3>2, <3>3, <3>4
  <2>4. ASSUME NEW s \in Session, CommitRefund(s), txn[s].i = i
        PROVE  invoice'[i].paid <= after
    <3>1. txn[s].pc = "mark" /\ txn[s].seen \in InvoiceRow /\ txn[s].amount \in Nat
      BY <2>4, RefundedRows
    <3>2. txn[s].seen.paid <= before /\ txn[s].seen.paid \in Nat
      BY <2>4, <3>1 DEF PaidInBounds, Writes, Refunding, InvoiceRow
    <3>3. invoice'[i].paid = Monus(txn[s].seen.paid, txn[s].amount)
      BY <2>4, RefundedPaid
    <3>4. Monus(txn[s].seen.paid, txn[s].amount) <= txn[s].seen.paid
      BY <3>1, <3>2 DEF Monus
    <3>5. invoice'[i].paid \in Nat
      BY <3>1, <3>2, <3>3, MonusType
    <3> HIDE DEF before, after
    <3>6. QED BY <2>1, <3>2, <3>3, <3>4, <3>5
  <2>5. CASE invoice'[i].paid = invoice[i].paid
    BY <2>1, <2>2, <2>5
  <2>6. ASSUME NEW s \in Session, CommitWriteOff(s)
        PROVE  FALSE
    BY <2>6 DEF CommitWriteOff, PaidInBounds
  <2>7. ASSUME NEW s \in Session, CommitCapture(s) \/ CommitRefund(s), txn[s].i # i
        PROVE  invoice'[i].paid = invoice[i].paid
    BY <2>7, CapturedPaid, RefundedPaid
  <2>8. QED BY <1>1, <2>3, <2>4, <2>5, <2>6, <2>7, PaidWriters, Zenon
<1>3. ASSUME NEW x \in Session
      PROVE  txn'[x].pc # "write_off"
  <2>1. RequestMove(x)
    BY <1>1, RequestMoves
  <2>2. CASE txn'[x] = txn[x]
    BY <2>2 DEF PaidInBounds
  <2>3. ~\E i \in Invoice : BeginWriteOff(x, i)
    BY <1>1, Began
  <2>4. CASE \/ \E p, ref \in Payment, via \in {"client", "webhook"} : BeginVerify(x, p, ref, via)
             \/ \E p \in Payment : BeginOffline(x, p)
             \/ FetchConfirmed(x)
             \/ \E id \in RefundId : BeginApprove(x, id)
             \/ ReverseInvoice(x)
    BY <1>1, <2>4, Began
  <2>5. QED BY <2>1, <2>2, <2>3, <2>4 DEF RequestMove
<1>4. QED BY <1>2, <1>3, SeenStep DEF PaidInBounds, ReceivedIn

(* Requests that overlap may lose each other's credit of an invoice, but   *)
(* none makes it count more as paid than was received for it.  (A write-   *)
(* off counts an invoice as paid without any money; where the school never *)
(* writes off, this holds of every invoice.)                               *)
THEOREM PaidNeverExceedsReceipts ==
    ASSUME "write_off" \notin Ops
    PROVE  Spec => []PaidWithinReceipts
<1>1. PaidInBounds => PaidWithinReceipts
  BY ReceivedIs DEF PaidInBounds, PaidWithinReceipts
<1>2. Money /\ PaidInBounds /\ [Next]_vars /\ Money' => PaidInBounds'
  BY PaidInBoundsStep
<1>3. QED BY <1>1, <1>2, MoneyInit, MoneyStep, PaidInBoundsInit, PTL DEF Spec

NoRefunding == \A s \in Session : txn[s].pc \notin Refunding

LEMMA NoRefundingStep ==
    ASSUME Ops \cap {"approve", "approve_auto"} = {}, Money, NoRefunding, [Next]_vars
    PROVE  NoRefunding'
<1>1. \A x \in Session : ~\E id \in RefundId : BeginApprove(x, id)
  BY Began DEF Money
<1>2. QED BY <1>1, RefundingMoves DEF NoRefunding

(* Where money only comes in (no refunds are approved and nothing is       *)
(* written off), whatever the client calls, webhooks and counter requests  *)
(* do at once and however often they are repeated, an invoice gains only   *)
(* in the step that issues a receipt for it, and then counts no more as    *)
(* paid than its receipts come to.                                         *)
THEOREM CapturesCreditOnce ==
    ASSUME Ops \cap {"approve", "approve_auto", "write_off"} = {}
    PROVE  Spec => CreditedOnce
<1>1. Init => NoRefunding
  BY DEF Init, NoRefunding, Idle, Refunding
<1>2. Money /\ NoRefunding /\ [Next]_vars => NoRefunding'
  BY NoRefundingStep
<1>3. Money /\ PaidInBounds /\ [Next]_vars /\ Money' => PaidInBounds'
  BY PaidInBoundsStep
<1>4. Money /\ Money' /\ PaidInBounds /\ PaidInBounds' /\ NoRefunding /\ [Next]_vars =>
          [\A i \in Invoice : invoice'[i].paid > invoice[i].paid =>
              /\ \E p \in Payment : For[p] = i /\ receipt[p] = 0 /\ receipt'[p] # 0
              /\ invoice'[i].paid <= Received(i)']_vars
  <2> SUFFICES ASSUME Money, Money', PaidInBounds, PaidInBounds', NoRefunding, [Next]_vars,
                      NEW i \in Invoice, invoice'[i].paid > invoice[i].paid
               PROVE  /\ \E p \in Payment : For[p] = i /\ receipt[p] = 0 /\ receipt'[p] # 0
                      /\ invoice'[i].paid <= Received(i)'
    OBVIOUS
  <2>1. invoice'[i].paid <= Received(i)'
    <3>1. invoice'[i].paid <= ReceivedIn(payment', receipt', i)
      BY DEF PaidInBounds, ReceivedIn
    <3>2. QED BY <3>1, ReceivedIs
  <2>2. invoice'[i].paid # invoice[i].paid
    <3>1. invoice[i].paid \in Nat
      BY DEF Money, Typed, TypeOK, InvoiceRow
    <3>2. QED BY <3>1
  <2>3. \A s \in Session : ~CommitRefund(s) /\ ~CommitWriteOff(s)
    BY DEF CommitRefund, CommitWriteOff, NoRefunding, PaidInBounds, Refunding
  <2>4. PICK s \in Session : CommitCapture(s)
    BY <2>2, <2>3, PaidWriters DEF Money
  <2>5. txn[s].i = i
    BY <2>2, <2>4, CapturedPaid
  <2>6. QED BY <2>1, <2>4, <2>5, CapturedRows
<1>5. QED
  BY <1>1, <1>2, <1>3, <1>4, MoneyInit, MoneyStep, PaidInBoundsInit, PTL DEF Spec, CreditedOnce

-----------------------------------------------------------------------------
(* The installments of an invoice.  The loops that spread an amount over   *)
(* them are recursive functions; what they answer is proved by induction   *)
(* along the rows, which is induction over the subsets of their numbers.   *)

LEMMA Climb ==
    ASSUME NEW n \in Nat, NEW Good, 0 \in Good,
           \A k \in 1..n : k - 1 \in Good => k \in Good
    PROVE  \A k \in 0..n : k \in Good
<1> DEFINE Fine == {T \in SUBSET (1..n) : \A k \in 0..n : T = 1..k => k \in Good}
<1>1. ASSUME NEW T \in SUBSET (1..n), \A U \in SUBSET T : U # T => U \in Fine
      PROVE  T \in Fine
  <2> SUFFICES ASSUME NEW k \in 0..n, T = 1..k PROVE k \in Good
    OBVIOUS
  <2>1. CASE k = 0
    BY <2>1
  <2>2. CASE k # 0
    <3> DEFINE U == 1..(k - 1)
    <3>1. U \in SUBSET T
      BY <2>2
    <3>2. k \in T /\ k \notin U
      BY <2>2
    <3>3. U \in Fine
      <4> HIDE DEF Fine, U
      <4> QED BY <1>1, <3>1, <3>2
    <3>4. k - 1 \in 0..n /\ k \in 1..n
      BY <2>2
    <3>5. k - 1 \in Good
      BY <3>3, <3>4
    <3> QED BY <3>4, <3>5
  <2> QED BY <2>1, <2>2
<1>2. IsFiniteSet(1..n)
  BY FS_Interval
<1> HIDE DEF Fine
<1>3. ASSUME NEW k \in 0..n PROVE k \in Good
  <2> DEFINE S == 1..k
  <2>1. IsFiniteSet(S) /\ S \in SUBSET (1..n)
    BY FS_Interval
  <2>2. S \in Fine
    <3> HIDE DEF S
    <3>1. \A T \in SUBSET S : (\A U \in SUBSET T : U # T => U \in Fine) => T \in Fine
      BY <1>1, <2>1
    <3> QED BY <2>1, <3>1, SetInduction
  <2> QED BY <2>1, <2>2 DEF Fine
<1> QED BY <1>3

(* What remains after a row is worked out from what remained before it.    *)
IsLeft(left, room, amount, n) ==
    left = [k \in 0..n |-> IF k = 0 THEN amount ELSE Monus(left[k - 1], room[k])]

LEMMA LeftAt ==
    ASSUME NEW left, NEW room, NEW amount, NEW n \in Nat, IsLeft(left, room, amount, n)
    PROVE  /\ left[0] = amount
           /\ \A k \in 1..n : left[k] = Monus(left[k - 1], room[k])
<1> DEFINE value == [k \in 0..n |-> IF k = 0 THEN amount ELSE Monus(left[k - 1], room[k])]
<1>1. left = value
  BY DEF IsLeft
<1>2. value[0] = amount /\ \A k \in 1..n : value[k] = Monus(left[k - 1], room[k])
  BY SMT
<1> QED BY <1>1, <1>2, Zenon

LEMMA LeftExists ==
    ASSUME NEW room, NEW amount, NEW n \in Nat
    PROVE  \E left : IsLeft(left, room, amount, n)
<1> DEFINE Good == {k \in 0..n : \E left : IsLeft(left, room, amount, k)}
<1>1. 0 \in Good
  <2> DEFINE left == [k \in 0..0 |-> amount]
  <2>1. left = [k \in 0..0 |-> IF k = 0 THEN amount ELSE Monus(left[k - 1], room[k])]
    BY SMT
  <2> HIDE DEF left
  <2>2. IsLeft(left, room, amount, 0)
    BY <2>1 DEF IsLeft
  <2> QED BY <2>2
<1>2. ASSUME NEW k \in 1..n, k - 1 \in Good PROVE k \in Good
  <2>1. PICK before : IsLeft(before, room, amount, k - 1)
    BY <1>2
  <2> DEFINE left == [j \in 0..k |-> IF j = k THEN Monus(before[k - 1], room[k]) ELSE before[j]]
  <2>2. before[0] = amount /\ \A j \in 1..(k - 1) : before[j] = Monus(before[j - 1], room[j])
    BY <2>1, LeftAt
  <2>3. left = [j \in 0..k |-> left[j]]
    BY SMT
  <2>4. ASSUME NEW j \in 0..k
        PROVE  left[j] = IF j = 0 THEN amount ELSE Monus(left[j - 1], room[j])
    <3>1. CASE j = 0
      BY <2>2, <3>1
    <3>2. CASE j \in 1..(k - 1)
      <4>1. left[j] = before[j] /\ left[j - 1] = before[j - 1]
        BY <3>2
      <4> QED BY <2>2, <3>2, <4>1
    <3>3. CASE j = k
      <4>1. left[k] = Monus(before[k - 1], room[k]) /\ left[k - 1] = before[k - 1] /\ k # 0
        OBVIOUS
      <4> QED BY <3>3, <4>1, Zenon
    <3> QED BY <3>1, <3>2, <3>3
  <2> HIDE DEF left
  <2>5. IsLeft(left, room, amount, k)
    BY <2>3, <2>4 DEF IsLeft
  <2> QED BY <2>5
<1> HIDE DEF Good
<1>3. n \in Good
  BY <1>1, <1>2, Climb
<1> QED BY <1>3 DEF Good

LEMMA RemainingIs ==
    ASSUME NEW room, NEW amount, Len(room) \in Nat
    PROVE  /\ Remaining(room, amount)[0] = amount
           /\ \A k \in 1..Len(room) :
                  Remaining(room, amount)[k] = Monus(Remaining(room, amount)[k - 1], room[k])
<1> DEFINE n == Len(room)
<1>1. Remaining(room, amount) = CHOOSE left : IsLeft(left, room, amount, n)
  BY DEF Remaining, IsLeft
<1> HIDE DEF n
<1>2. n \in Nat
  BY DEF n
<1>3. IsLeft(Remaining(room, amount), room, amount, n)
  BY <1>1, <1>2, LeftExists, Zenon
<1> QED BY <1>2, <1>3, LeftAt DEF n

LEMMA RemainingType ==
    ASSUME NEW room \in Seq(Nat), NEW amount \in Nat
    PROVE  \A k \in 0..Len(room) : /\ Remaining(room, amount)[k] \in Nat
                                   /\ amount = 0 => Remaining(room, amount)[k] = 0
<1> DEFINE n == Len(room)
           left == Remaining(room, amount)
           Good == {k \in 0..n : left[k] \in Nat /\ (amount = 0 => left[k] = 0)}
<1>1. n \in Nat /\ \A k \in 1..n : room[k] \in Nat
  OBVIOUS
<1>2. left[0] = amount /\ \A k \in 1..n : left[k] = Monus(left[k - 1], room[k])
  BY <1>1, RemainingIs
<1> HIDE DEF n, left
<1>3. 0 \in Good
  BY <1>1, <1>2
<1>4. ASSUME NEW k \in 1..n, k - 1 \in Good PROVE k \in Good
  <2>1. left[k - 1] \in Nat /\ room[k] \in Nat
    BY <1>1, <1>4
  <2>2. left[k] \in Nat
    BY <1>2, <2>1, MonusType
  <2>3. amount = 0 => left[k] = 0
    BY <1>1, <1>2, <1>4 DEF Monus
  <2> QED BY <1>1, <2>2, <2>3
<1> HIDE DEF Good
<1>5. \A k \in 0..n : k \in Good
  BY <1>1, <1>3, <1>4, Climb
<1> QED BY <1>5 DEF Good, n, left

(* A row gets at most its room, and nothing where there is nothing to give.*)
LEMMA TakenType ==
    ASSUME NEW room \in Seq(Nat), NEW amount \in Nat
    PROVE  /\ Taken(room, amount) \in Seq(Nat)
           /\ Len(Taken(room, amount)) = Len(room)
           /\ \A k \in 1..Len(room) : /\ Taken(room, amount)[k] \in Nat
                                      /\ Taken(room, amount)[k] <= room[k]
                                      /\ amount = 0 => Taken(room, amount)[k] = 0
<1> DEFINE n == Len(room)
           got == [k \in 1..n |-> Least(Remaining(room, amount)[k - 1], room[k])]
<1>1. Taken(room, amount) = got
  BY DEF Taken
<1>2. n \in Nat /\ \A k \in 1..n : room[k] \in Nat
  OBVIOUS
<1>3. ASSUME NEW k \in 1..n
      PROVE  /\ got[k] \in Nat /\ got[k] <= room[k]
             /\ amount = 0 => got[k] = 0
  <2> DEFINE a == Remaining(room, amount)[k - 1]
  <2>1. k - 1 \in 0..n
    BY <1>2
  <2>2. a \in Nat /\ (amount = 0 => a = 0)
    BY <2>1, RemainingType
  <2>3. got[k] = Least(a, room[k])
    OBVIOUS
  <2> HIDE DEF a, got
  <2>4. room[k] \in Nat
    BY <1>2
  <2>5. Least(a, room[k]) \in Nat /\ Least(a, room[k]) <= room[k] /\ Least(a, room[k]) <= a
    BY <2>2, <2>4, LeastType
  <2> HIDE DEF n
  <2> QED BY <2>2, <2>3, <2>5
<1>4. got \in [1..n -> Nat]
  <2>1. \A k \in 1..n : Least(Remaining(room, amount)[k - 1], room[k]) \in Nat
    BY <1>3
  <2> QED BY <2>1
<1> HIDE DEF got
<1>5. got \in Seq(Nat) /\ Len(got) = n
  BY <1>2, <1>4
<1> QED BY <1>1, <1>3, <1>5

LEMMA NewestType ==
    ASSUME NEW room \in Seq(Nat), NEW amount \in Nat
    PROVE  \A k \in 1..Len(room) : /\ NewestFirst(room, amount)[k] \in Nat
                                   /\ NewestFirst(room, amount)[k] <= room[k]
                                   /\ amount = 0 => NewestFirst(room, amount)[k] = 0
<1> DEFINE n == Len(room)
           back == Reverse(room)
           got == Taken(back, amount)
<1>1. n \in Nat /\ \A k \in 1..n : room[k] \in Nat
  OBVIOUS
<1>2. back \in Seq(Nat) /\ Len(back) = n /\ \A k \in 1..n : back[k] = room[(n - k) + 1]
  <2>1. back = [k \in 1..n |-> room[(n - k) + 1]]
    BY DEF Reverse
  <2>2. \A k \in 1..n : (n - k) + 1 \in 1..n
    BY <1>1
  <2> HIDE DEF n, back
  <2>3. back \in [1..n -> Nat]
    BY <1>1, <2>1, <2>2
  <2> QED BY <1>1, <2>1, <2>3
<1>3. /\ got \in Seq(Nat) /\ Len(got) = n
      /\ \A k \in 1..n : got[k] \in Nat /\ got[k] <= back[k] /\ (amount = 0 => got[k] = 0)
  <2> HIDE DEF back, n
  <2> QED BY <1>2, TakenType
<1>4. NewestFirst(room, amount) = [k \in 1..n |-> got[(n - k) + 1]]
  <2>1. NewestFirst(room, amount) = [k \in 1..Len(got) |-> got[(Len(got) - k) + 1]]
    BY DEF NewestFirst, Reverse
  <2> HIDE DEF got, n
  <2> QED BY <1>3, <2>1
<1> HIDE DEF back, got, n
<1>5. ASSUME NEW k \in 1..n
      PROVE  /\ NewestFirst(room, amount)[k] \in Nat
             /\ NewestFirst(room, amount)[k] <= room[k]
             /\ amount = 0 => NewestFirst(room, amount)[k] = 0
  <2> DEFINE j == (n - k) + 1
  <2>1. j \in 1..n /\ (n - j) + 1 = k
    BY <1>1
  <2>2. NewestFirst(room, amount)[k] = got[j]
    BY <1>4
  <2>3. back[j] = room[k]
    BY <1>2, <2>1
  <2> HIDE DEF j
  <2> QED BY <1>3, <2>1, <2>2, <2>3
<1> QED BY <1>5 DEF n

(* An operation on the installments answers installments, and does nothing *)
(* where there is nothing to give.                                         *)
LEMMA RoomType ==
    ASSUME NEW rows \in Seq(RowMoney)
    PROVE  /\ [k \in DOMAIN rows |-> Creditable(rows[k])] \in Seq(Nat)
           /\ [k \in DOMAIN rows |-> rows[k].paid] \in Seq(Nat)
           /\ [k \in DOMAIN rows |-> Unpaid(rows[k])] \in Seq(Nat)
           /\ DOMAIN rows = 1..Len(rows) /\ Len(rows) \in Nat
<1>1. DOMAIN rows = 1..Len(rows) /\ Len(rows) \in Nat /\ \A k \in 1..Len(rows) : rows[k] \in RowMoney
  OBVIOUS
<1>2. ASSUME NEW k \in 1..Len(rows)
      PROVE  Creditable(rows[k]) \in Nat /\ rows[k].paid \in Nat /\ Unpaid(rows[k]) \in Nat
  <2>1. rows[k].amount \in Nat /\ rows[k].paid \in Nat
    BY <1>1 DEF RowMoney
  <2>2. Unpaid(rows[k]) \in Nat
    BY <2>1, MonusType DEF Unpaid
  <2> QED BY <2>1, <2>2 DEF Creditable
<1>3. ASSUME NEW room, room \in [1..Len(rows) -> Nat] PROVE room \in Seq(Nat)
  BY <1>1, <1>3
<1>4. /\ [k \in 1..Len(rows) |-> Creditable(rows[k])] \in [1..Len(rows) -> Nat]
      /\ [k \in 1..Len(rows) |-> rows[k].paid] \in [1..Len(rows) -> Nat]
      /\ [k \in 1..Len(rows) |-> Unpaid(rows[k])] \in [1..Len(rows) -> Nat]
  BY <1>2
<1> QED BY <1>1, <1>3, <1>4, Zenon

(* What each of the loops gives to a row.                                  *)
CreditGot(rows, amount) == Taken([k \in DOMAIN rows |-> Creditable(rows[k])], amount)
DebitGot(rows, amount)  == NewestFirst([k \in DOMAIN rows |-> rows[k].paid], amount)
CutGot(rows, amount)    == NewestFirst([k \in DOMAIN rows |-> Unpaid(rows[k])], amount)

LEMMA GotType ==
    ASSUME NEW rows \in Seq(RowMoney), NEW amount \in Nat, NEW k \in 1..Len(rows)
    PROVE  /\ CreditGot(rows, amount)[k] \in Nat
           /\ DebitGot(rows, amount)[k] \in Nat /\ DebitGot(rows, amount)[k] <= rows[k].paid
           /\ CutGot(rows, amount)[k] \in Nat /\ CutGot(rows, amount)[k] <= Unpaid(rows[k])
           /\ amount = 0 => CreditGot(rows, amount)[k] = 0 /\ CutGot(rows, amount)[k] = 0
<1> DEFINE credit == [j \in DOMAIN rows |-> Creditable(rows[j])]
           debit  == [j \in DOMAIN rows |-> rows[j].paid]
           cut    == [j \in DOMAIN rows |-> Unpaid(rows[j])]
<1>1. credit \in Seq(Nat) /\ debit \in Seq(Nat) /\ cut \in Seq(Nat)
  BY RoomType, Zenon
<1>2. DOMAIN rows = 1..Len(rows) /\ Len(rows) \in Nat
  BY RoomType
<1>3. Len(credit) = Len(rows) /\ Len(debit) = Len(rows) /\ Len(cut) = Len(rows)
  BY <1>1, <1>2
<1>4. debit[k] = rows[k].paid /\ cut[k] = Unpaid(rows[k])
  BY <1>2
<1>5. /\ CreditGot(rows, amount) = Taken(credit, amount)
      /\ DebitGot(rows, amount) = NewestFirst(debit, amount)
      /\ CutGot(rows, amount) = NewestFirst(cut, amount)
  BY DEF CreditGot, DebitGot, CutGot
<1> HIDE DEF credit, debit, cut
<1>6. k \in 1..Len(credit) /\ k \in 1..Len(debit) /\ k \in 1..Len(cut)
  BY <1>3, Zenon
<1>7. Taken(credit, amount)[k] \in Nat /\ (amount = 0 => Taken(credit, amount)[k] = 0)
  BY <1>1, <1>6, TakenType
<1>8. NewestFirst(debit, amount)[k] \in Nat /\ NewestFirst(debit, amount)[k] <= debit[k]
  BY <1>1, <1>6, NewestType
<1>9. /\ NewestFirst(cut, amount)[k] \in Nat /\ NewestFirst(cut, amount)[k] <= cut[k]
      /\ amount = 0 => NewestFirst(cut, amount)[k] = 0
  BY <1>1, <1>6, NewestType
<1> QED BY <1>4, <1>5, <1>7, <1>8, <1>9, Zenon

LEMMA RowWrites ==
    ASSUME NEW row \in RowMoney, NEW n \in Nat
    PROVE  /\ RowWithPaid(row, n) \in RowMoney
           /\ RowAfterRefund(row, n) \in RowMoney
           /\ RowWithAmount(row, n) \in RowMoney
           /\ RowWrittenOff(row) \in RowMoney
<1>1. row.amount \in Nat /\ row.paid \in Nat /\ "due" \in InvoiceStatus /\ "written_off" \in InvoiceStatus
  BY DEF RowMoney, InvoiceStatus
<1>2. StatusOf(row.amount, n) \in InvoiceStatus /\ StatusOf(n, row.paid) \in InvoiceStatus
  BY <1>1, StatusOfType
<1>3. RowWithPaid(row, n) \in RowMoney
  BY <1>1, <1>2 DEF RowWithPaid, RowMoney
<1>4. RowAfterRefund(row, n) \in RowMoney
  BY <1>1, <1>2 DEF RowAfterRefund, RowMoney
<1>5. RowWithAmount(row, n) \in RowMoney
  BY <1>1, <1>2 DEF RowWithAmount, RowMoney
<1>6. RowWrittenOff(row) \in RowMoney
  BY <1>1 DEF RowWrittenOff, RowMoney
<1> QED BY <1>3, <1>4, <1>5, <1>6

LEMMA SpreadType ==
    ASSUME NEW rows \in Seq(RowMoney), NEW amount \in Nat
    PROVE  /\ SpreadCredit(rows, amount) \in Seq(RowMoney)
           /\ SpreadDebit(rows, amount) \in Seq(RowMoney)
           /\ CutRows(rows, amount) \in Seq(RowMoney)
           /\ WriteOffRows(rows) \in Seq(RowMoney)
<1> DEFINE n == Len(rows)
           credit(k) == IF CreditGot(rows, amount)[k] = 0 THEN rows[k]
                        ELSE RowWithPaid(rows[k], rows[k].paid + CreditGot(rows, amount)[k])
           debit(k)  == IF DebitGot(rows, amount)[k] = 0 THEN rows[k]
                        ELSE RowAfterRefund(rows[k], rows[k].paid - DebitGot(rows, amount)[k])
           cut(k)    == IF CutGot(rows, amount)[k] = 0 THEN rows[k]
                        ELSE RowWithAmount(rows[k], rows[k].amount - CutGot(rows, amount)[k])
           off(k)    == IF rows[k].status = "paid" THEN rows[k] ELSE RowWrittenOff(rows[k])
<1>1. DOMAIN rows = 1..n /\ n \in Nat /\ \A k \in 1..n : rows[k] \in RowMoney
  OBVIOUS
<1>2. /\ SpreadCredit(rows, amount) = [k \in 1..n |-> credit(k)]
      /\ SpreadDebit(rows, amount) = [k \in 1..n |-> debit(k)]
      /\ CutRows(rows, amount) = [k \in 1..n |-> cut(k)]
      /\ WriteOffRows(rows) = [k \in 1..n |-> off(k)]
  BY <1>1, Zenon DEF SpreadCredit, SpreadDebit, CutRows, WriteOffRows, CreditGot, DebitGot, CutGot
<1>3. ASSUME NEW k \in 1..n
      PROVE  credit(k) \in RowMoney /\ debit(k) \in RowMoney /\ cut(k) \in RowMoney /\ off(k) \in RowMoney
  <2> DEFINE c == CreditGot(rows, amount)[k]
             d == DebitGot(rows, amount)[k]
             u == CutGot(rows, amount)[k]
             row == rows[k]
  <2>1. c \in Nat /\ d \in Nat /\ d <= row.paid /\ u \in Nat /\ u <= Unpaid(row)
    BY GotType
  <2>2. row \in RowMoney
    BY <1>1
  <2>3. /\ credit(k) = IF c = 0 THEN row ELSE RowWithPaid(row, row.paid + c)
        /\ debit(k) = IF d = 0 THEN row ELSE RowAfterRefund(row, row.paid - d)
        /\ cut(k) = IF u = 0 THEN row ELSE RowWithAmount(row, row.amount - u)
        /\ off(k) = IF row.status = "paid" THEN row ELSE RowWrittenOff(row)
    OBVIOUS
  <2> HIDE DEF c, d, u, row, credit, debit, cut, off
  <2>4. row.paid \in Nat /\ row.amount \in Nat
    BY <2>2 DEF RowMoney
  <2>5. row.paid + c \in Nat /\ row.paid - d \in Nat
    BY <2>1, <2>4
  <2>6. row.amount - u \in Nat
    <3>1. Unpaid(row) \in Nat /\ Unpaid(row) <= row.amount
      BY <2>4 DEF Unpaid, Monus
    <3>2. QED BY <2>1, <2>4, <3>1
  <2> QED BY <2>2, <2>3, <2>5, <2>6, RowWrites, Zenon
<1>4. ASSUME NEW f, f \in [1..n -> RowMoney] PROVE f \in Seq(RowMoney)
  BY <1>1, <1>4
<1> HIDE DEF credit, debit, cut, off, n
<1>5. /\ [k \in 1..n |-> credit(k)] \in [1..n -> RowMoney]
      /\ [k \in 1..n |-> debit(k)] \in [1..n -> RowMoney]
      /\ [k \in 1..n |-> cut(k)] \in [1..n -> RowMoney]
      /\ [k \in 1..n |-> off(k)] \in [1..n -> RowMoney]
  BY <1>3
<1> QED BY <1>2, <1>4, <1>5, Zenon

LEMMA SpreadNothing ==
    ASSUME NEW rows \in Seq(RowMoney)
    PROVE  SpreadCredit(rows, 0) = rows /\ CutRows(rows, 0) = rows
<1> DEFINE n == Len(rows)
<1>1. DOMAIN rows = 1..n /\ rows = [k \in 1..n |-> rows[k]]
  OBVIOUS
<1>2. \A k \in 1..n : CreditGot(rows, 0)[k] = 0 /\ CutGot(rows, 0)[k] = 0
  BY GotType
<1>3. /\ SpreadCredit(rows, 0) =
             [k \in 1..n |-> IF CreditGot(rows, 0)[k] = 0 THEN rows[k]
                        ELSE RowWithPaid(rows[k], rows[k].paid + CreditGot(rows, 0)[k])]
      /\ CutRows(rows, 0) =
             [k \in 1..n |-> IF CutGot(rows, 0)[k] = 0 THEN rows[k]
                        ELSE RowWithAmount(rows[k], rows[k].amount - CutGot(rows, 0)[k])]
  BY <1>1, Zenon DEF SpreadCredit, CutRows, CreditGot, CutGot
<1> HIDE DEF n
<1>4. SpreadCredit(rows, 0) = [k \in 1..n |-> rows[k]] /\ CutRows(rows, 0) = [k \in 1..n |-> rows[k]]
  BY <1>2, <1>3
<1> QED BY <1>1, <1>4, Zenon

-----------------------------------------------------------------------------
(* Sums by payment: refunds that stay within their payments stay, taken    *)
(* together, within the payments taken together.                           *)

LEMMA AmountOfNone == ASSUME NEW rows PROVE AmountOf(rows, {}) = 0
BY AmountOfFrom, FS_EmptySet

LEMMA AmountOfUnion ==
    ASSUME NEW rows, NEW A, NEW B, IsFiniteSet(A), IsFiniteSet(B), A \cap B = {},
           \A x \in A \cup B : rows[x].amount \in Nat
    PROVE  AmountOf(rows, A \cup B) = AmountOf(rows, A) + AmountOf(rows, B)
<1> DEFINE Good == {T \in SUBSET B : AmountOf(rows, A \cup T) = AmountOf(rows, A) + AmountOf(rows, T)}
<1>1. ASSUME NEW T \in SUBSET B, \A U \in SUBSET T : U # T => U \in Good
      PROVE  T \in Good
  <2>1. AmountOf(rows, A) \in Nat
    BY AmountOfType
  <2>2. CASE T = {}
    <3>1. A \cup T = A /\ AmountOf(rows, T) = 0
      BY <2>2, AmountOfNone
    <3>2. AmountOf(rows, A \cup T) = AmountOf(rows, A)
      BY <3>1, Zenon
    <3> QED BY <2>1, <3>1, <3>2
  <2>3. CASE T # {}
    <3>1. PICK x \in T : TRUE
      BY <2>3
    <3> DEFINE U == T \ {x}
               all == A \cup T
               rest == A \cup U
    <3>2. IsFiniteSet(T) /\ IsFiniteSet(U) /\ IsFiniteSet(all)
      BY FS_Subset, FS_Union
    <3>3. U \in SUBSET T /\ U # T /\ x \in all /\ all \ {x} = rest
      BY <3>1
    <3>4. AmountOf(rows, rest) = AmountOf(rows, A) + AmountOf(rows, U)
      BY <1>1, <3>3
    <3>5. AmountOf(rows, U) \in Nat /\ rows[x].amount \in Nat
      BY <3>2, AmountOfType
    <3>6. \A y \in all : rows[y].amount \in Nat
      OBVIOUS
    <3>7. AmountOf(rows, T) = rows[x].amount + AmountOf(rows, U)
      <4>1. \A y \in T : rows[y].amount \in Nat
        OBVIOUS
      <4> QED BY <3>2, <4>1, AmountOfLess
    <3> HIDE DEF all, rest, U
    <3>8. AmountOf(rows, all) = rows[x].amount + AmountOf(rows, all \ {x})
      BY <3>2, <3>3, <3>6, AmountOfLess
    <3>9. AmountOf(rows, all) = rows[x].amount + AmountOf(rows, rest)
      BY <3>3, <3>8, Zenon
    <3>10. AmountOf(rows, all) = AmountOf(rows, A) + AmountOf(rows, T)
      BY <2>1, <3>4, <3>5, <3>7, <3>9
    <3> QED BY <3>10 DEF all
  <2> QED BY <2>2, <2>3
<1> HIDE DEF Good
<1>2. B \in Good
  BY <1>1, SetInduction
<1> QED BY <1>2 DEF Good

(* Rows of no amount add nothing.                                          *)
LEMMA AmountOfZeros ==
    ASSUME NEW rows, NEW ids, IsFiniteSet(ids), \A x \in ids : rows[x].amount = 0
    PROVE  AmountOf(rows, ids) = 0
<1> DEFINE Good == {T \in SUBSET ids : AmountOf(rows, T) = 0}
<1>1. ASSUME NEW T \in SUBSET ids, \A U \in SUBSET T : U # T => U \in Good
      PROVE  T \in Good
  <2>1. IsFiniteSet(T)
    BY FS_Subset
  <2>2. CASE T = {}
    BY <2>2, AmountOfNone
  <2>3. CASE T # {}
    <3>1. Pick(T) \in T
      BY <2>3, PickIn
    <3>2. AmountOf(rows, T \ {Pick(T)}) = 0 /\ rows[Pick(T)].amount = 0
      BY <1>1, <3>1
    <3>3. AmountOf(rows, T) = rows[Pick(T)].amount + AmountOf(rows, T \ {Pick(T)})
      BY <2>1, <2>3, AmountOfFrom
    <3>4. AmountOf(rows, T) = 0
      BY <3>2, <3>3
    <3> QED BY <3>4
  <2> QED BY <2>2, <2>3
<1> HIDE DEF Good
<1>2. ids \in Good
  BY <1>1, SetInduction
<1> QED BY <1>2 DEF Good

(* The refunds among ids that are of the payments ps.                      *)
Over(ids, ps) == {id \in ids : id[1] \in ps}

LEMMA AmountsNest ==
    ASSUME NEW rows, NEW pay, NEW ids, IsFiniteSet(ids), NEW ps, IsFiniteSet(ps),
           \A id \in ids : rows[id].amount \in Nat /\ id[1] \in ps,
           \A p \in ps : pay[p].amount \in Nat,
           \A p \in ps : AmountOf(rows, Over(ids, {p})) <= pay[p].amount
    PROVE  AmountOf(rows, ids) <= AmountOf(pay, ps)
<1> DEFINE Good == {T \in SUBSET ps : AmountOf(rows, Over(ids, T)) <= AmountOf(pay, T)}
<1>1. ASSUME NEW T \in SUBSET ps, \A U \in SUBSET T : U # T => U \in Good
      PROVE  T \in Good
  <2>1. CASE T = {}
    <3>1. Over(ids, T) = {}
      BY <2>1 DEF Over
    <3>2. AmountOf(rows, Over(ids, T)) = 0 /\ AmountOf(pay, T) = 0
      BY <2>1, <3>1, AmountOfNone
    <3> QED BY <3>2
  <2>2. CASE T # {}
    <3>1. PICK p \in T : TRUE
      BY <2>2
    <3> DEFINE U == T \ {p}
               some == Over(ids, U)
               more == Over(ids, {p})
    <3>2. /\ IsFiniteSet(T) /\ IsFiniteSet(U) /\ U \in SUBSET T /\ U # T
          /\ p \in ps /\ pay[p].amount \in Nat
      BY <3>1, FS_Subset
    <3>3. /\ some \subseteq ids /\ more \subseteq ids /\ some \cap more = {}
          /\ Over(ids, T) = some \cup more
      BY <3>1 DEF Over
    <3>4. AmountOf(rows, some) <= AmountOf(pay, U)
      BY <1>1, <3>2
    <3>5. AmountOf(rows, more) <= pay[p].amount
      BY <3>2
    <3>6. AmountOf(pay, T) = pay[p].amount + AmountOf(pay, U)
      <4>1. \A q \in T : pay[q].amount \in Nat
        OBVIOUS
      <4> QED BY <3>2, <4>1, AmountOfLess
    <3>7. AmountOf(pay, U) \in Nat
      <4>1. \A q \in U : pay[q].amount \in Nat
        OBVIOUS
      <4> HIDE DEF U
      <4> QED BY <3>2, <4>1, AmountOfType
    <3> HIDE DEF U, some, more
    <3>8. IsFiniteSet(some) /\ IsFiniteSet(more)
      BY <3>3, FS_Subset
    <3>9. \A id \in some \cup more : rows[id].amount \in Nat
      BY <3>3
    <3>10. AmountOf(rows, some \cup more) = AmountOf(rows, some) + AmountOf(rows, more)
      BY <3>3, <3>8, <3>9, AmountOfUnion
    <3>11. AmountOf(rows, some) \in Nat /\ AmountOf(rows, more) \in Nat
      BY <3>8, <3>9, AmountOfType
    <3>12. AmountOf(rows, Over(ids, T)) = AmountOf(rows, some) + AmountOf(rows, more)
      BY <3>3, <3>10, Zenon
    <3>13. AmountOf(rows, Over(ids, T)) <= AmountOf(pay, T)
      BY <3>2, <3>4, <3>5, <3>6, <3>7, <3>11, <3>12
    <3> QED BY <3>13
  <2> QED BY <2>1, <2>2
<1> HIDE DEF Good
<1>2. ps \in Good
  BY <1>1, SetInduction
<1>3. Over(ids, ps) = ids
  BY DEF Over
<1>4. AmountOf(rows, Over(ids, ps)) <= AmountOf(pay, ps)
  BY <1>2 DEF Good
<1> QED BY <1>3, <1>4, Zenon

-----------------------------------------------------------------------------
(* What went back, or is to go back, of the money of an invoice without    *)
(* its share of the invoice: refunds made, and excess.                     *)
ReturnedIds(rows, i) == {id \in RefundId : /\ For[id[1]] = i
                                           /\ id[2] = AutoRefund \/ rows[id].status = "processed"}
ReturnedIn(rows, i) == AmountOf(rows, ReturnedIds(rows, i))

LEMMA KeptIs ==
    ASSUME NEW i
    PROVE  /\ Kept(i) = ReceivedIn(payment, receipt, i) - ReturnedIn(refund, i)
           /\ Kept(i)' = ReceivedIn(payment', receipt', i) - ReturnedIn(refund', i)
<1>1. Kept(i) = Received(i) - ReturnedIn(refund, i)
  BY DEF Kept, ReturnedIn, ReturnedIds
<1>2. Kept(i)' = Received(i)' - ReturnedIn(refund', i)
  BY DEF Kept, ReturnedIn, ReturnedIds
<1>3. QED BY <1>1, <1>2, ReceivedIs, Zenon

LEMMA ReturnedFinite ==
    ASSUME NEW rows, NEW i
    PROVE  IsFiniteSet(ReturnedIds(rows, i)) /\ ReturnedIds(rows, i) \subseteq RefundId
<1>1. ReturnedIds(rows, i) \subseteq RefundId
  BY DEF ReturnedIds
<1>2. QED BY <1>1, RefundIdFinite, FS_Subset

LEMMA ReturnedType ==
    ASSUME NEW rows, \A id \in RefundId : rows[id].amount \in Nat, NEW i
    PROVE  ReturnedIn(rows, i) \in Nat
<1>1. \A id \in ReturnedIds(rows, i) : rows[id].amount \in Nat
  BY ReturnedFinite
<1>2. AmountOf(rows, ReturnedIds(rows, i)) \in Nat
  BY <1>1, ReturnedFinite, AmountOfType
<1>3. QED BY <1>2 DEF ReturnedIn

LEMMA ReturnedSame ==
    ASSUME NEW rows, NEW others, NEW i,
           \A id \in RefundId : For[id[1]] = i =>
               \/ others[id] = rows[id]
               \/ /\ id[2] # AutoRefund
                  /\ rows[id].status # "processed" /\ others[id].status # "processed"
    PROVE  ReturnedIn(others, i) = ReturnedIn(rows, i)
<1> DEFINE ids == ReturnedIds(rows, i)
<1>1. ReturnedIds(others, i) = ids
  BY DEF ReturnedIds
<1>2. \A id \in ids : others[id].amount = rows[id].amount
  BY DEF ReturnedIds
<1>3. IsFiniteSet(ids)
  BY ReturnedFinite
<1> HIDE DEF ids
<1>4. AmountOf(others, ids) = AmountOf(rows, ids)
  BY <1>2, <1>3, AmountOfSame
<1>5. QED BY <1>1, <1>4, Zenon DEF ids, ReturnedIn

(* A refund that is made, or an excess that is set aside, adds its amount. *)
LEMMA ReturnedMore ==
    ASSUME NEW rows, NEW others, NEW id \in RefundId, NEW i, For[id[1]] = i,
           \A q \in RefundId : others[q].amount \in Nat,
           \A q \in RefundId : q # id => others[q] = rows[q],
           id[2] = AutoRefund => rows[id].amount = 0,
           id[2] # AutoRefund => rows[id].status # "processed" /\ others[id].status = "processed"
    PROVE  ReturnedIn(others, i) = ReturnedIn(rows, i) + others[id].amount
<1> DEFINE before == ReturnedIds(rows, i)
           after  == ReturnedIds(others, i)
           rest   == after \ {id}
<1>1. id \in after /\ IsFiniteSet(after) /\ after \subseteq RefundId
  <2>1. id \in after
    BY DEF ReturnedIds
  <2>2. IsFiniteSet(after) /\ after \subseteq RefundId
    BY ReturnedFinite
  <2>3. QED BY <2>1, <2>2
<1>2. rest = before \ {id}
  BY DEF ReturnedIds
<1>3. before \subseteq RefundId /\ IsFiniteSet(before)
  BY ReturnedFinite
<1>4. id[2] # AutoRefund => id \notin before
  BY DEF ReturnedIds
<1>5. id[2] = AutoRefund => id \in before
  BY DEF ReturnedIds
<1> HIDE DEF before, after
<1>6. IsFiniteSet(rest) /\ \A q \in rest : others[q] = rows[q]
  <2>1. IsFiniteSet(rest)
    BY <1>1, FS_Subset
  <2>2. QED BY <1>1, <2>1
<1>7. AmountOf(others, after) = others[id].amount + AmountOf(others, rest)
  <2>1. \A q \in after : others[q].amount \in Nat
    BY <1>1
  <2> HIDE DEF rest
  <2>2. QED BY <1>1, <2>1, AmountOfLess DEF rest
<1>8. AmountOf(others, rest) = AmountOf(rows, rest)
  <2>1. \A q \in rest : others[q].amount = rows[q].amount
    BY <1>6
  <2> HIDE DEF rest
  <2>2. QED BY <1>6, <2>1, AmountOfSame
<1>9. AmountOf(rows, before) = AmountOf(rows, rest)
  <2>1. CASE id[2] # AutoRefund
    <3>1. before = rest
      BY <1>2, <1>4, <2>1
    <3> HIDE DEF rest
    <3>2. QED BY <3>1, Zenon
  <2>2. CASE id[2] = AutoRefund
    <3>1. rows[id].amount = 0 /\ id \in before
      BY <1>5, <2>2
    <3>2. \A q \in before : rows[q].amount \in Nat
      <4>1. \A q \in before : q # id => rows[q] = others[q] /\ others[q].amount \in Nat
        BY <1>3
      <4>2. QED BY <3>1, <4>1
    <3>3. AmountOf(rows, before) = rows[id].amount + AmountOf(rows, before \ {id})
      BY <1>3, <3>1, <3>2, AmountOfLess
    <3>4. AmountOf(rows, rest) \in Nat
      <4>1. \A q \in rest : rows[q].amount \in Nat
        BY <1>2, <3>2
      <4> HIDE DEF rest
      <4>2. QED BY <1>6, <4>1, AmountOfType
    <3> HIDE DEF rest
    <3>5. AmountOf(rows, before) = rows[id].amount + AmountOf(rows, rest)
      BY <1>2, <3>3, Zenon
    <3>6. QED BY <3>1, <3>4, <3>5
  <2>3. QED BY <2>1, <2>2
<1>10. AmountOf(rows, rest) \in Nat
  <2>1. \A q \in rest : rows[q].amount \in Nat
    <3>1. \A q \in rest : others[q].amount \in Nat
      BY <1>1
    <3>2. QED BY <1>6, <3>1
  <2> HIDE DEF rest
  <2>2. QED BY <1>6, <2>1, AmountOfType
<1> HIDE DEF rest
<1>11. AmountOf(others, after) = AmountOf(rows, before) + others[id].amount
  BY <1>7, <1>8, <1>9, <1>10
<1>12. QED BY <1>11 DEF ReturnedIn, before, after

(* A row of Refund has an amount exactly when the refund was asked for.    *)
Blank == \A id \in RefundId : refund[id].status = "none" <=> refund[id].amount = 0

LEMMA BlankInit == Init => Blank
BY DEF Init, Blank

LEMMA BlankStep ==
    ASSUME Money, Blank, [Next]_vars
    PROVE  Blank'
<1>1. /\ refund \in [RefundId -> RefundRow] /\ Typed
  BY DEF Money, Typed, TypeOK
<1>2. ASSUME NEW id \in RefundId, RequestRefund(id)
      PROVE  Blank'
  <2>1. /\ refund'[id].status = "requested"
        /\ \A q \in RefundId : q # id => refund'[q] = refund[q]
    BY <1>2, RequestedRow
  <2>2. refund'[id].amount # 0
    <3>1. PICK amount \in Amounts :
              refund' = [refund EXCEPT ![id] = [status |-> "requested", amount |-> amount]]
      BY <1>2 DEF RequestRefund
    <3>2. amount # 0
      BY ConstantsAssumption
    <3>3. QED BY <1>1, <3>1, <3>2
  <2>3. \A q \in RefundId : refund'[q].status = "none" <=> refund'[q].amount = 0
    BY <2>1, <2>2 DEF Blank
  <2>4. QED BY <2>3 DEF Blank
<1>3. ASSUME NEW s \in Session, CommitCapture(s)
      PROVE  Blank'
  <2> DEFINE id == <<txn[s].p, AutoRefund>>
             excess == Excess(txn[s])
  <2>1. /\ id \in RefundId
        /\ \A q \in RefundId : q # id => refund'[q] = refund[q]
        /\ excess = 0 => refund' = refund
        /\ excess # 0 => refund'[id].status = "requested" /\ refund'[id].amount = excess
    BY <1>3, CapturedRows
  <2> HIDE DEF id, excess
  <2>2. CASE excess = 0
    BY <2>1, <2>2 DEF Blank
  <2>3. CASE excess # 0
    <3>1. \A q \in RefundId : refund'[q].status = "none" <=> refund'[q].amount = 0
      BY <2>1, <2>3 DEF Blank
    <3>2. QED BY <3>1 DEF Blank
  <2>4. QED BY <2>2, <2>3
<1>4. ASSUME NEW s \in Session, CommitRefund(s)
      PROVE  Blank'
  <2> DEFINE id == txn[s].id
             amount == txn[s].amount
  <2>1. /\ id \in RefundId
        /\ refund[id].status = "requested" /\ refund[id].amount = amount
        /\ refund'[id].status = "processed" /\ refund'[id].amount = amount
        /\ \A q \in RefundId : q # id => refund'[q] = refund[q]
    BY <1>4, RefundedRows
  <2> HIDE DEF id, amount
  <2>2. amount # 0
    BY <2>1 DEF Blank
  <2>3. \A q \in RefundId : refund'[q].status = "none" <=> refund'[q].amount = 0
    BY <2>1, <2>2 DEF Blank
  <2>4. QED BY <2>3 DEF Blank
<1>5. CASE refund' = refund
  BY <1>5 DEF Blank
<1>6. QED BY <1>2, <1>3, <1>4, <1>5, RefundWriters

(* What is asked for of the money of an invoice is still there.            *)
LEMMA ReturnedBound ==
    ASSUME Money, RefundsInBounds, Blank, NEW id \in RefundId,
           refund[id].status = "requested", id[2] # AutoRefund, NEW i, For[id[1]] = i
    PROVE  ReturnedIn(refund, i) + refund[id].amount <= ReceivedIn(payment, receipt, i)
<1> DEFINE ids   == {q \in RefundId : For[q[1]] = i /\ refund[q].status \in Asked}
           ps    == {p \in Payment : receipt[p] # 0 /\ For[p] = i}
           made  == ReturnedIds(refund, i)
           all   == made \cup {id}
           some  == {q \in all : refund[q].status \in Asked}
           blank == {q \in all : refund[q].status \notin Asked}
<1>1. /\ refund \in [RefundId -> RefundRow]
      /\ \A q \in RefundId : refund[q].amount \in Nat
      /\ \A p \in Payment : payment[p].amount \in Nat
  BY AmountsAre DEF Money, Typed, TypeOK
<1>2. ids \subseteq RefundId /\ IsFiniteSet(ids) /\ IsFiniteSet(ps) /\ ps \subseteq Payment
  BY RefundIdFinite, ConstantsAssumption, FS_Subset
<1>3. \A q \in ids : q[1] \in ps
  BY RefundIdIs DEF Money, RowsOK, Asked
<1>4. ASSUME NEW p \in ps
      PROVE  AmountOf(refund, Over(ids, {p})) <= payment[p].amount
  <2>1. Over(ids, {p}) = RowsOf(refund, p, Asked)
    BY DEF Over, RowsOf
  <2>2. SumOf(refund, p, Asked) <= payment[p].amount
    BY DEF RefundsInBounds
  <2>3. QED BY <2>1, <2>2, Zenon DEF SumOf
<1>5. AmountOf(refund, ids) <= AmountOf(payment, ps)
  <2>1. \A q \in ids : refund[q].amount \in Nat /\ q[1] \in ps
    BY <1>1, <1>3
  <2>2. \A p \in ps : payment[p].amount \in Nat
    BY <1>1
  <2> HIDE DEF ids, ps
  <2>3. QED BY <1>2, <1>4, <2>1, <2>2, AmountsNest
<1>6. made \subseteq RefundId /\ IsFiniteSet(made) /\ id \notin made
  <2>1. id \notin made
    BY DEF ReturnedIds
  <2>2. QED BY <2>1, ReturnedFinite
<1>7. some \subseteq ids
  BY DEF ReturnedIds, Asked
<1>8. \A q \in blank : refund[q].amount = 0
  <2>1. \A q \in RefundId : refund[q].status \in {"none", "requested", "processed"}
    BY <1>1 DEF RefundRow
  <2>2. blank \subseteq RefundId
    BY <1>6
  <2>3. QED BY <2>1, <2>2 DEF Blank, Asked
<1>9. IsFiniteSet(all) /\ all \subseteq RefundId
  BY <1>6, FS_AddElement
<1>10. all = some \cup blank /\ some \cap blank = {} /\ some \subseteq all /\ blank \subseteq all
  OBVIOUS
<1> HIDE DEF ids, ps, made, some, blank
<1>11. IsFiniteSet(some) /\ IsFiniteSet(blank)
  BY <1>9, <1>10, FS_Subset
<1>12. AmountOf(refund, all) = AmountOf(refund, made) + refund[id].amount
  <2>1. \A q \in made \cup {id} : refund[q].amount \in Nat
    BY <1>1, <1>6
  <2>2. QED BY <1>6, <2>1, AmountOfMore
<1> HIDE DEF all
<1>13. AmountOf(refund, all) = AmountOf(refund, some) + AmountOf(refund, blank)
  <2>1. \A q \in some \cup blank : refund[q].amount \in Nat
    BY <1>1, <1>9, <1>10
  <2>2. AmountOf(refund, some \cup blank) = AmountOf(refund, some) + AmountOf(refund, blank)
    BY <1>10, <1>11, <2>1, AmountOfUnion
  <2>3. QED BY <1>10, <2>2, Zenon
<1>14. AmountOf(refund, blank) = 0
  BY <1>8, <1>11, AmountOfZeros
<1>15. AmountOf(refund, some) <= AmountOf(refund, ids)
  <2>1. \A q \in ids : refund[q].amount \in Nat
    BY <1>1, <1>2
  <2>2. QED BY <1>2, <1>7, <2>1, AmountOfPart
<1>16. /\ AmountOf(refund, some) \in Nat /\ AmountOf(refund, ids) \in Nat
       /\ AmountOf(refund, made) \in Nat /\ AmountOf(payment, ps) \in Nat
  <2>1. /\ \A q \in some : refund[q].amount \in Nat
        /\ \A q \in ids : refund[q].amount \in Nat
        /\ \A q \in made : refund[q].amount \in Nat
        /\ \A p \in ps : payment[p].amount \in Nat
    BY <1>1, <1>2, <1>6, <1>7
  <2>2. QED BY <1>2, <1>6, <1>11, <2>1, AmountOfType
<1>17. AmountOf(refund, made) + refund[id].amount <= AmountOf(payment, ps)
  <2>1. refund[id].amount \in Nat
    BY <1>1
  <2>2. QED BY <1>5, <1>12, <1>13, <1>14, <1>15, <1>16, <2>1
<1>18. QED BY <1>17 DEF made, ps, ReturnedIn, ReceivedIn

-----------------------------------------------------------------------------
(* Who writes the books, and what.                                         *)

LEMMA BookWriters ==
    ASSUME [Next]_vars
    PROVE  \/ \E s \in Session : \/ CommitCapture(s) \/ CommitRefund(s) \/ CommitNote(s)
                                 \/ CommitWriteOff(s) \/ MarkCarried(s)
           \/ invoice' = invoice /\ inst' = inst
<1>1. CASE UNCHANGED vars
  BY <1>1 DEF vars, tables, books
<1>2. CASE \/ \E p \in Payment : \/ \E online \in BOOLEAN : CreateOrder(p, online)
                                 \/ CustomerPays(p)
                                 \/ WebhookAfterCapture(p)
                                 \/ ReconcileStep(p)
           \/ \E id \in RefundId : RequestRefund(id)
           \/ \E id \in NoteId : CreateNote(id) \/ RejectNote(id)
           \/ ReconcileScan
           \/ ReconcileStops
  BY <1>2 DEF CreateOrder, CustomerPays, WebhookAfterCapture, ReconcileStep, RequestRefund,
              CreateNote, RejectNote, ReconcileScan, ReconcileStops, tables, books
<1>3. ASSUME NEW s \in Session,
             \/ \E p \in Payment : BeginOffline(s, p)
             \/ \E p, ref \in Payment, via \in {"client", "webhook"} : BeginVerify(s, p, ref, via)
             \/ \E id \in RefundId : BeginApprove(s, id)
             \/ \E id \in NoteId : BeginNote(s, id)
             \/ \E i \in Invoice : BeginWriteOff(s, i)
             \/ BeginCarry(s)
      PROVE  invoice' = invoice /\ inst' = inst
  BY <1>3, Zenon DEF BeginOffline, BeginVerify, BeginApprove, BeginNote, BeginWriteOff, BeginCarry,
                     tables, books
<1>4. ASSUME NEW s \in Session,
             \/ FetchRefused(s) \/ FetchConfirmed(s) \/ CreditInvoice(s) \/ TakeNumber(s)
             \/ RefundAtGateway(s) \/ RefundByHand(s) \/ ReverseInvoice(s)
             \/ BillOpening(s) \/ Abort(s) \/ RowRefused(s)
      PROVE  invoice' = invoice /\ inst' = inst
  BY <1>4 DEF FetchRefused, FetchConfirmed, CreditInvoice, TakeNumber, RefundAtGateway,
              RefundByHand, ReverseInvoice, BillOpening, Abort, RowRefused, tables, books
<1>5. QED BY <1>1, <1>2, <1>3, <1>4 DEF Next

(* Each of them ends its request.                                          *)
LEMMA WritersFinish ==
    ASSUME Typed, NEW s \in Session,
           \/ CommitCapture(s) \/ CommitRefund(s) \/ CommitNote(s)
           \/ CommitWriteOff(s) \/ MarkCarried(s)
    PROVE  txn'[s].pc = "idle"
<1>1. Finish(s)
  BY DEF CommitCapture, CommitRefund, CommitNote, CommitWriteOff, MarkCarried
<1>2. txn \in [Session -> Transaction]
  BY DEF Typed, TypeOK
<1>3. QED BY <1>1, <1>2 DEF Finish, Idle

LEMMA WriterInvoice ==
    ASSUME Typed, NEW s \in Session,
           CommitCapture(s) \/ CommitRefund(s) \/ CommitNote(s) \/ CommitWriteOff(s)
    PROVE  /\ txn[s].i \in Invoice /\ txn[s].seen \in InvoiceRow /\ txn[s].amount \in Nat
           /\ invoice[txn[s].i] \in InvoiceRow
           /\ Applied(txn[s]) \in Nat /\ Applied(txn[s]) <= Balance(txn[s].seen)
           /\ Applied(txn[s]) <= txn[s].amount
<1> DEFINE t == txn[s]
<1>1. /\ t \in Transaction /\ RequestOK(t) /\ invoice \in [Invoice -> InvoiceRow]
  BY DEF Typed, TypeOK
<1>2. t.pc \in {"issue", "mark", "note", "write_off"}
  BY DEF CommitCapture, CommitRefund, CommitNote, CommitWriteOff
<1>3. t.i \in Invoice /\ t.seen \in InvoiceRow
  BY <1>1, <1>2, ConstantsAssumption DEF RequestOK, Captures
<1>4. t.amount \in Nat
  BY <1>1 DEF Transaction
<1> HIDE DEF t
<1>5. Balance(t.seen) \in Nat
  BY <1>3, BalanceType
<1>6. Applied(t) \in Nat /\ Applied(t) <= Balance(t.seen) /\ Applied(t) <= t.amount
  BY <1>4, <1>5, LeastType DEF Applied
<1>7. QED BY <1>1, <1>3, <1>4, <1>6 DEF t

(* The row and the installments each writer leaves, whatever it read.      *)
LEMMA WriterWrites ==
    ASSUME Typed, NEW s \in Session
    PROVE  LET t == txn[s]
               i == txn[s].i
           IN
           /\ CommitCapture(s) =>
                  /\ Applied(t) = 0 => invoice'[i] = invoice[i]
                  /\ Applied(t) # 0 => invoice'[i] = SavePaid(invoice[i], Credit(t.seen, Applied(t)))
                  /\ inst' = [inst EXCEPT ![i] = SpreadCredit(@, Applied(t))]
           /\ CommitRefund(s) =>
                  /\ invoice'[i] = SavePaid(invoice[i], Debit(t.seen, t.amount))
                  /\ inst' = [inst EXCEPT ![i] = SpreadDebit(@, t.amount)]
           /\ CommitNote(s) =>
                  /\ Applied(t) = 0 => invoice'[i] = invoice[i]
                  /\ Applied(t) # 0 => invoice'[i] = SaveTotal(invoice[i], CutTotal(t.seen, Applied(t)))
                  /\ inst' = [inst EXCEPT ![i] = CutRows(@, Applied(t))]
           /\ CommitWriteOff(s) =>
                  /\ invoice'[i] = SavePaid(invoice[i], WriteOff(t.seen))
                  /\ inst' = [inst EXCEPT ![i] = WriteOffRows(@)]
           /\ CommitCapture(s) \/ CommitRefund(s) \/ CommitNote(s) \/ CommitWriteOff(s) =>
                  /\ \A j \in Invoice : j # i => invoice'[j] = invoice[j]
                  /\ DOMAIN invoice' = Invoice
<1> DEFINE t == txn[s]
           i == txn[s].i
<1>1. invoice \in [Invoice -> InvoiceRow]
  BY DEF Typed, TypeOK
<1>2. ASSUME NEW row, invoice' = [invoice EXCEPT ![i] = row], i \in Invoice
      PROVE  /\ invoice'[i] = row
             /\ \A j \in Invoice : j # i => invoice'[j] = invoice[j]
             /\ DOMAIN invoice' = Invoice
  BY <1>1, <1>2
<1>3. ASSUME CommitCapture(s)
      PROVE  /\ Applied(t) = 0 => invoice'[i] = invoice[i]
             /\ Applied(t) # 0 => invoice'[i] = SavePaid(invoice[i], Credit(t.seen, Applied(t)))
             /\ inst' = [inst EXCEPT ![i] = SpreadCredit(@, Applied(t))]
             /\ \A j \in Invoice : j # i => invoice'[j] = invoice[j]
             /\ DOMAIN invoice' = Invoice
  <2>1. i \in Invoice
    BY <1>3, WriterInvoice
  <2>2. /\ invoice' = [invoice EXCEPT ![i] = CreditedInvoice(t)]
        /\ inst' = [inst EXCEPT ![i] = SpreadCredit(@, Applied(t))]
    BY <1>3 DEF CommitCapture
  <2>3. CreditedInvoice(t) = IF Applied(t) = 0 THEN invoice[i]
                             ELSE SavePaid(invoice[i], Credit(t.seen, Applied(t)))
    BY DEF CreditedInvoice
  <2> HIDE DEF t, i
  <2>4. QED BY <1>2, <2>1, <2>2, <2>3, Zenon
<1>4. ASSUME CommitRefund(s)
      PROVE  /\ invoice'[i] = SavePaid(invoice[i], Debit(t.seen, t.amount))
             /\ inst' = [inst EXCEPT ![i] = SpreadDebit(@, t.amount)]
             /\ \A j \in Invoice : j # i => invoice'[j] = invoice[j]
             /\ DOMAIN invoice' = Invoice
  <2>1. i \in Invoice
    BY <1>4, WriterInvoice
  <2>2. /\ invoice' = [invoice EXCEPT ![i] = SavePaid(invoice[i], Debit(t.seen, t.amount))]
        /\ inst' = [inst EXCEPT ![i] = SpreadDebit(@, t.amount)]
    BY <1>4 DEF CommitRefund
  <2> HIDE DEF t, i
  <2>3. QED BY <1>2, <2>1, <2>2, Zenon
<1>5. ASSUME CommitNote(s)
      PROVE  /\ Applied(t) = 0 => invoice'[i] = invoice[i]
             /\ Applied(t) # 0 => invoice'[i] = SaveTotal(invoice[i], CutTotal(t.seen, Applied(t)))
             /\ inst' = [inst EXCEPT ![i] = CutRows(@, Applied(t))]
             /\ \A j \in Invoice : j # i => invoice'[j] = invoice[j]
             /\ DOMAIN invoice' = Invoice
  <2>1. i \in Invoice
    BY <1>5, WriterInvoice
  <2> DEFINE row == IF Applied(t) = 0 THEN invoice[i]
                    ELSE SaveTotal(invoice[i], CutTotal(t.seen, Applied(t)))
  <2>2. /\ invoice' = [invoice EXCEPT ![i] = row]
        /\ inst' = [inst EXCEPT ![i] = CutRows(@, Applied(t))]
    BY <1>5 DEF CommitNote
  <2>3. /\ Applied(t) = 0 => row = invoice[i]
        /\ Applied(t) # 0 => row = SaveTotal(invoice[i], CutTotal(t.seen, Applied(t)))
    OBVIOUS
  <2> HIDE DEF t, i, row
  <2>4. QED BY <1>2, <2>1, <2>2, <2>3, Zenon
<1>6. ASSUME CommitWriteOff(s)
      PROVE  /\ invoice'[i] = SavePaid(invoice[i], WriteOff(t.seen))
             /\ inst' = [inst EXCEPT ![i] = WriteOffRows(@)]
             /\ \A j \in Invoice : j # i => invoice'[j] = invoice[j]
             /\ DOMAIN invoice' = Invoice
  <2>1. i \in Invoice
    BY <1>6, WriterInvoice
  <2>2. /\ invoice' = [invoice EXCEPT ![i] = SavePaid(invoice[i], WriteOff(t.seen))]
        /\ inst' = [inst EXCEPT ![i] = WriteOffRows(@)]
    BY <1>6 DEF CommitWriteOff
  <2> HIDE DEF t, i
  <2>3. QED BY <1>2, <2>1, <2>2, Zenon
<1>7. QED BY <1>3, <1>4, <1>5, <1>6, Zenon

(* What a row becomes whose writer read it as it is.                       *)
LEMMA SavedFields ==
    ASSUME NEW row \in InvoiceRow, NEW amount \in Nat
    PROVE  /\ LET new == SavePaid(row, Credit(row, amount)) IN
                  /\ new.total = row.total /\ new.paid = row.paid + amount
                  /\ new.status = StatusOf(row.total, row.paid + amount)
           /\ LET new == SavePaid(row, Debit(row, amount)) IN
                  /\ new.total = row.total /\ new.paid = Monus(row.paid, amount)
                  /\ new.status = StatusOf(row.total, Monus(row.paid, amount))
           /\ LET new == SaveTotal(row, CutTotal(row, amount)) IN
                  /\ new.total = Monus(row.total, amount) /\ new.paid = row.paid
                  /\ new.status = StatusOf(Monus(row.total, amount), row.paid)
           /\ LET new == SavePaid(row, WriteOff(row)) IN
                  /\ new.total = row.total /\ new.paid = row.total
                  /\ new.status = "written_off"
<1>1. LET new == SavePaid(row, Credit(row, amount)) IN
          /\ new.total = row.total /\ new.paid = row.paid + amount
          /\ new.status = StatusOf(row.total, row.paid + amount)
  BY DEF SavePaid, Credit, WithPaid, InvoiceRow
<1>2. LET new == SavePaid(row, Debit(row, amount)) IN
          /\ new.total = row.total /\ new.paid = Monus(row.paid, amount)
          /\ new.status = StatusOf(row.total, Monus(row.paid, amount))
  BY DEF SavePaid, Debit, WithPaid, InvoiceRow
<1>3. LET new == SaveTotal(row, CutTotal(row, amount)) IN
          /\ new.total = Monus(row.total, amount) /\ new.paid = row.paid
          /\ new.status = StatusOf(Monus(row.total, amount), row.paid)
  BY DEF SaveTotal, CutTotal, WithTotal, InvoiceRow
<1>4. LET new == SavePaid(row, WriteOff(row)) IN
          /\ new.total = row.total /\ new.paid = row.total
          /\ new.status = "written_off"
  BY DEF SavePaid, WriteOff, InvoiceRow
<1>5. QED BY <1>1, <1>2, <1>3, <1>4

-----------------------------------------------------------------------------
(* One request at a time.  A request that is going to write an invoice has *)
(* read it as it still is; so what counts as paid stays within the total,  *)
(* and never falls short of the money that was kept for it.                *)
OneRequest == \A s, x \in Session : s = x

Reads(t) == Writes(t) \/ t.pc \in {"note", "write_off"}

UpToDate ==
    \A s \in Session :
        /\ Reads(txn[s]) => txn[s].seen = invoice[txn[s].i]
        /\ txn[s].pc = "write_off" => txn[s].seen.status \notin {"paid", "written_off"}
        /\ txn[s].pc \in Refunding => txn[s].id[2] # AutoRefund

KeptIsPaid ==
    \A i \in Invoice :
        /\ invoice[i].paid <= invoice[i].total
        /\ ReceivedIn(payment, receipt, i) <= invoice[i].paid + ReturnedIn(refund, i)

InstallmentsTyped == inst \in [Invoice -> Seq(RowMoney)]

Serial == Money /\ RefundsInBounds /\ Blank /\ InstallmentsTyped /\ UpToDate /\ KeptIsPaid

LEMMA InstallmentsInit == Init => InstallmentsTyped
<1> SUFFICES ASSUME Init PROVE InstallmentsTyped
  OBVIOUS
<1> DEFINE row(i, k) == [amount |-> Split[i][k], paid |-> 0,
                         status |-> IF Split[i][k] = 0 THEN "paid" ELSE "due"]
<1>1. inst = [i \in Invoice |-> [k \in DOMAIN Split[i] |-> row(i, k)]]
  BY DEF Init
<1>2. ASSUME NEW i \in Invoice
      PROVE  [k \in DOMAIN Split[i] |-> row(i, k)] \in Seq(RowMoney)
  <2> DEFINE n == Len(Split[i])
  <2>1. Split[i] \in Seq(Nat)
    BY ConstantsAssumption
  <2>2. DOMAIN Split[i] = 1..n /\ n \in Nat /\ \A k \in 1..n : Split[i][k] \in Nat
    BY <2>1
  <2>3. \A k \in 1..n : row(i, k) \in RowMoney
    BY <2>2 DEF RowMoney, InvoiceStatus
  <2> HIDE DEF n, row
  <2>4. [k \in 1..n |-> row(i, k)] \in [1..n -> RowMoney]
    BY <2>3
  <2>5. [k \in 1..n |-> row(i, k)] \in Seq(RowMoney)
    BY <2>2, <2>4
  <2>6. QED BY <2>2, <2>5, Zenon
<1> HIDE DEF row
<1>3. QED BY <1>1, <1>2 DEF InstallmentsTyped

LEMMA InstallmentsStep ==
    ASSUME Typed, InstallmentsTyped, [Next]_vars
    PROVE  InstallmentsTyped'
<1>1. ASSUME NEW i \in Invoice, NEW rows \in Seq(RowMoney), inst' = [inst EXCEPT ![i] = rows]
      PROVE  InstallmentsTyped'
  BY <1>1 DEF InstallmentsTyped
<1>2. CASE inst' = inst
  BY <1>2 DEF InstallmentsTyped
<1>3. ASSUME NEW s \in Session, MarkCarried(s) PROVE inst' = inst
  BY <1>3 DEF MarkCarried
<1>4. ASSUME NEW s \in Session,
             CommitCapture(s) \/ CommitRefund(s) \/ CommitNote(s) \/ CommitWriteOff(s)
      PROVE  InstallmentsTyped'
  <2> DEFINE i == txn[s].i
             applied == Applied(txn[s])
             amount == txn[s].amount
             rows == inst[i]
  <2>1. i \in Invoice /\ applied \in Nat /\ amount \in Nat
    BY <1>4, WriterInvoice
  <2>2. \/ inst' = [inst EXCEPT ![i] = SpreadCredit(rows, applied)]
        \/ inst' = [inst EXCEPT ![i] = SpreadDebit(rows, amount)]
        \/ inst' = [inst EXCEPT ![i] = CutRows(rows, applied)]
        \/ inst' = [inst EXCEPT ![i] = WriteOffRows(rows)]
    BY <1>4, WriterWrites
  <2>3. rows \in Seq(RowMoney)
    BY <2>1 DEF InstallmentsTyped
  <2> HIDE DEF i, applied, amount, rows
  <2>4. /\ SpreadCredit(rows, applied) \in Seq(RowMoney)
        /\ SpreadDebit(rows, amount) \in Seq(RowMoney)
        /\ CutRows(rows, applied) \in Seq(RowMoney)
        /\ WriteOffRows(rows) \in Seq(RowMoney)
    BY <2>1, <2>3, SpreadType
  <2>5. QED BY <1>1, <2>1, <2>2, <2>4, Zenon
<1>5. QED BY <1>2, <1>3, <1>4, BookWriters

(* Whatever the requests do to the installments of an invoice, they stay a *)
(* sequence of rows with amounts that are not negative.                    *)
THEOREM InstallmentsStayTyped == Spec => []InstallmentsTyped
<1>1. Init => Typed /\ InstallmentsTyped
  BY TypedInit, InstallmentsInit
<1>2. Typed /\ InstallmentsTyped /\ [Next]_vars => Typed' /\ InstallmentsTyped'
  BY TypedStep, InstallmentsStep
<1>3. QED BY <1>1, <1>2, PTL DEF Spec

(* What a write-off or a credit note begins with.                          *)
LEMMA OtherBegins ==
    ASSUME Typed, NEW x \in Session
    PROVE  /\ \A i \in Invoice : BeginWriteOff(x, i) =>
                  /\ txn'[x].pc = "write_off" /\ txn'[x].i = i /\ txn'[x].seen = invoice[i]
                  /\ invoice[i].status \notin {"paid", "written_off"}
           /\ \A id \in NoteId : BeginNote(x, id) =>
                  txn'[x].pc = "note" /\ txn'[x].i = id[1] /\ txn'[x].seen = invoice[id[1]]
           /\ \A id \in RefundId : BeginApprove(x, id) =>
                  /\ txn'[x].pc = "refund" /\ txn'[x].id = id
                  /\ id[2] = AutoRefund => "approve_auto" \in Ops
<1>1. txn \in [Session -> Transaction]
  BY DEF Typed, TypeOK
<1>2. ASSUME NEW i \in Invoice, BeginWriteOff(x, i)
      PROVE  /\ txn'[x].pc = "write_off" /\ txn'[x].i = i /\ txn'[x].seen = invoice[i]
             /\ invoice[i].status \notin {"paid", "written_off"}
  BY <1>1, <1>2 DEF BeginWriteOff, Start, Idle
<1>3. ASSUME NEW id \in NoteId, BeginNote(x, id)
      PROVE  txn'[x].pc = "note" /\ txn'[x].i = id[1] /\ txn'[x].seen = invoice[id[1]]
  BY <1>1, <1>3 DEF BeginNote, Start, Idle
<1>4. ASSUME NEW id \in RefundId, BeginApprove(x, id)
      PROVE  /\ txn'[x].pc = "refund" /\ txn'[x].id = id
             /\ id[2] = AutoRefund => "approve_auto" \in Ops
  BY <1>1, <1>4 DEF BeginApprove, Start, Idle
<1>5. QED BY <1>2, <1>3, <1>4

LEMMA NoteMoves ==
    ASSUME Typed, [Next]_vars, NEW x \in Session, txn'[x].pc = "note"
    PROVE  txn'[x] = txn[x] \/ \E id \in NoteId : BeginNote(x, id)
<1>1. txn \in [Session -> Transaction]
  BY DEF Typed, TypeOK
<1>2. CASE UNCHANGED vars
  BY <1>2 DEF vars
<1>3. CASE \/ \E p \in Payment : \/ \E online \in BOOLEAN : CreateOrder(p, online)
                                 \/ CustomerPays(p)
                                 \/ WebhookAfterCapture(p)
                                 \/ ReconcileStep(p)
           \/ \E id \in RefundId : RequestRefund(id)
           \/ \E id \in NoteId : CreateNote(id) \/ RejectNote(id)
           \/ ReconcileScan
           \/ ReconcileStops
  BY <1>3 DEF CreateOrder, CustomerPays, WebhookAfterCapture, ReconcileStep, RequestRefund,
              CreateNote, RejectNote, ReconcileScan, ReconcileStops
<1>4. ASSUME NEW s \in Session, NEW t, txn' = [txn EXCEPT ![s] = t], t.pc # "note"
      PROVE  txn'[x] = txn[x]
  BY <1>1, <1>4
<1>5. ASSUME NEW s \in Session,
             \/ \E p \in Payment : BeginOffline(s, p)
             \/ \E p, ref \in Payment, via \in {"client", "webhook"} : BeginVerify(s, p, ref, via)
             \/ \E id \in RefundId : BeginApprove(s, id)
             \/ \E i \in Invoice : BeginWriteOff(s, i)
             \/ BeginCarry(s)
      PROVE  txn'[x] = txn[x]
  <2>1. CASE s = x
    <3>1. CASE \E p \in Payment : BeginOffline(s, p)
      BY <1>1, <2>1, <3>1 DEF BeginOffline, Start, Idle
    <3>2. CASE \E p, ref \in Payment, via \in {"client", "webhook"} : BeginVerify(s, p, ref, via)
      BY <1>1, <2>1, <3>2 DEF BeginVerify, Start, Idle
    <3>3. CASE \E id \in RefundId : BeginApprove(s, id)
      BY <1>1, <2>1, <3>3 DEF BeginApprove, Start, Idle
    <3>4. CASE \E i \in Invoice : BeginWriteOff(s, i)
      BY <1>1, <2>1, <3>4 DEF BeginWriteOff, Start, Idle
    <3>5. CASE BeginCarry(s)
      BY <1>1, <2>1, <3>5 DEF BeginCarry, Start, Idle
    <3>6. QED BY <1>5, <3>1, <3>2, <3>3, <3>4, <3>5
  <2>2. CASE s # x
    <3>1. \E t : Start(s, t)
      BY <1>5, Zenon DEF BeginOffline, BeginVerify, BeginApprove, BeginWriteOff, BeginCarry
    <3>2. QED BY <1>1, <2>2, <3>1 DEF Start
  <2>3. QED BY <2>1, <2>2
<1>6. ASSUME NEW s \in Session, NEW id \in NoteId, BeginNote(s, id), s # x
      PROVE  txn'[x] = txn[x]
  BY <1>1, <1>6 DEF BeginNote, Start
<1>7. ASSUME NEW s \in Session,
             \/ FetchRefused(s) \/ CommitCapture(s) \/ CommitRefund(s)
             \/ CommitNote(s) \/ CommitWriteOff(s) \/ MarkCarried(s) \/ Abort(s) \/ RowRefused(s)
      PROVE  txn'[x] = txn[x]
  <2>1. Finish(s)
    BY <1>7, Zenon DEF FetchRefused, CommitCapture, CommitRefund, CommitNote, CommitWriteOff, MarkCarried, Abort, RowRefused
  <2>2. QED BY <1>1, <2>1 DEF Finish, Idle
<1>8. ASSUME NEW s \in Session,
             \/ FetchConfirmed(s) \/ CreditInvoice(s) \/ TakeNumber(s) \/ BillOpening(s)
             \/ RefundAtGateway(s) \/ RefundByHand(s) \/ ReverseInvoice(s)
      PROVE  txn'[x] = txn[x]
  <2>1. CASE FetchConfirmed(s)
    BY <1>1, <2>1 DEF FetchConfirmed, Transaction
  <2>2. CASE TakeNumber(s)
    BY <1>1, <2>2 DEF TakeNumber, Transaction
  <2>3. CASE ReverseInvoice(s)
    BY <1>1, <2>3 DEF ReverseInvoice, Transaction
  <2>4. CASE CreditInvoice(s) \/ BillOpening(s) \/ RefundAtGateway(s) \/ RefundByHand(s)
    <3>1. \E pc \in {"number", "mark_carried", "reverse"} : Goto(s, pc)
      BY <2>4, Zenon DEF CreditInvoice, BillOpening, RefundAtGateway, RefundByHand
    <3>2. QED BY <1>1, <3>1 DEF Goto, Transaction
  <2>5. QED BY <1>8, <2>1, <2>2, <2>3, <2>4
<1>9. QED BY <1>2, <1>3, <1>5, <1>6, <1>7, <1>8 DEF Next

LEMMA UpToDateInit == Init => UpToDate
BY DEF Init, UpToDate, Reads, Writes, Idle, Refunding

LEMMA UpToDateStep ==
    ASSUME OneRequest, "approve_auto" \notin Ops, Money, UpToDate, [Next]_vars
    PROVE  UpToDate'
<1>1. Typed /\ txn \in [Session -> Transaction] /\ \A s \in Session : RequestOK(txn[s])
  BY DEF Money, Typed, TypeOK
<1>2. ASSUME NEW s \in Session,
             \/ CommitCapture(s) \/ CommitRefund(s) \/ CommitNote(s)
             \/ CommitWriteOff(s) \/ MarkCarried(s)
      PROVE  UpToDate'
  <2>1. \A x \in Session : txn'[x].pc = "idle"
    BY <1>1, <1>2, WritersFinish DEF OneRequest
  <2>2. QED BY <2>1 DEF UpToDate, Reads, Writes, Refunding
<1>3. ASSUME invoice' = invoice
      PROVE  UpToDate'
  <2> SUFFICES ASSUME NEW x \in Session
               PROVE  /\ Reads(txn'[x]) => txn'[x].seen = invoice[txn'[x].i]
                      /\ txn'[x].pc = "write_off" =>
                             txn'[x].seen.status \notin {"paid", "written_off"}
                      /\ txn'[x].pc \in Refunding => txn'[x].id[2] # AutoRefund
    BY <1>3 DEF UpToDate, Reads, Writes
  <2>1. RequestMove(x)
    BY <1>1, RequestMoves
  <2>2. CASE txn'[x] = txn[x]
    BY <2>2 DEF UpToDate
  <2>3. ASSUME SameWork(x), txn[x].pc \in {"credit", "number", "refund", "reverse"}
        PROVE  txn'[x].seen = invoice[txn'[x].i]
    BY <2>3 DEF UpToDate, SameWork, Reads, Writes, Refunding
  <2>4. ASSUME txn'[x].pc \in Refunding
        PROVE  txn'[x].id[2] # AutoRefund
    <3>1. CASE SameWork(x) /\ txn[x].pc \in Refunding
      BY <3>1 DEF SameWork, UpToDate
    <3>2. CASE \E id \in RefundId : BeginApprove(x, id)
      BY <1>1, <3>2, OtherBegins
    <3>3. QED BY <2>4, <3>1, <3>2, RefundingMoves
  <2>5. ASSUME NEW i \in Invoice, BeginWriteOff(x, i)
        PROVE  /\ txn'[x].seen = invoice[txn'[x].i]
               /\ txn'[x].seen.status \notin {"paid", "written_off"}
    BY <1>1, <2>5, OtherBegins
  <2>6. CASE txn'[x].pc \notin Captures \cup Refunding \cup {"write_off"}
    <3>1. CASE txn'[x].pc = "note"
      <4>1. ASSUME NEW id \in NoteId, BeginNote(x, id)
            PROVE  txn'[x].seen = invoice[txn'[x].i]
        BY <1>1, <4>1, OtherBegins
      <4>2. CASE txn'[x] = txn[x]
        BY <2>2, <4>2
      <4>3. txn'[x].seen = invoice[txn'[x].i]
        BY <1>1, <2>2, <3>1, <4>1, NoteMoves DEF Reads
      <4>4. QED BY <2>6, <4>3
    <3>2. CASE txn'[x].pc # "note"
      BY <2>6, <3>2 DEF Reads, Writes, Captures
    <3>3. QED BY <3>1, <3>2
  <2>7. CASE \E p, ref \in Payment, via \in {"client", "webhook"} : BeginVerify(x, p, ref, via)
    <3>1. PICK p \in Payment :
            /\ txn'[x].pc = "fetch" /\ txn'[x].i = For[p]
            /\ txn'[x].seen \in {invoice[For[p]], None}
      BY <1>1, <2>7, Began
    <3>2. QED BY <3>1 DEF Reads, Writes, Refunding
  <2>8. CASE \E p \in Payment : BeginOffline(x, p)
    <3>1. PICK p \in Payment :
            txn'[x].pc = "number" /\ txn'[x].i = For[p] /\ txn'[x].seen = invoice[For[p]]
      BY <1>1, <2>8, Began
    <3>2. QED BY <3>1 DEF Refunding
  <2>9. CASE FetchConfirmed(x)
    <3>1. /\ txn[x].pc = "fetch" /\ txn'[x].pc = "credit" /\ txn'[x].i = txn[x].i
          /\ txn'[x].seen = (IF txn[x].seen = None THEN invoice[txn[x].i] ELSE txn[x].seen)
      BY <1>1, <2>9, Began
    <3>2. txn[x].seen # None => txn[x].seen = invoice[txn[x].i]
      BY <3>1 DEF UpToDate, Reads, Writes
    <3>3. QED BY <3>1, <3>2 DEF Refunding
  <2>10. CASE \E id \in RefundId : BeginApprove(x, id)
    <3>1. PICK id \in RefundId :
            txn'[x].i = For[id[1]] /\ txn'[x].seen = invoice[For[id[1]]]
      BY <1>1, <2>10, Began
    <3>2. txn'[x].pc = "refund"
      BY <1>1, <2>10, OtherBegins
    <3>3. QED BY <2>4, <3>1, <3>2
  <2>11. CASE \/ SameWork(x) /\ txn[x].pc = "credit" /\ txn'[x].pc = "number"
              \/ SameWork(x) /\ txn[x].pc = "number" /\ txn'[x].pc = "issue"
              \/ SameWork(x) /\ txn[x].pc = "refund" /\ txn'[x].pc = "reverse"
    BY <2>3, <2>4, <2>11 DEF Refunding
  <2>12. CASE SameWork(x) /\ ReverseInvoice(x)
    <3>1. txn[x].pc = "reverse" /\ txn'[x].pc = "mark"
      BY <1>1, <2>12, Began
    <3>2. QED BY <2>3, <2>4, <2>12, <3>1 DEF Refunding
  <2>13. CASE \E i \in Invoice : BeginWriteOff(x, i)
    <3>1. txn'[x].pc = "write_off"
      BY <1>1, <2>13, OtherBegins
    <3>2. QED BY <2>5, <2>13, <3>1 DEF Refunding
  <2>14. QED BY <2>1, <2>2, <2>6, <2>7, <2>8, <2>9, <2>10, <2>11, <2>12, <2>13 DEF RequestMove
<1>4. QED BY <1>2, <1>3, BookWriters

(* What a step adds to the money that went back.                           *)
LEMMA ReturnedMoves ==
    ASSUME Money, Money', Blank, UpToDate, [Next]_vars, NEW i
    PROVE  /\ \A s \in Session : CommitCapture(s) /\ txn[s].i = i =>
                  ReturnedIn(refund', i) = ReturnedIn(refund, i) + Excess(txn[s])
           /\ \A s \in Session : CommitRefund(s) /\ txn[s].i = i =>
                  ReturnedIn(refund', i) = ReturnedIn(refund, i) + txn[s].amount
           /\ (\A s \in Session : CommitCapture(s) \/ CommitRefund(s) => txn[s].i # i) =>
                  ReturnedIn(refund', i) = ReturnedIn(refund, i)
<1>1. /\ \A id \in RefundId : refund[id].amount \in Nat
      /\ \A id \in RefundId : refund'[id].amount \in Nat
  <2>1. refund' \in [RefundId -> RefundRow]
    BY DEF Money, Typed, TypeOK
  <2>2. QED BY <2>1, AmountsAre DEF RefundRow
<1>2. ReturnedIn(refund, i) \in Nat
  BY <1>1, ReturnedType
<1>3. ASSUME NEW s \in Session, CommitCapture(s), txn[s].i = i
      PROVE  ReturnedIn(refund', i) = ReturnedIn(refund, i) + Excess(txn[s])
  <2> DEFINE id == <<txn[s].p, AutoRefund>>
             excess == Excess(txn[s])
  <2>1. /\ id \in RefundId /\ id[2] = AutoRefund /\ For[id[1]] = i
        /\ receipt[id[1]] = 0
        /\ \A q \in RefundId : q # id => refund'[q] = refund[q]
        /\ excess = 0 => refund' = refund
        /\ excess # 0 => refund'[id].amount = excess
    BY <1>3, CapturedRows
  <2>2. refund[id].amount = 0
    BY <2>1 DEF Money, RowsOK, Blank
  <2> HIDE DEF id, excess
  <2>3. CASE excess = 0
    <3>1. ReturnedIn(refund', i) = ReturnedIn(refund, i)
      BY <2>1, <2>3, Zenon
    <3>2. QED BY <1>2, <2>3, <3>1 DEF excess
  <2>4. CASE excess # 0
    <3>1. ReturnedIn(refund', i) = ReturnedIn(refund, i) + refund'[id].amount
      <4>1. id \in RefundId /\ For[id[1]] = i
        BY <2>1
      <4>2. \A q \in RefundId : q # id => refund'[q] = refund[q]
        BY <2>1
      <4>3. id[2] = AutoRefund => refund[id].amount = 0
        BY <2>2
      <4>4. id[2] # AutoRefund => refund[id].status # "processed" /\ refund'[id].status = "processed"
        BY <2>1
      <4>5. \A q \in RefundId : refund'[q].amount \in Nat
        BY <1>1
      <4>6. QED BY <4>1, <4>2, <4>3, <4>4, <4>5, ReturnedMore
    <3>2. refund'[id].amount = excess
      BY <2>1, <2>4
    <3>3. QED BY <3>1, <3>2, Zenon DEF excess
  <2>5. QED BY <2>3, <2>4
<1>4. ASSUME NEW s \in Session, CommitRefund(s), txn[s].i = i
      PROVE  ReturnedIn(refund', i) = ReturnedIn(refund, i) + txn[s].amount
  <2> DEFINE id == txn[s].id
             amount == txn[s].amount
  <2>1. /\ id \in RefundId /\ For[id[1]] = i
        /\ refund[id].status = "requested"
        /\ refund'[id].status = "processed" /\ refund'[id].amount = amount
        /\ \A q \in RefundId : q # id => refund'[q] = refund[q]
        /\ txn[s].pc = "mark"
    BY <1>4, RefundedRows
  <2>2. id[2] # AutoRefund
    BY <2>1 DEF UpToDate, Refunding
  <2> HIDE DEF id, amount
  <2>3. ReturnedIn(refund', i) = ReturnedIn(refund, i) + refund'[id].amount
    <3>1. id \in RefundId /\ For[id[1]] = i
      BY <2>1
    <3>2. \A q \in RefundId : q # id => refund'[q] = refund[q]
      BY <2>1
    <3>3. id[2] = AutoRefund => refund[id].amount = 0
      BY <2>2
    <3>4. id[2] # AutoRefund => refund[id].status # "processed" /\ refund'[id].status = "processed"
      BY <2>1
    <3>5. \A q \in RefundId : refund'[q].amount \in Nat
      BY <1>1
    <3>6. QED BY <3>1, <3>2, <3>3, <3>4, <3>5, ReturnedMore
  <2>4. QED BY <2>1, <2>3, Zenon DEF amount
<1>5. ASSUME \A s \in Session : CommitCapture(s) \/ CommitRefund(s) => txn[s].i # i
      PROVE  ReturnedIn(refund', i) = ReturnedIn(refund, i)
  <2>1. ASSUME NEW q \in RefundId, For[q[1]] = i
        PROVE  \/ refund'[q] = refund[q]
               \/ /\ q[2] # AutoRefund
                  /\ refund[q].status # "processed" /\ refund'[q].status # "processed"
    <3>1. ASSUME NEW id \in RefundId, RequestRefund(id)
          PROVE  \/ refund'[q] = refund[q]
                 \/ /\ q[2] # AutoRefund
                    /\ refund[q].status # "processed" /\ refund'[q].status # "processed"
      <4>1. id[2] # AutoRefund
        BY <3>1 DEF RequestRefund
      <4>2. QED BY <3>1, <4>1, RequestedRow
    <3>2. ASSUME NEW s \in Session, CommitCapture(s)
          PROVE  refund'[q] = refund[q]
      <4>1. q # <<txn[s].p, AutoRefund>>
        <5>1. txn[s].i # i /\ txn[s].i = For[txn[s].p]
          BY <1>5, <3>2, CapturedRows
        <5>2. q[1] # txn[s].p
          BY <2>1, <5>1
        <5>3. QED BY <5>2
      <4>2. QED BY <3>2, <4>1, CapturedRows
    <3>3. ASSUME NEW s \in Session, CommitRefund(s)
          PROVE  refund'[q] = refund[q]
      <4>1. txn[s].i # i /\ txn[s].i = For[txn[s].p] /\ txn[s].p = txn[s].id[1]
        BY <1>5, <3>3, RefundedRows
      <4>2. q # txn[s].id
        BY <2>1, <4>1
      <4>3. QED BY <3>3, <4>2, RefundedRows
    <3>4. CASE refund' = refund
      BY <3>4
    <3>5. QED BY <3>1, <3>2, <3>3, <3>4, RefundWriters
  <2>2. QED BY <2>1, ReturnedSame
<1>6. QED BY <1>3, <1>4, <1>5

(* What a writer does to an invoice it has read as it is.                  *)
LEMMA SerialCapture ==
    ASSUME Serial, NEW s \in Session, CommitCapture(s)
    PROVE  LET t == txn[s]
               i == txn[s].i
           IN /\ i \in Invoice /\ Applied(t) \in Nat /\ Applied(t) <= Balance(invoice[i])
              /\ Applied(t) + Excess(t) = t.amount
              /\ invoice'[i].total = invoice[i].total
              /\ invoice'[i].paid = invoice[i].paid + Applied(t)
              /\ Applied(t) = 0 => invoice'[i] = invoice[i]
              /\ Applied(t) # 0 => invoice'[i] = SavePaid(invoice[i], Credit(invoice[i], Applied(t)))
              /\ \A j \in Invoice : j # i => invoice'[j] = invoice[j]
<1> DEFINE t == txn[s]
           i == txn[s].i
           a == Applied(t)
<1>1. t.pc = "issue" /\ Typed
  BY DEF CommitCapture, Serial, Money
<1>2. t.seen = invoice[i]
  BY <1>1 DEF Serial, UpToDate, Reads, Writes
<1>3. /\ i \in Invoice /\ t.amount \in Nat /\ invoice[i] \in InvoiceRow
      /\ a \in Nat /\ a <= Balance(t.seen) /\ a <= t.amount
  BY <1>1, WriterInvoice
<1>4. /\ a = 0 => invoice'[i] = invoice[i]
      /\ a # 0 => invoice'[i] = SavePaid(invoice[i], Credit(t.seen, a))
      /\ \A j \in Invoice : j # i => invoice'[j] = invoice[j]
  BY <1>1, WriterWrites
<1>5. a + Excess(t) = t.amount
  <2>1. Excess(t) = t.amount - a
    BY DEF Excess
  <2> HIDE DEF t, a
  <2>2. QED BY <1>3, <2>1
<1> HIDE DEF t, i, a
<1>6. a # 0 => invoice'[i] = SavePaid(invoice[i], Credit(invoice[i], a))
  BY <1>2, <1>4, Zenon
<1>7. a <= Balance(invoice[i])
  BY <1>2, <1>3, Zenon
<1>8. invoice'[i].total = invoice[i].total /\ invoice'[i].paid = invoice[i].paid + a
  <2>1. CASE a = 0
    <3>1. invoice[i].paid \in Nat
      BY <1>3 DEF InvoiceRow
    <3>2. QED BY <1>4, <2>1, <3>1
  <2>2. CASE a # 0
    <3> DEFINE new == SavePaid(invoice[i], Credit(invoice[i], a))
    <3>1. new.total = invoice[i].total /\ new.paid = invoice[i].paid + a
      BY <1>3, SavedFields
    <3> HIDE DEF new
    <3>2. invoice'[i] = new
      BY <1>6, <2>2 DEF new
    <3>3. QED BY <3>1, <3>2, Zenon
  <2>3. QED BY <2>1, <2>2
<1>9. QED BY <1>3, <1>4, <1>5, <1>6, <1>7, <1>8 DEF t, i, a

LEMMA SerialRefund ==
    ASSUME Serial, NEW s \in Session, CommitRefund(s)
    PROVE  LET t == txn[s]
               i == txn[s].i
           IN /\ i \in Invoice /\ t.amount \in Nat /\ t.amount # 0
              /\ t.amount <= invoice[i].paid
              /\ invoice'[i].total = invoice[i].total
              /\ invoice'[i].paid = invoice[i].paid - t.amount
              /\ invoice'[i] = SavePaid(invoice[i], Debit(invoice[i], t.amount))
              /\ \A j \in Invoice : j # i => invoice'[j] = invoice[j]
<1> DEFINE t == txn[s]
           i == txn[s].i
           a == txn[s].amount
           id == txn[s].id
<1>1. t.pc = "mark" /\ Typed /\ Money /\ RefundsInBounds /\ Blank
  BY DEF CommitRefund, Serial, Money
<1>2. t.seen = invoice[i] /\ id[2] # AutoRefund
  BY <1>1 DEF Serial, UpToDate, Reads, Writes, Refunding
<1>3. i \in Invoice /\ a \in Nat /\ invoice[i] \in InvoiceRow
  BY <1>1, WriterInvoice
<1>4. /\ invoice'[i] = SavePaid(invoice[i], Debit(t.seen, a))
      /\ \A j \in Invoice : j # i => invoice'[j] = invoice[j]
  BY <1>1, WriterWrites
<1>5. /\ id \in RefundId /\ For[id[1]] = i
      /\ refund[id].status = "requested" /\ refund[id].amount = a
  BY <1>1, RefundedRows
<1> HIDE DEF t, i, a, id
<1>6. a # 0
  BY <1>1, <1>5 DEF Blank
<1>7. a <= invoice[i].paid
  <2>1. ReturnedIn(refund, i) + refund[id].amount <= ReceivedIn(payment, receipt, i)
    BY <1>1, <1>2, <1>5, ReturnedBound
  <2>2. ReceivedIn(payment, receipt, i) <= invoice[i].paid + ReturnedIn(refund, i)
    BY <1>3 DEF Serial, KeptIsPaid
  <2>3. /\ ReturnedIn(refund, i) \in Nat /\ ReceivedIn(payment, receipt, i) \in Nat
        /\ invoice[i].paid \in Nat
    BY <1>1, <1>3, AmountsAre, ReturnedType, ReceivedType DEF InvoiceRow
  <2>4. ReturnedIn(refund, i) + a <= ReceivedIn(payment, receipt, i)
    BY <1>5, <2>1, Zenon
  <2>5. QED BY <1>3, <2>2, <2>3, <2>4
<1>8. invoice'[i] = SavePaid(invoice[i], Debit(invoice[i], a))
  BY <1>2, <1>4, Zenon
<1>9. invoice'[i].total = invoice[i].total /\ invoice'[i].paid = invoice[i].paid - a
  <2> DEFINE new == SavePaid(invoice[i], Debit(invoice[i], a))
  <2>1. new.total = invoice[i].total /\ new.paid = Monus(invoice[i].paid, a)
    BY <1>3, SavedFields
  <2> HIDE DEF new
  <2>2. invoice'[i] = new
    BY <1>8 DEF new
  <2>3. invoice[i].paid \in Nat
    BY <1>3 DEF InvoiceRow
  <2>4. Monus(invoice[i].paid, a) = invoice[i].paid - a
    BY <1>3, <1>7, <2>3 DEF Monus
  <2>5. QED BY <2>1, <2>2, <2>4, Zenon
<1>10. QED BY <1>3, <1>4, <1>6, <1>7, <1>8, <1>9 DEF t, i, a

LEMMA SerialNote ==
    ASSUME Serial, NEW s \in Session, CommitNote(s)
    PROVE  LET t == txn[s]
               i == txn[s].i
           IN /\ i \in Invoice /\ Applied(t) \in Nat /\ Applied(t) <= Balance(invoice[i])
              /\ invoice'[i].total = Monus(invoice[i].total, Applied(t))
              /\ invoice'[i].paid = invoice[i].paid
              /\ Applied(t) = 0 => invoice'[i] = invoice[i]
              /\ Applied(t) # 0 => invoice'[i] = SaveTotal(invoice[i], CutTotal(invoice[i], Applied(t)))
              /\ \A j \in Invoice : j # i => invoice'[j] = invoice[j]
<1> DEFINE t == txn[s]
           i == txn[s].i
           a == Applied(t)
<1>1. t.pc = "note" /\ Typed
  BY DEF CommitNote, Serial, Money
<1>2. t.seen = invoice[i]
  BY <1>1 DEF Serial, UpToDate, Reads, Writes
<1>3. /\ i \in Invoice /\ invoice[i] \in InvoiceRow
      /\ a \in Nat /\ a <= Balance(t.seen)
  BY <1>1, WriterInvoice
<1>4. /\ a = 0 => invoice'[i] = invoice[i]
      /\ a # 0 => invoice'[i] = SaveTotal(invoice[i], CutTotal(t.seen, a))
      /\ \A j \in Invoice : j # i => invoice'[j] = invoice[j]
  BY <1>1, WriterWrites
<1> HIDE DEF t, i, a
<1>5. a # 0 => invoice'[i] = SaveTotal(invoice[i], CutTotal(invoice[i], a))
  BY <1>2, <1>4, Zenon
<1>6. a <= Balance(invoice[i])
  BY <1>2, <1>3, Zenon
<1>7. invoice[i].paid \in Nat /\ invoice[i].total \in Nat
  BY <1>3 DEF InvoiceRow
<1>8. invoice'[i].total = Monus(invoice[i].total, a) /\ invoice'[i].paid = invoice[i].paid
  <2>1. CASE a = 0
    BY <1>4, <1>7, <2>1 DEF Monus
  <2>2. CASE a # 0
    <3> DEFINE new == SaveTotal(invoice[i], CutTotal(invoice[i], a))
    <3>1. new.total = Monus(invoice[i].total, a) /\ new.paid = invoice[i].paid
      BY <1>3, SavedFields
    <3> HIDE DEF new
    <3>2. invoice'[i] = new
      BY <1>5, <2>2 DEF new
    <3>3. QED BY <3>1, <3>2, Zenon
  <2>3. QED BY <2>1, <2>2
<1>9. QED BY <1>3, <1>4, <1>5, <1>6, <1>8 DEF t, i, a

LEMMA SerialWriteOff ==
    ASSUME Serial, NEW s \in Session, CommitWriteOff(s)
    PROVE  LET i == txn[s].i
           IN /\ i \in Invoice
              /\ invoice[i].status \notin {"paid", "written_off"}
              /\ invoice'[i].total = invoice[i].total
              /\ invoice'[i].paid = invoice[i].total
              /\ invoice'[i].status = "written_off"
              /\ invoice'[i] = SavePaid(invoice[i], WriteOff(invoice[i]))
              /\ \A j \in Invoice : j # i => invoice'[j] = invoice[j]
<1> DEFINE t == txn[s]
           i == txn[s].i
<1>1. t.pc = "write_off" /\ Typed
  BY DEF CommitWriteOff, Serial, Money
<1>2. t.seen = invoice[i] /\ t.seen.status \notin {"paid", "written_off"}
  BY <1>1 DEF Serial, UpToDate, Reads
<1>3. i \in Invoice /\ invoice[i] \in InvoiceRow
  BY <1>1, WriterInvoice
<1>4. /\ invoice'[i] = SavePaid(invoice[i], WriteOff(t.seen))
      /\ \A j \in Invoice : j # i => invoice'[j] = invoice[j]
  BY <1>1, WriterWrites
<1> HIDE DEF t, i
<1>5. invoice'[i] = SavePaid(invoice[i], WriteOff(invoice[i]))
  BY <1>2, <1>4, Zenon
<1> DEFINE new == SavePaid(invoice[i], WriteOff(invoice[i]))
<1>6. new.total = invoice[i].total /\ new.paid = invoice[i].total /\ new.status = "written_off"
  <2>1. 0 \in Nat
    OBVIOUS
  <2>2. QED BY <1>3, <2>1, SavedFields
<1> HIDE DEF new
<1>7. invoice'[i] = new
  BY <1>5 DEF new
<1>8. /\ invoice'[i].total = invoice[i].total /\ invoice'[i].paid = invoice[i].total
      /\ invoice'[i].status = "written_off"
  BY <1>6, <1>7, Zenon
<1>9. invoice[i].status \notin {"paid", "written_off"}
  BY <1>2, Zenon
<1>10. QED BY <1>3, <1>4, <1>5, <1>8, <1>9 DEF i

LEMMA CarriedFields ==
    ASSUME Typed, NEW s \in Session, MarkCarried(s), NEW i \in Invoice
    PROVE  /\ invoice'[i].total = invoice[i].total
           /\ invoice'[i].paid = invoice[i].paid
           /\ invoice'[i].status = invoice[i].status
BY DEF MarkCarried, Typed, TypeOK, InvoiceRow

(* One step of one request: what counts as paid moves as the money kept    *)
(* for the invoice does, unless the invoice is written off.                *)
LEMMA MoneyMoves ==
    ASSUME OneRequest, Serial, Money', [Next]_vars, NEW i \in Invoice
    PROVE  LET before == ReceivedIn(payment, receipt, i)
               after  == ReceivedIn(payment', receipt', i)
               gone   == ReturnedIn(refund, i)
               gone1  == ReturnedIn(refund', i)
           IN /\ invoice'[i].paid <= invoice'[i].total
              /\ \/ invoice'[i].paid - invoice[i].paid = (after - gone1) - (before - gone)
                 \/ /\ invoice'[i].status = "written_off"
                    /\ after = before /\ gone1 = gone
                    /\ invoice'[i].paid >= invoice[i].paid
<1> DEFINE before == ReceivedIn(payment, receipt, i)
           after  == ReceivedIn(payment', receipt', i)
           gone   == ReturnedIn(refund, i)
           gone1  == ReturnedIn(refund', i)
           row    == invoice[i]
           new    == invoice'[i]
           Goal   == /\ new.paid <= new.total
                     /\ \/ new.paid - row.paid = (after - gone1) - (before - gone)
                        \/ /\ new.status = "written_off"
                           /\ after = before /\ gone1 = gone
                           /\ new.paid >= row.paid
<1>1. Money /\ Typed /\ Blank /\ UpToDate
  BY DEF Serial, Money
<1>2. row.paid \in Nat /\ row.total \in Nat /\ row.paid <= row.total
  BY <1>1 DEF Typed, TypeOK, InvoiceRow, Serial, KeptIsPaid
<1>3. before \in Nat /\ gone \in Nat
  BY <1>1, AmountsAre, ReceivedType, ReturnedType
<1>4. Balance(row) = row.total - row.paid
  <2> HIDE DEF row
  <2>1. QED BY <1>2 DEF Balance, Monus
<1>5. ASSUME NEW s \in Session, CommitCapture(s), txn[s].i = i
      PROVE  Goal
  <2> DEFINE a == Applied(txn[s])
             e == Excess(txn[s])
             m == txn[s].amount
  <2>1. after = before + m
    BY <1>1, <1>5, ReceivedMoves
  <2>2. gone1 = gone + e
    BY <1>1, <1>5, ReturnedMoves
  <2>3. /\ a \in Nat /\ a <= Balance(row) /\ a + e = m
        /\ new.total = row.total /\ new.paid = row.paid + a
    BY <1>5, SerialCapture
  <2>4. m \in Nat /\ e \in Int
    <3>1. m \in Nat
      BY <1>1, <1>5, WriterInvoice
    <3>2. e = m - a
      BY DEF Excess
    <3> HIDE DEF e, m, a
    <3>3. QED BY <2>3, <3>1, <3>2
  <2> HIDE DEF a, e, m, before, after, gone, gone1, row, new
  <2>5. QED BY <1>2, <1>3, <1>4, <2>1, <2>2, <2>3, <2>4
<1>6. ASSUME NEW s \in Session, CommitRefund(s), txn[s].i = i
      PROVE  Goal
  <2> DEFINE m == txn[s].amount
  <2>1. \A x \in Session : ~CommitCapture(x)
    BY <1>6 DEF OneRequest, CommitRefund, CommitCapture
  <2>2. after = before
    BY <1>1, <2>1, ReceivedMoves
  <2>3. gone1 = gone + m
    BY <1>1, <1>6, ReturnedMoves
  <2>4. /\ m \in Nat /\ m <= row.paid
        /\ new.total = row.total /\ new.paid = row.paid - m
    BY <1>6, SerialRefund
  <2> HIDE DEF m, before, after, gone, gone1, row, new
  <2>5. QED BY <1>2, <1>3, <2>2, <2>3, <2>4
<1>7. ASSUME \A s \in Session : CommitCapture(s) \/ CommitRefund(s) => txn[s].i # i
      PROVE  Goal
  <2>1. after = before
    BY <1>1, <1>7, ReceivedMoves
  <2>2. gone1 = gone
    BY <1>1, <1>7, ReturnedMoves
  <2>3. ASSUME new.total = row.total, new.paid = row.paid
        PROVE  Goal
    <3> HIDE DEF before, after, gone, gone1, row, new
    <3>1. QED BY <1>2, <1>3, <2>1, <2>2, <2>3
  <2>4. CASE new = row
    <3> HIDE DEF new, row
    <3>1. new.total = row.total /\ new.paid = row.paid
      BY <2>4
    <3>2. QED BY <2>3, <3>1 DEF new, row
  <2>5. ASSUME NEW s \in Session, MarkCarried(s) PROVE Goal
    BY <1>1, <2>3, <2>5, CarriedFields
  <2>6. ASSUME NEW s \in Session, CommitCapture(s) PROVE Goal
    <3>1. txn[s].i # i
      BY <1>7, <2>6
    <3>2. QED BY <2>4, <2>6, <3>1, SerialCapture
  <2>7. ASSUME NEW s \in Session, CommitRefund(s) PROVE Goal
    <3>1. txn[s].i # i
      BY <1>7, <2>7
    <3>2. QED BY <2>4, <2>7, <3>1, SerialRefund
  <2>8. ASSUME NEW s \in Session, CommitNote(s) PROVE Goal
    <3>1. CASE txn[s].i # i
      BY <2>4, <2>8, <3>1, SerialNote
    <3>2. CASE txn[s].i = i
      <4> DEFINE a == Applied(txn[s])
      <4>1. /\ a \in Nat /\ a <= Balance(row)
            /\ new.total = Monus(row.total, a) /\ new.paid = row.paid
        BY <2>8, <3>2, SerialNote
      <4> HIDE DEF a, before, after, gone, gone1, row, new
      <4>2. new.total >= row.paid
        BY <1>2, <1>4, <4>1 DEF Monus
      <4>3. QED BY <1>2, <1>3, <2>1, <2>2, <4>1, <4>2
    <3>3. QED BY <3>1, <3>2
  <2>9. ASSUME NEW s \in Session, CommitWriteOff(s) PROVE Goal
    <3>1. CASE txn[s].i # i
      BY <2>4, <2>9, <3>1, SerialWriteOff
    <3>2. CASE txn[s].i = i
      <4>1. new.total = row.total /\ new.paid = row.total /\ new.status = "written_off"
        BY <2>9, <3>2, SerialWriteOff
      <4> HIDE DEF before, after, gone, gone1, row, new
      <4>2. QED BY <1>2, <2>1, <2>2, <4>1
    <3>3. QED BY <3>1, <3>2
  <2>10. CASE invoice' = invoice
    BY <2>4, <2>10
  <2>11. QED BY <2>5, <2>6, <2>7, <2>8, <2>9, <2>10, BookWriters
<1>8. QED BY <1>5, <1>6, <1>7

LEMMA KeptIsPaidInit == Init => KeptIsPaid
<1> SUFFICES ASSUME Init PROVE KeptIsPaid
  OBVIOUS
<1>1. Money
  BY MoneyInit
<1>2. ASSUME NEW i \in Invoice
      PROVE  /\ invoice[i].paid = 0 /\ invoice[i].total \in Nat
             /\ ReceivedIn(payment, receipt, i) = 0
             /\ ReturnedIn(refund, i) \in Nat
  <2>1. invoice[i].paid = 0 /\ invoice[i].total \in Nat
    BY ConstantsAssumption DEF Init
  <2>2. ReturnedIn(refund, i) \in Nat
    BY <1>1, AmountsAre, ReturnedType
  <2>3. {p \in Payment : receipt[p] # 0 /\ For[p] = i} = {}
    BY DEF Init
  <2>4. ReceivedIn(payment, receipt, i) = AmountOf(payment, {})
    BY <2>3, Zenon DEF ReceivedIn
  <2>5. QED BY <2>1, <2>2, <2>4, AmountOfNone
<1>3. QED BY <1>2 DEF KeptIsPaid

LEMMA KeptIsPaidStep ==
    ASSUME OneRequest, Serial, Money', [Next]_vars
    PROVE  KeptIsPaid'
<1> SUFFICES ASSUME NEW i \in Invoice
             PROVE  /\ invoice'[i].paid <= invoice'[i].total
                    /\ ReceivedIn(payment', receipt', i) <= invoice'[i].paid + ReturnedIn(refund', i)
  BY DEF KeptIsPaid, ReceivedIn, ReturnedIn, ReturnedIds
<1> DEFINE before == ReceivedIn(payment, receipt, i)
           after  == ReceivedIn(payment', receipt', i)
           gone   == ReturnedIn(refund, i)
           gone1  == ReturnedIn(refund', i)
           paid   == invoice[i].paid
           paid1  == invoice'[i].paid
<1>1. /\ paid1 <= invoice'[i].total
      /\ \/ paid1 - paid = (after - gone1) - (before - gone)
         \/ after = before /\ gone1 = gone /\ paid1 >= paid
  BY MoneyMoves
<1>2. before <= paid + gone
  BY DEF Serial, KeptIsPaid
<1>3. before \in Nat /\ after \in Nat /\ gone \in Nat /\ gone1 \in Nat /\ paid \in Nat /\ paid1 \in Nat
  <2>1. before \in Nat /\ after \in Nat
    BY ReceivedGrows DEF Serial
  <2>2. refund' \in [RefundId -> RefundRow] /\ invoice' \in [Invoice -> InvoiceRow]
    BY DEF Money, Typed, TypeOK
  <2>3. \A id \in RefundId : refund'[id].amount \in Nat /\ refund[id].amount \in Nat
    BY <2>2, AmountsAre DEF RefundRow, Serial
  <2>4. gone \in Nat /\ gone1 \in Nat
    BY <2>3, ReturnedType
  <2>5. paid \in Nat /\ paid1 \in Nat
    BY <2>2 DEF Serial, Money, Typed, TypeOK, InvoiceRow
  <2>6. QED BY <2>1, <2>4, <2>5
<1> HIDE DEF before, after, gone, gone1, paid, paid1
<1>4. after <= paid1 + gone1
  BY <1>1, <1>2, <1>3
<1>5. QED BY <1>1, <1>4 DEF after, gone1, paid1

LEMMA SerialInit == Init => Serial
BY MoneyInit, BoundsInit, BlankInit, InstallmentsInit, UpToDateInit, KeptIsPaidInit DEF Serial

LEMMA SerialStep ==
    ASSUME OneRequest, "approve_auto" \notin Ops, Serial, [Next]_vars
    PROVE  Serial'
<1>1. Money /\ Typed /\ RefundsInBounds /\ Blank /\ InstallmentsTyped /\ UpToDate
  BY DEF Serial, Money
<1>2. Money'
  BY <1>1, MoneyStep
<1>3. RefundsInBounds'
  BY <1>1, <1>2, BoundsStep
<1>4. Blank' /\ InstallmentsTyped' /\ UpToDate'
  BY <1>1, BlankStep, InstallmentsStep, UpToDateStep
<1>5. KeptIsPaid'
  BY <1>2, KeptIsPaidStep
<1>6. QED BY <1>2, <1>3, <1>4, <1>5 DEF Serial

(* Where requests do not overlap and nobody approves the refund of an      *)
(* excess (which takes from the invoice what it never got), what counts as *)
(* paid moves exactly as the money kept for the invoice; only a write-off  *)
(* moves it otherwise.                                                     *)
THEOREM PaidFollowsMoney ==
    ASSUME OneRequest, "approve_auto" \notin Ops
    PROVE  Spec => PaidMovesWithMoney
<1>1. Serial /\ [Next]_vars => Serial'
  BY SerialStep
<1>2. Serial /\ Serial' /\ [Next]_vars =>
          [\A i \in Invoice : invoice'[i].paid - invoice[i].paid = Kept(i)' - Kept(i)
                                  \/ invoice'[i].status = "written_off"]_vars
  <2> SUFFICES ASSUME Serial, Serial', [Next]_vars, NEW i \in Invoice
               PROVE  \/ invoice'[i].paid - invoice[i].paid = Kept(i)' - Kept(i)
                      \/ invoice'[i].status = "written_off"
    OBVIOUS
  <2>1. Money'
    BY DEF Serial
  <2>2. \/ invoice'[i].paid - invoice[i].paid
             = (ReceivedIn(payment', receipt', i) - ReturnedIn(refund', i))
                   - (ReceivedIn(payment, receipt, i) - ReturnedIn(refund, i))
        \/ invoice'[i].status = "written_off"
    BY <2>1, MoneyMoves
  <2>3. QED BY <2>2, KeptIs, Zenon
<1>3. QED BY <1>1, <1>2, SerialInit, PTL DEF Spec, PaidMovesWithMoney

-----------------------------------------------------------------------------
(* The books as InvoiceLedger sees them.  Its operations on a head and on  *)
(* installments are those of this module.                                  *)
LEMMA LedgerRows ==
    ASSUME NEW rows, NEW amount
    PROVE  /\ Ledger!SpreadCredit(rows, amount) = SpreadCredit(rows, amount)
           /\ Ledger!SpreadDebit(rows, amount) = SpreadDebit(rows, amount)
           /\ Ledger!CutRows(rows, amount) = CutRows(rows, amount)
           /\ Ledger!WriteOffRows(rows) = WriteOffRows(rows)
<1>1. ASSUME NEW room, NEW n PROVE Ledger!Taken(room, n) = Taken(room, n)
  <2>1. Ledger!Remaining(room, n) = Remaining(room, n)
    BY Zenon DEF Ledger!Remaining, Remaining, Ledger!Monus, Monus
  <2>2. QED BY <2>1, Zenon DEF Ledger!Taken, Taken, Ledger!Least, Least
<1>2. ASSUME NEW room, NEW n PROVE Ledger!NewestFirst(room, n) = NewestFirst(room, n)
  BY <1>1, Zenon DEF Ledger!NewestFirst, NewestFirst, Ledger!Reverse, Reverse
<1>3. ASSUME NEW row, NEW n
      PROVE  /\ Ledger!RowWithPaid(row, n) = RowWithPaid(row, n)
             /\ Ledger!RowAfterRefund(row, n) = RowAfterRefund(row, n)
             /\ Ledger!RowWithAmount(row, n) = RowWithAmount(row, n)
             /\ Ledger!RowWrittenOff(row) = RowWrittenOff(row)
             /\ Ledger!Unpaid(row) = Unpaid(row)
             /\ Ledger!Creditable(row) = Creditable(row)
  BY Zenon DEF Ledger!RowWithPaid, RowWithPaid, Ledger!RowAfterRefund, RowAfterRefund,
               Ledger!RowWithAmount, RowWithAmount, Ledger!RowWrittenOff, RowWrittenOff,
               Ledger!Unpaid, Unpaid, Ledger!Creditable, Creditable,
               Ledger!Monus, Monus, Ledger!StatusOf, StatusOf
<1>4. Ledger!SpreadCredit(rows, amount) = SpreadCredit(rows, amount)
  BY <1>1, <1>3, Zenon DEF Ledger!SpreadCredit, SpreadCredit
<1>5. Ledger!SpreadDebit(rows, amount) = SpreadDebit(rows, amount)
  BY <1>2, <1>3, Zenon DEF Ledger!SpreadDebit, SpreadDebit
<1>6. Ledger!CutRows(rows, amount) = CutRows(rows, amount)
  BY <1>2, <1>3, Zenon DEF Ledger!CutRows, CutRows
<1>7. Ledger!WriteOffRows(rows) = WriteOffRows(rows)
  BY <1>3, Zenon DEF Ledger!WriteOffRows, WriteOffRows
<1>8. QED BY <1>4, <1>5, <1>6, <1>7

(* The money of an invoice, by its columns.                                *)
Columns(total, paid, status) == [total |-> total, paid |-> paid, status |-> status]

LEMMA LedgerHeads ==
    ASSUME NEW row \in InvoiceRow, NEW amount \in Nat
    PROVE  /\ Ledger!Balance(MoneyOf(row)) = Balance(row)
           /\ MoneyOf(row).paid = row.paid /\ MoneyOf(row).status = row.status
           /\ MoneyOf(SavePaid(row, Credit(row, amount))) = Ledger!Credit(MoneyOf(row), amount)
           /\ MoneyOf(SavePaid(row, Debit(row, amount))) = Ledger!Debit(MoneyOf(row), amount)
           /\ MoneyOf(SaveTotal(row, CutTotal(row, amount))) = Ledger!CutTotal(MoneyOf(row), amount)
           /\ MoneyOf(SavePaid(row, WriteOff(row))) = Ledger!WriteOff(MoneyOf(row))
<1> DEFINE t == row.total
           p == row.paid
<1>1. MoneyOf(row) = Columns(t, p, row.status)
  BY DEF MoneyOf, Columns
<1>2. MoneyOf(row).paid = p /\ MoneyOf(row).status = row.status /\ MoneyOf(row).total = t
  BY DEF MoneyOf
<1>3. Ledger!Balance(MoneyOf(row)) = Balance(row)
  BY <1>2 DEF Ledger!Balance, Balance, Ledger!Monus, Monus
<1>4. ASSUME NEW a, NEW b PROVE Ledger!StatusOf(a, b) = StatusOf(a, b) /\ Ledger!Monus(a, b) = Monus(a, b)
  BY Zenon DEF Ledger!StatusOf, StatusOf, Ledger!Monus, Monus
<1> DEFINE m == MoneyOf(row)
<1>5. ASSUME NEW n, NEW z
      PROVE  /\ [m EXCEPT !.paid = n, !.status = z] = Columns(t, n, z)
             /\ [m EXCEPT !.total = n, !.status = z] = Columns(n, p, z)
  <2> HIDE DEF m
  <2> DEFINE st == row.status
  <2>1. m = Columns(t, p, st)
    BY <1>1 DEF m
  <2> HIDE DEF t, p, st
  <2>2. [m EXCEPT !.paid = n] = Columns(t, n, st)
    BY <2>1 DEF Columns
  <2>3. [m EXCEPT !.total = n] = Columns(n, p, st)
    BY <2>1 DEF Columns
  <2>4. ASSUME NEW a, NEW b PROVE [Columns(a, b, st) EXCEPT !.status = z] = Columns(a, b, z)
    BY DEF Columns
  <2>5. [[m EXCEPT !.paid = n] EXCEPT !.status = z] = Columns(t, n, z)
    BY <2>2, <2>4
  <2>6. [[m EXCEPT !.total = n] EXCEPT !.status = z] = Columns(n, p, z)
    BY <2>3, <2>4
  <2>7. QED BY <2>5, <2>6
<1>6. ASSUME NEW n
      PROVE  /\ Ledger!WithPaid(m, n) = Columns(t, n, StatusOf(t, n))
             /\ Ledger!WithTotal(m, n) = Columns(n, p, StatusOf(n, p))
             /\ Ledger!WriteOff(m) = Columns(t, t, "written_off")
  <2>1. m.total = t /\ m.paid = p
    BY <1>2
  <2>2. Ledger!StatusOf(t, n) = StatusOf(t, n) /\ Ledger!StatusOf(n, p) = StatusOf(n, p)
    BY <1>4
  <2> HIDE DEF m, t, p
  <2>3. Ledger!WithPaid(m, n) = Columns(t, n, StatusOf(t, n))
    <3>1. Ledger!WithPaid(m, n) = [m EXCEPT !.paid = n, !.status = StatusOf(t, n)]
      BY <2>1, <2>2, Zenon DEF Ledger!WithPaid
    <3>2. QED BY <1>5, <3>1, Zenon
  <2>4. Ledger!WithTotal(m, n) = Columns(n, p, StatusOf(n, p))
    <3>1. Ledger!WithTotal(m, n) = [m EXCEPT !.total = n, !.status = StatusOf(n, p)]
      BY <2>1, <2>2, Zenon DEF Ledger!WithTotal
    <3>2. QED BY <1>5, <3>1, Zenon
  <2>5. Ledger!WriteOff(m) = Columns(t, t, "written_off")
    BY <1>5, <2>1, Zenon DEF Ledger!WriteOff
  <2>6. QED BY <2>3, <2>4, <2>5
<1>7. ASSUME NEW new, NEW a, NEW b, NEW st, new.total = a, new.paid = b, new.status = st
      PROVE  MoneyOf(new) = Columns(a, b, st)
  BY <1>7 DEF MoneyOf, Columns
<1>8. Ledger!Credit(MoneyOf(row), amount) = MoneyOf(SavePaid(row, Credit(row, amount)))
  <2>1. Ledger!Credit(MoneyOf(row), amount) = Columns(t, p + amount, StatusOf(t, p + amount))
    BY <1>2, <1>6, Zenon DEF Ledger!Credit
  <2>2. /\ SavePaid(row, Credit(row, amount)).total = t
        /\ SavePaid(row, Credit(row, amount)).paid = p + amount
        /\ SavePaid(row, Credit(row, amount)).status = StatusOf(t, p + amount)
    BY SavedFields
  <2>3. MoneyOf(SavePaid(row, Credit(row, amount))) = Columns(t, p + amount, StatusOf(t, p + amount))
    BY <1>7, <2>2
  <2>4. QED BY <2>1, <2>3, Zenon
<1>9. Ledger!Debit(MoneyOf(row), amount) = MoneyOf(SavePaid(row, Debit(row, amount)))
  <2> DEFINE left == Monus(p, amount)
  <2>1. Ledger!Debit(MoneyOf(row), amount) = Columns(t, left, StatusOf(t, left))
    BY <1>2, <1>4, <1>6, Zenon DEF Ledger!Debit
  <2>2. /\ SavePaid(row, Debit(row, amount)).total = t
        /\ SavePaid(row, Debit(row, amount)).paid = left
        /\ SavePaid(row, Debit(row, amount)).status = StatusOf(t, left)
    BY SavedFields
  <2>3. MoneyOf(SavePaid(row, Debit(row, amount))) = Columns(t, left, StatusOf(t, left))
    BY <1>7, <2>2
  <2>4. QED BY <2>1, <2>3, Zenon
<1>10. Ledger!CutTotal(MoneyOf(row), amount) = MoneyOf(SaveTotal(row, CutTotal(row, amount)))
  <2> DEFINE left == Monus(t, amount)
  <2>1. Ledger!CutTotal(MoneyOf(row), amount) = Columns(left, p, StatusOf(left, p))
    BY <1>2, <1>4, <1>6, Zenon DEF Ledger!CutTotal
  <2>2. /\ SaveTotal(row, CutTotal(row, amount)).total = left
        /\ SaveTotal(row, CutTotal(row, amount)).paid = p
        /\ SaveTotal(row, CutTotal(row, amount)).status = StatusOf(left, p)
    BY SavedFields
  <2>3. MoneyOf(SaveTotal(row, CutTotal(row, amount))) = Columns(left, p, StatusOf(left, p))
    BY <1>7, <2>2
  <2>4. QED BY <2>1, <2>3, Zenon
<1>11. Ledger!WriteOff(MoneyOf(row)) = MoneyOf(SavePaid(row, WriteOff(row)))
  <2>1. /\ SavePaid(row, WriteOff(row)).total = t
        /\ SavePaid(row, WriteOff(row)).paid = t
        /\ SavePaid(row, WriteOff(row)).status = "written_off"
    BY SavedFields
  <2>2. MoneyOf(SavePaid(row, WriteOff(row))) = Columns(t, t, "written_off")
    BY <1>7, <2>1
  <2>3. QED BY <1>6, <2>2, Zenon
<1>12. QED BY <1>2, <1>3, <1>8, <1>9, <1>10, <1>11, Zenon

(* The money of the invoices, as the ledger reads it.                      *)
Heads == [i \in Invoice |-> MoneyOf(invoice[i])]

LEMMA LedgerInit == Init => Ledger!Init
<1> SUFFICES ASSUME Init PROVE Ledger!Init
  OBVIOUS
<1>1. \A i \in Invoice : invoice[i] = [total |-> Total[i], paid |-> 0, carried |-> FALSE,
                                        status |-> IF Total[i] = 0 THEN "paid" ELSE "due"]
  BY DEF Init
<1>2. ASSUME NEW i \in Invoice PROVE MoneyOf(invoice[i]) = Ledger!NewHead(Total[i])
  <2> DEFINE st == IF Total[i] = 0 THEN "paid" ELSE "due"
  <2>0. invoice[i] = [total |-> Total[i], paid |-> 0, carried |-> FALSE, status |-> st]
    BY <1>1, Zenon
  <2> HIDE DEF st
  <2>1. invoice[i].total = Total[i] /\ invoice[i].paid = 0 /\ invoice[i].status = st
    BY <2>0
  <2> USE DEF st
  <2>2. QED BY <2>1, Zenon DEF MoneyOf, Ledger!NewHead
<1>3. inst = [i \in Invoice |-> Ledger!NewRows(Split[i])]
  BY DEF Init, Ledger!NewRows
<1>4. [i \in Invoice |-> MoneyOf(invoice[i])] = [i \in Invoice |-> Ledger!NewHead(Total[i])]
  BY <1>2
<1>5. QED BY <1>3, <1>4, Zenon DEF Ledger!Init

(* Only the money of one invoice moves.                                    *)
LEMMA HeadMoves ==
    ASSUME NEW i \in Invoice, \A j \in Invoice : j # i => invoice'[j] = invoice[j]
    PROVE  Heads' = [Heads EXCEPT ![i] = MoneyOf(invoice'[i])]
<1>1. Heads' = [j \in Invoice |-> MoneyOf(invoice'[j])]
  BY DEF Heads
<1>2. ASSUME NEW j \in Invoice
      PROVE  MoneyOf(invoice'[j]) = IF j = i THEN MoneyOf(invoice'[i]) ELSE MoneyOf(invoice[j])
  BY Zenon
<1>3. [Heads EXCEPT ![i] = MoneyOf(invoice'[i])]
          = [j \in Invoice |-> IF j = i THEN MoneyOf(invoice'[i]) ELSE MoneyOf(invoice[j])]
  BY DEF Heads
<1>4. QED BY <1>1, <1>2, <1>3

LEMMA SameBooks ==
    ASSUME \A j \in Invoice : MoneyOf(invoice'[j]) = MoneyOf(invoice[j]), inst' = inst
    PROVE  Heads' = Heads /\ inst' = inst
<1>1. Heads' = [j \in Invoice |-> MoneyOf(invoice'[j])]
  BY DEF Heads
<1>2. Heads = [j \in Invoice |-> MoneyOf(invoice[j])]
  BY DEF Heads
<1>3. QED BY <1>1, <1>2

(* The ledger's operations, as they read in terms of these books.          *)
LEMMA LedgerSteps ==
    ASSUME NEW i \in Invoice, NEW amount \in Nat, amount # 0
    PROVE  /\ /\ amount <= Ledger!Balance(Heads[i])
              /\ Heads' = [Heads EXCEPT ![i] = Ledger!Credit(Heads[i], amount)]
              /\ inst' = [inst EXCEPT ![i] = Ledger!SpreadCredit(inst[i], amount)]
              => Ledger!ApplyAmount(i)
           /\ /\ amount <= Heads[i].paid
              /\ Heads' = [Heads EXCEPT ![i] = Ledger!Debit(Heads[i], amount)]
              /\ inst' = [inst EXCEPT ![i] = Ledger!SpreadDebit(inst[i], amount)]
              => Ledger!ReverseAmount(i)
           /\ /\ amount <= Ledger!Balance(Heads[i])
              /\ Heads' = [Heads EXCEPT ![i] = Ledger!CutTotal(Heads[i], amount)]
              /\ inst' = [inst EXCEPT ![i] = Ledger!CutRows(inst[i], amount)]
              => Ledger!ApproveCreditNote(i)
<1>1. ASSUME NEW n PROVE amount <= n => amount \in 1..n
  OBVIOUS
<1>2. QED BY <1>1, Zenon DEF Heads, Ledger!ApplyAmount, Ledger!ReverseAmount, Ledger!ApproveCreditNote

(* Every step of one request is a step of the ledger, or leaves it alone.  *)
LEMMA LedgerStep ==
    ASSUME OneRequest, "approve_auto" \notin Ops, Serial, [Next]_vars
    PROVE  [Ledger!Next]_(Ledger!vars)
<1>1. Typed /\ InstallmentsTyped /\ invoice \in [Invoice -> InvoiceRow]
  BY DEF Serial, Money, Typed, TypeOK
<1>2. Heads' = Heads /\ inst' = inst => UNCHANGED Ledger!vars
  BY Zenon DEF Ledger!vars, Heads
<1>3. ASSUME NEW i \in Invoice,
             \/ Ledger!ApplyAmount(i) \/ Ledger!ReverseAmount(i)
             \/ Ledger!ApproveCreditNote(i) \/ Ledger!WriteOffInvoice(i)
      PROVE  Ledger!Next
  BY <1>3, Zenon DEF Ledger!Next
<1>4. ASSUME NEW i \in Invoice, \A j \in Invoice : j # i => invoice'[j] = invoice[j],
             invoice'[i] = invoice[i], inst' = [inst EXCEPT ![i] = inst[i]]
      PROVE  UNCHANGED Ledger!vars
  <2>1. inst' = inst
    BY <1>1, <1>4 DEF InstallmentsTyped
  <2>2. \A j \in Invoice : MoneyOf(invoice'[j]) = MoneyOf(invoice[j])
    BY <1>4, Zenon
  <2>3. QED BY <1>2, <2>1, <2>2, SameBooks, Zenon
<1>5. ASSUME NEW i \in Invoice
      PROVE  /\ invoice[i] \in InvoiceRow /\ inst[i] \in Seq(RowMoney)
             /\ Heads[i] = MoneyOf(invoice[i])
  BY <1>1 DEF InstallmentsTyped, Heads
<1>6. ASSUME NEW s \in Session, CommitCapture(s) PROVE [Ledger!Next]_(Ledger!vars)
  <2> DEFINE i == txn[s].i
             a == Applied(txn[s])
  <2>1. /\ i \in Invoice /\ a \in Nat /\ a <= Balance(invoice[i])
        /\ a = 0 => invoice'[i] = invoice[i]
        /\ a # 0 => invoice'[i] = SavePaid(invoice[i], Credit(invoice[i], a))
        /\ \A j \in Invoice : j # i => invoice'[j] = invoice[j]
    BY <1>6, SerialCapture
  <2>2. inst' = [inst EXCEPT ![i] = SpreadCredit(inst[i], a)]
    BY <1>1, <1>6, WriterWrites
  <2> HIDE DEF i, a
  <2>3. CASE a = 0
    <3>1. SpreadCredit(inst[i], a) = inst[i]
      BY <1>5, <2>1, <2>3, SpreadNothing
    <3>2. QED BY <1>4, <2>1, <2>2, <2>3, <3>1, Zenon
  <2>4. CASE a # 0
    <3>1. /\ Ledger!Balance(Heads[i]) = Balance(invoice[i])
          /\ MoneyOf(invoice'[i]) = Ledger!Credit(Heads[i], a)
      BY <1>5, <2>1, <2>4, LedgerHeads, Zenon
    <3>2. Heads' = [Heads EXCEPT ![i] = Ledger!Credit(Heads[i], a)]
      BY <2>1, <3>1, HeadMoves, Zenon
    <3>3. inst' = [inst EXCEPT ![i] = Ledger!SpreadCredit(inst[i], a)]
      BY <2>2, LedgerRows, Zenon
    <3>4. a <= Ledger!Balance(Heads[i])
      BY <2>1, <3>1, Zenon
    <3>5. Ledger!ApplyAmount(i)
      BY <2>1, <2>4, <3>2, <3>3, <3>4, LedgerSteps, Zenon
    <3>6. QED BY <1>3, <2>1, <3>5
  <2>5. QED BY <2>3, <2>4
<1>7. ASSUME NEW s \in Session, CommitRefund(s) PROVE [Ledger!Next]_(Ledger!vars)
  <2> DEFINE i == txn[s].i
             a == txn[s].amount
  <2>1. /\ i \in Invoice /\ a \in Nat /\ a # 0 /\ a <= invoice[i].paid
        /\ invoice'[i] = SavePaid(invoice[i], Debit(invoice[i], a))
        /\ \A j \in Invoice : j # i => invoice'[j] = invoice[j]
    BY <1>7, SerialRefund
  <2>2. inst' = [inst EXCEPT ![i] = SpreadDebit(inst[i], a)]
    BY <1>1, <1>7, WriterWrites
  <2> HIDE DEF i, a
  <2>3. /\ Heads[i].paid = invoice[i].paid
        /\ MoneyOf(invoice'[i]) = Ledger!Debit(Heads[i], a)
    BY <1>5, <2>1, LedgerHeads, Zenon
  <2>4. Heads' = [Heads EXCEPT ![i] = Ledger!Debit(Heads[i], a)]
    BY <2>1, <2>3, HeadMoves, Zenon
  <2>5. inst' = [inst EXCEPT ![i] = Ledger!SpreadDebit(inst[i], a)]
    BY <2>2, LedgerRows, Zenon
  <2>6. a <= Heads[i].paid
    BY <2>1, <2>3, Zenon
  <2>7. Ledger!ReverseAmount(i)
    BY <2>1, <2>4, <2>5, <2>6, LedgerSteps, Zenon
  <2>8. QED BY <1>3, <2>1, <2>7
<1>8. ASSUME NEW s \in Session, CommitNote(s) PROVE [Ledger!Next]_(Ledger!vars)
  <2> DEFINE i == txn[s].i
             a == Applied(txn[s])
  <2>1. /\ i \in Invoice /\ a \in Nat /\ a <= Balance(invoice[i])
        /\ a = 0 => invoice'[i] = invoice[i]
        /\ a # 0 => invoice'[i] = SaveTotal(invoice[i], CutTotal(invoice[i], a))
        /\ \A j \in Invoice : j # i => invoice'[j] = invoice[j]
    BY <1>8, SerialNote
  <2>2. inst' = [inst EXCEPT ![i] = CutRows(inst[i], a)]
    BY <1>1, <1>8, WriterWrites
  <2> HIDE DEF i, a
  <2>3. CASE a = 0
    <3>1. CutRows(inst[i], a) = inst[i]
      BY <1>5, <2>1, <2>3, SpreadNothing
    <3>2. QED BY <1>4, <2>1, <2>2, <2>3, <3>1, Zenon
  <2>4. CASE a # 0
    <3>1. /\ Ledger!Balance(Heads[i]) = Balance(invoice[i])
          /\ MoneyOf(invoice'[i]) = Ledger!CutTotal(Heads[i], a)
      BY <1>5, <2>1, <2>4, LedgerHeads, Zenon
    <3>2. Heads' = [Heads EXCEPT ![i] = Ledger!CutTotal(Heads[i], a)]
      BY <2>1, <3>1, HeadMoves, Zenon
    <3>3. inst' = [inst EXCEPT ![i] = Ledger!CutRows(inst[i], a)]
      BY <2>2, LedgerRows, Zenon
    <3>4. a <= Ledger!Balance(Heads[i])
      BY <2>1, <3>1, Zenon
    <3>5. Ledger!ApproveCreditNote(i)
      BY <2>1, <2>4, <3>2, <3>3, <3>4, LedgerSteps, Zenon
    <3>6. QED BY <1>3, <2>1, <3>5
  <2>5. QED BY <2>3, <2>4
<1>9. ASSUME NEW s \in Session, CommitWriteOff(s) PROVE [Ledger!Next]_(Ledger!vars)
  <2> DEFINE i == txn[s].i
  <2>1. /\ i \in Invoice /\ invoice[i].status \notin {"paid", "written_off"}
        /\ invoice'[i] = SavePaid(invoice[i], WriteOff(invoice[i]))
        /\ \A j \in Invoice : j # i => invoice'[j] = invoice[j]
    BY <1>9, SerialWriteOff
  <2>2. inst' = [inst EXCEPT ![i] = WriteOffRows(inst[i])]
    BY <1>1, <1>9, WriterWrites
  <2> HIDE DEF i
  <2>3. /\ Heads[i].status = invoice[i].status
        /\ MoneyOf(invoice'[i]) = Ledger!WriteOff(Heads[i])
    <3>1. 0 \in Nat
      OBVIOUS
    <3>2. QED BY <1>5, <2>1, <3>1, LedgerHeads, Zenon
  <2>4. Heads' = [Heads EXCEPT ![i] = Ledger!WriteOff(Heads[i])]
    BY <2>1, <2>3, HeadMoves, Zenon
  <2>5. inst' = [inst EXCEPT ![i] = Ledger!WriteOffRows(inst[i])]
    BY <2>2, LedgerRows, Zenon
  <2>6. Heads[i].status \notin {"paid", "written_off"}
    BY <2>1, <2>3
  <2>7. Ledger!WriteOffInvoice(i)
    BY <2>4, <2>5, <2>6, Zenon DEF Ledger!WriteOffInvoice, Heads
  <2>8. QED BY <1>3, <2>1, <2>7
<1>10. ASSUME NEW s \in Session, MarkCarried(s) PROVE UNCHANGED Ledger!vars
  <2>1. inst' = inst
    BY <1>10 DEF MarkCarried
  <2>2. ASSUME NEW i \in Invoice PROVE MoneyOf(invoice'[i]) = MoneyOf(invoice[i])
    BY <1>1, <1>10, CarriedFields, Zenon DEF MoneyOf
  <2>3. QED BY <1>2, <2>1, <2>2, SameBooks, Zenon
<1>11. CASE invoice' = invoice /\ inst' = inst
  <2>1. Heads' = Heads
    BY <1>11 DEF Heads
  <2>2. QED BY <1>2, <1>11, <2>1
<1>12. QED BY <1>6, <1>7, <1>8, <1>9, <1>10, <1>11, BookWriters

(* Requests that do not overlap implement InvoiceLedger: each committed    *)
(* request is one operation on one invoice and its installments together,  *)
(* or leaves the books alone.  (The refund of an excess would take from    *)
(* the invoice what it never got, which the ledger does not allow.)        *)
THEOREM RequestsKeepLedger ==
    ASSUME OneRequest, "approve_auto" \notin Ops
    PROVE  Spec => InvoicesAreLedgers
<1>1. Serial /\ [Next]_vars => Serial'
  BY SerialStep
<1>2. Serial /\ [Next]_vars => [Ledger!Next]_(Ledger!vars)
  BY LedgerStep
<1>3. QED BY <1>1, <1>2, SerialInit, LedgerInit, PTL DEF Spec, InvoicesAreLedgers, Ledger!Spec

-----------------------------------------------------------------------------
(* Sums over the installments of an invoice, by the entries of a sequence. *)

Cells(f)   == [k \in DOMAIN f |-> [amount |-> f[k]]]
Part(f, S) == AmountOf(Cells(f), S)

(* Sum adds up what AmountOf adds up, if each entry is a row.              *)
LEMMA SumIsPart ==
    ASSUME NEW f, IsFiniteSet(DOMAIN f)
    PROVE  Sum(f) = Part(f, DOMAIN f)
<1> DEFINE D == DOMAIN f
           rows == Cells(f)
           IsSum(total) == total = [s \in SUBSET D |->
                              IF s = {} THEN 0 ELSE f[Pick(s)] + total[s \ {Pick(s)}]]
<1>1. Sum(f) = (CHOOSE total : IsSum(total))[D]
  BY DEF Sum, MapThenSumSet, MapThenFoldSet, Pick
<1>2. ASSUME NEW s \in SUBSET D, s # {} PROVE rows[Pick(s)].amount = f[Pick(s)]
  BY <1>2, PickIn DEF Cells
<1>3. ASSUME NEW total PROVE IsSum(total) <=> IsTable(total, rows, D)
  <2> HIDE DEF rows, D
  <2>1. [s \in SUBSET D |-> IF s = {} THEN 0 ELSE f[Pick(s)] + total[s \ {Pick(s)}]]
        = [s \in SUBSET D |-> IF s = {} THEN 0 ELSE rows[Pick(s)].amount + total[s \ {Pick(s)}]]
    BY <1>2
  <2> QED BY <2>1, Zenon DEF IsTable
<1> HIDE DEF rows, D, IsSum
<1>4. IsFiniteSet(D)
  BY DEF D
<1>5. \E total : IsSum(total)
  BY <1>3, <1>4, TableExists, Zenon
<1> DEFINE ours == CHOOSE total : IsSum(total)
           theirs == CHOOSE total : IsTable(total, rows, D)
<1>6. IsTable(ours, rows, D) /\ IsTable(theirs, rows, D)
  BY <1>3, <1>5, Zenon
<1>7. Sum(f) = ours[D] /\ AmountOf(rows, D) = theirs[D]
  BY <1>1, AmountOfTable, Zenon
<1> HIDE DEF ours, theirs
<1>8. ours[D] = theirs[D]
  BY <1>4, <1>6, TablesAgree
<1> QED BY <1>7, <1>8, Zenon DEF Part, rows, D

LEMMA PartType ==
    ASSUME NEW f, NEW S \in SUBSET DOMAIN f, IsFiniteSet(S), \A k \in S : f[k] \in Nat
    PROVE  Part(f, S) \in Nat
<1>1. \A k \in S : Cells(f)[k].amount \in Nat
  BY DEF Cells
<1> QED BY <1>1, AmountOfType DEF Part

LEMMA PartNone == ASSUME NEW f PROVE Part(f, {}) = 0
BY AmountOfNone DEF Part

LEMMA PartMore ==
    ASSUME NEW f, NEW S \in SUBSET DOMAIN f, IsFiniteSet(S), NEW x \in DOMAIN f, x \notin S,
           \A k \in S \cup {x} : f[k] \in Nat
    PROVE  Part(f, S \cup {x}) = Part(f, S) + f[x]
<1>1. \A k \in S \cup {x} : Cells(f)[k].amount = f[k]
  BY DEF Cells
<1>2. \A k \in S \cup {x} : Cells(f)[k].amount \in Nat
  BY <1>1
<1>3. AmountOf(Cells(f), S \cup {x}) = AmountOf(Cells(f), S) + Cells(f)[x].amount
  BY <1>2, AmountOfMore
<1>4. Cells(f)[x].amount = f[x]
  BY <1>1
<1> QED BY <1>3, <1>4 DEF Part

(* Entry by entry.                                                         *)
LEMMA PartUpTo ==
    ASSUME NEW n \in Nat, NEW f \in [1..n -> Nat]
    PROVE  /\ Part(f, 1..0) = 0
           /\ \A k \in 0..n : Part(f, 1..k) \in Nat
           /\ \A k \in 1..n : Part(f, 1..k) = Part(f, 1..(k - 1)) + f[k]
           /\ Sum(f) = Part(f, 1..n)
           /\ Sum(f) \in Nat
<1>1. Part(f, 1..0) = 0
  <2>1. 1..0 = {}
    OBVIOUS
  <2> QED BY <2>1, PartNone
<1>2. ASSUME NEW k \in 0..n PROVE Part(f, 1..k) \in Nat
  <2> DEFINE S == 1..k
  <2>1. IsFiniteSet(S)
    BY FS_Interval
  <2>2. S \in SUBSET DOMAIN f /\ \A j \in S : f[j] \in Nat
    OBVIOUS
  <2> HIDE DEF S
  <2>3. Part(f, S) \in Nat
    BY <2>1, <2>2, PartType
  <2> QED BY <2>3 DEF S
<1>3. ASSUME NEW k \in 1..n PROVE Part(f, 1..k) = Part(f, 1..(k - 1)) + f[k]
  <2> DEFINE S == 1..(k - 1)
  <2>1. IsFiniteSet(S)
    <3>1. k - 1 \in Int
      OBVIOUS
    <3> QED BY <3>1, FS_Interval
  <2>2. /\ S \in SUBSET DOMAIN f /\ \A j \in S \cup {k} : f[j] \in Nat
        /\ k \in DOMAIN f /\ k \notin S
    OBVIOUS
  <2>3. 1..k = S \cup {k}
    OBVIOUS
  <2> HIDE DEF S
  <2>4. Part(f, S \cup {k}) = Part(f, S) + f[k]
    BY <2>1, <2>2, PartMore
  <2> QED BY <2>3, <2>4, Zenon DEF S
<1>4. DOMAIN f = 1..n /\ IsFiniteSet(1..n)
  BY FS_Interval
<1>5. Sum(f) = Part(f, 1..n)
  BY <1>4, SumIsPart, Zenon
<1>6. n \in 0..n
  OBVIOUS
<1> QED BY <1>1, <1>2, <1>3, <1>5, <1>6, Zenon

LEMMA SumOfTwo ==
    ASSUME NEW n \in Nat, NEW f \in [1..n -> Nat], NEW g \in [1..n -> Nat], NEW h \in [1..n -> Nat],
           \A k \in 1..n : h[k] = f[k] + g[k]
    PROVE  Sum(h) = Sum(f) + Sum(g)
<1> DEFINE F(k) == Part(f, 1..k)
           G(k) == Part(g, 1..k)
           H(k) == Part(h, 1..k)
           Good == {k \in 0..n : H(k) = F(k) + G(k)}
<1>1. /\ F(0) = 0 /\ G(0) = 0 /\ H(0) = 0
      /\ \A k \in 0..n : F(k) \in Nat /\ G(k) \in Nat /\ H(k) \in Nat
      /\ \A k \in 1..n : F(k) = F(k - 1) + f[k] /\ G(k) = G(k - 1) + g[k] /\ H(k) = H(k - 1) + h[k]
      /\ Sum(f) = F(n) /\ Sum(g) = G(n) /\ Sum(h) = H(n)
  BY PartUpTo
<1> HIDE DEF F, G, H
<1>2. 0 \in Good
  BY <1>1
<1>3. ASSUME NEW k \in 1..n, k - 1 \in Good PROVE k \in Good
  <2>1. k - 1 \in 0..n /\ k \in 0..n
    OBVIOUS
  <2>2. H(k - 1) = F(k - 1) + G(k - 1)
    BY <1>3
  <2>3. F(k - 1) \in Nat /\ G(k - 1) \in Nat /\ f[k] \in Nat /\ g[k] \in Nat
    BY <1>1, <2>1
  <2>4. H(k) = F(k) + G(k)
    BY <1>1, <2>2, <2>3
  <2> QED BY <2>1, <2>4
<1> HIDE DEF Good
<1>4. n \in Good
  <2>1. \A k \in 0..n : k \in Good
    BY <1>2, <1>3, Climb
  <2> QED BY <2>1
<1> QED BY <1>1, <1>4 DEF Good

LEMMA SumIsSame ==
    ASSUME NEW n \in Nat, NEW f \in [1..n -> Nat], NEW g \in [1..n -> Nat],
           \A k \in 1..n : f[k] = g[k]
    PROVE  Sum(f) = Sum(g)
<1>1. f = g
  OBVIOUS
<1> QED BY <1>1

(* The order of the entries does not matter.                               *)
LEMMA SumOfReverse ==
    ASSUME NEW room \in Seq(Nat)
    PROVE  Sum(Reverse(room)) = Sum(room)
<1> DEFINE n == Len(room)
           back == Reverse(room)
<1>1. n \in Nat /\ room \in [1..n -> Nat]
  OBVIOUS
<1>2. back \in [1..n -> Nat] /\ \A k \in 1..n : back[k] = room[(n - k) + 1]
  <2>1. back = [k \in 1..n |-> room[(n - k) + 1]]
    BY DEF Reverse
  <2>2. \A k \in 1..n : (n - k) + 1 \in 1..n
    BY <1>1
  <2> HIDE DEF n, back
  <2> QED BY <1>1, <2>1, <2>2
<1> HIDE DEF n, back
<1> DEFINE B(k) == Part(back, 1..k)
           R(k) == Part(room, ((n - k) + 1)..n)
           Good == {k \in 0..n : B(k) = R(k)}
<1>3. B(0) = 0 /\ Sum(back) = B(n) /\ \A k \in 1..n : B(k) = B(k - 1) + back[k]
  BY <1>1, <1>2, PartUpTo
<1>4. R(0) = 0
  <2>1. ((n - 0) + 1)..n = {}
    BY <1>1
  <2> QED BY <2>1, PartNone
<1>5. ASSUME NEW k \in 1..n PROVE R(k) = R(k - 1) + room[(n - k) + 1]
  <2> DEFINE x == (n - k) + 1
             S == ((n - (k - 1)) + 1)..n
  <2>1. /\ IsFiniteSet(S) /\ S \in SUBSET (1..n) /\ x \in 1..n /\ x \notin S
        /\ x..n = S \cup {x}
    <3>1. IsFiniteSet(S)
      BY <1>1, FS_Interval
    <3>2. QED BY <1>1, <3>1
  <2> HIDE DEF S, x
  <2>2. DOMAIN room = 1..n /\ \A j \in S \cup {x} : room[j] \in Nat
    BY <1>1, <2>1
  <2>3. Part(room, S \cup {x}) = Part(room, S) + room[x]
    BY <2>1, <2>2, PartMore
  <2>4. Part(room, x..n) = Part(room, S) + room[x]
    BY <2>1, <2>3, Zenon
  <2> QED BY <2>4 DEF S, x
<1>6. Sum(room) = R(n)
  <2>1. Sum(room) = Part(room, 1..n)
    BY <1>1, PartUpTo
  <2>2. (n - n) + 1 = 1
    BY <1>1
  <2> QED BY <2>1, <2>2
<1> HIDE DEF B, R
<1>7. 0 \in Good
  BY <1>1, <1>3, <1>4
<1>8. ASSUME NEW k \in 1..n, k - 1 \in Good PROVE k \in Good
  <2>1. B(k - 1) = R(k - 1) /\ k \in 0..n
    BY <1>1, <1>8
  <2>2. B(k) = R(k)
    BY <1>2, <1>3, <1>5, <2>1
  <2> QED BY <2>1, <2>2
<1> HIDE DEF Good
<1>9. n \in Good
  <2>1. \A k \in 0..n : k \in Good
    BY <1>1, <1>7, <1>8, Climb
  <2> QED BY <1>1, <2>1
<1>10. B(n) = R(n)
  BY <1>9 DEF Good
<1> QED BY <1>3, <1>6, <1>10 DEF back

-----------------------------------------------------------------------------
(* What the loops over the installments do, taken together: they give what *)
(* there is to give, and in order.                                         *)

LEMMA TakenFull ==
    ASSUME NEW room \in Seq(Nat), NEW amount \in Nat, amount <= Sum(room)
    PROVE  Sum(Taken(room, amount)) = amount
<1> DEFINE n == Len(room)
           got == Taken(room, amount)
           left == Remaining(room, amount)
           G(k) == Part(got, 1..k)
           R(k) == Part(room, 1..k)
           Good == {k \in 0..n : G(k) + left[k] = amount /\ left[k] = Monus(amount, R(k))}
<1>1. n \in Nat /\ room \in [1..n -> Nat] /\ \A k \in 1..n : room[k] \in Nat
  OBVIOUS
<1>2. /\ left[0] = amount
      /\ \A k \in 1..n : left[k] = Monus(left[k - 1], room[k])
  BY <1>1, RemainingIs
<1>3. \A k \in 0..n : left[k] \in Nat
  BY RemainingType
<1>4. got \in [1..n -> Nat] /\ \A k \in 1..n : got[k] = Least(left[k - 1], room[k])
  <2>1. got = [k \in 1..n |-> Least(left[k - 1], room[k])]
    BY DEF Taken
  <2>2. ASSUME NEW k \in 1..n PROVE Least(left[k - 1], room[k]) \in Nat
    <3>1. k - 1 \in 0..n
      BY <1>1
    <3> HIDE DEF left
    <3> QED BY <1>1, <1>3, <3>1, LeastType
  <2> HIDE DEF got, left, n
  <2> QED BY <2>1, <2>2
<1> HIDE DEF n, got, left
<1>5. /\ G(0) = 0 /\ Sum(got) = G(n)
      /\ \A k \in 0..n : G(k) \in Nat
      /\ \A k \in 1..n : G(k) = G(k - 1) + got[k]
  BY <1>1, <1>4, PartUpTo
<1>6. /\ R(0) = 0 /\ Sum(room) = R(n)
      /\ \A k \in 0..n : R(k) \in Nat
      /\ \A k \in 1..n : R(k) = R(k - 1) + room[k]
  BY <1>1, PartUpTo
<1> HIDE DEF G, R
<1>7. 0 \in Good
  BY <1>1, <1>2, <1>5, <1>6 DEF Monus
<1>8. ASSUME NEW k \in 1..n, k - 1 \in Good PROVE k \in Good
  <2> DEFINE a == left[k - 1]
             b == room[k]
             g == G(k - 1)
             r == R(k - 1)
  <2>1. k - 1 \in 0..n /\ k \in 0..n
    BY <1>1
  <2>2. g + a = amount /\ a = Monus(amount, r)
    BY <1>8
  <2>3. a \in Nat /\ b \in Nat /\ g \in Nat /\ r \in Nat
    BY <1>1, <1>3, <1>5, <1>6, <2>1
  <2>4. G(k) = g + Least(a, b) /\ R(k) = r + b /\ left[k] = Monus(a, b)
    BY <1>2, <1>4, <1>5, <1>6
  <2> HIDE DEF a, b, g, r
  <2>5. G(k) + left[k] = amount /\ left[k] = Monus(amount, R(k))
    BY <2>2, <2>3, <2>4 DEF Least, Monus
  <2> QED BY <2>1, <2>5
<1> HIDE DEF Good
<1>9. n \in Good
  <2>1. \A k \in 0..n : k \in Good
    BY <1>1, <1>7, <1>8, Climb
  <2> QED BY <1>1, <2>1
<1>10. G(n) + left[n] = amount /\ left[n] = Monus(amount, R(n)) /\ n \in 0..n
  BY <1>1, <1>9 DEF Good
<1>11. G(n) = amount
  BY <1>5, <1>6, <1>10 DEF Monus
<1> QED BY <1>5, <1>11 DEF got

LEMMA MonusFromMore ==
    ASSUME NEW a \in Nat, NEW b \in Nat PROVE Monus(a, b) > 0 => a > 0
BY DEF Monus

(* An entry gets something only when those before it are full.             *)
LEMMA TakenInOrder ==
    ASSUME NEW room \in Seq(Nat), NEW amount \in Nat,
           NEW k \in 1..Len(room), NEW j \in 1..(k - 1), Taken(room, amount)[k] > 0
    PROVE  Taken(room, amount)[j] = room[j]
<1> DEFINE n == Len(room)
           left == Remaining(room, amount)
           Good == {i \in 0..n : \A h \in 0..i : left[i] > 0 => left[h] > 0}
<1>1. n \in Nat /\ \A i \in 1..n : room[i] \in Nat
  OBVIOUS
<1>2. \A i \in 1..n : left[i] = Monus(left[i - 1], room[i])
  BY <1>1, RemainingIs
<1>3. \A i \in 0..n : left[i] \in Nat
  BY RemainingType
<1>4. \A i \in 1..n : Taken(room, amount)[i] = Least(left[i - 1], room[i])
  BY DEF Taken
<1>5. k \in 1..n /\ j \in 1..(k - 1)
  OBVIOUS
<1> HIDE DEF n, left
<1>6. 0 \in Good
  BY <1>1
<1>7. ASSUME NEW i \in 1..n, i - 1 \in Good PROVE i \in Good
  <2>1. i - 1 \in 0..n /\ i \in 0..n
    BY <1>1
  <2>2. left[i] > 0 => left[i - 1] > 0
    <3>1. left[i] = Monus(left[i - 1], room[i])
      BY <1>2
    <3>2. left[i - 1] \in Nat /\ room[i] \in Nat
      BY <1>1, <1>3, <2>1
    <3> QED BY <3>1, <3>2, MonusFromMore
  <2>3. \A h \in 0..(i - 1) : left[i - 1] > 0 => left[h] > 0
    BY <1>7
  <2>4. ASSUME NEW h \in 0..i PROVE left[i] > 0 => left[h] > 0
    <3>1. CASE h = i
      BY <3>1
    <3>2. CASE h \in 0..(i - 1)
      BY <2>2, <2>3, <3>2
    <3> QED BY <1>1, <3>1, <3>2
  <2> QED BY <2>1, <2>4
<1> HIDE DEF Good
<1>8. k - 1 \in Good
  <2>1. \A i \in 0..n : i \in Good
    BY <1>1, <1>6, <1>7, Climb
  <2>2. k - 1 \in 0..n
    BY <1>1, <1>5
  <2> QED BY <2>1, <2>2
<1>9. left[k - 1] > 0
  <2>1. left[k - 1] \in Nat /\ room[k] \in Nat
    BY <1>1, <1>3, <1>5
  <2>2. Least(left[k - 1], room[k]) > 0
    BY <1>4, <1>5
  <2> QED BY <2>1, <2>2 DEF Least
<1>10. left[j] > 0
  <2>1. j \in 0..(k - 1)
    BY <1>1, <1>5
  <2>2. \A h \in 0..(k - 1) : left[k - 1] > 0 => left[h] > 0
    BY <1>8 DEF Good
  <2> QED BY <1>9, <2>1, <2>2
<1>11. j \in 1..n /\ j - 1 \in 0..n /\ j \in 0..n
  BY <1>1, <1>5
<1>12. left[j] = Monus(left[j - 1], room[j]) /\ left[j - 1] \in Nat /\ room[j] \in Nat
  BY <1>1, <1>2, <1>3, <1>11
<1>13. Least(left[j - 1], room[j]) = room[j]
  BY <1>10, <1>12 DEF Monus, Least
<1> QED BY <1>4, <1>11, <1>13

(* The same from the newest installment on.                                *)
LEMMA NewestIs ==
    ASSUME NEW room \in Seq(Nat), NEW amount \in Nat
    PROVE  LET n    == Len(room)
               back == Reverse(room)
               got  == Taken(back, amount)
           IN  /\ back \in Seq(Nat) /\ Len(back) = n
               /\ \A k \in 1..n : back[k] = room[(n - k) + 1]
               /\ got \in Seq(Nat) /\ Len(got) = n
               /\ NewestFirst(room, amount) = Reverse(got)
               /\ NewestFirst(room, amount) \in [1..n -> Nat]
               /\ \A k \in 1..n : NewestFirst(room, amount)[k] = got[(n - k) + 1]
<1> DEFINE n == Len(room)
           back == Reverse(room)
           got == Taken(back, amount)
           new == NewestFirst(room, amount)
<1>1. n \in Nat /\ \A k \in 1..n : room[k] \in Nat
  OBVIOUS
<1>2. back \in Seq(Nat) /\ Len(back) = n /\ \A k \in 1..n : back[k] = room[(n - k) + 1]
  <2>1. back = [k \in 1..n |-> room[(n - k) + 1]]
    BY DEF Reverse
  <2>2. \A k \in 1..n : (n - k) + 1 \in 1..n
    BY <1>1
  <2> HIDE DEF n, back
  <2>3. back \in [1..n -> Nat]
    BY <1>1, <2>1, <2>2
  <2> QED BY <1>1, <2>1, <2>3
<1>3. got \in Seq(Nat) /\ Len(got) = n
  <2> HIDE DEF back, n
  <2> QED BY <1>2, TakenType
<1>4. new = Reverse(got)
  BY DEF NewestFirst
<1>5. new = [k \in 1..n |-> got[(n - k) + 1]]
  <2>1. new = [k \in 1..Len(got) |-> got[(Len(got) - k) + 1]]
    BY <1>4 DEF Reverse
  <2> HIDE DEF got, n
  <2> QED BY <1>3, <2>1
<1> HIDE DEF new, got, back, n
<1>6. new \in [1..n -> Nat] /\ \A k \in 1..n : new[k] = got[(n - k) + 1]
  <2>1. \A k \in 1..n : (n - k) + 1 \in 1..n
    BY <1>1
  <2>2. \A k \in 1..n : got[k] \in Nat
    BY <1>1, <1>3
  <2> QED BY <1>5, <2>1, <2>2
<1> QED BY <1>2, <1>3, <1>4, <1>6 DEF new, got, back, n

LEMMA NewestFull ==
    ASSUME NEW room \in Seq(Nat), NEW amount \in Nat, amount <= Sum(room)
    PROVE  Sum(NewestFirst(room, amount)) = amount
<1> DEFINE back == Reverse(room)
           got == Taken(back, amount)
<1>1. back \in Seq(Nat) /\ got \in Seq(Nat) /\ NewestFirst(room, amount) = Reverse(got)
  BY NewestIs, Zenon
<1>2. Sum(back) = Sum(room)
  BY SumOfReverse
<1> HIDE DEF back
<1>3. Sum(got) = amount
  BY <1>1, <1>2, TakenFull
<1> HIDE DEF got
<1>4. Sum(Reverse(got)) = Sum(got)
  BY <1>1, SumOfReverse
<1> QED BY <1>1, <1>3, <1>4, Zenon

LEMMA NewestInOrder ==
    ASSUME NEW room \in Seq(Nat), NEW amount \in Nat,
           NEW k \in 1..Len(room), NEW j \in 1..(k - 1), NewestFirst(room, amount)[j] > 0
    PROVE  NewestFirst(room, amount)[k] = room[k]
<1> DEFINE n == Len(room)
           back == Reverse(room)
           got == Taken(back, amount)
           new == NewestFirst(room, amount)
           x == (n - k) + 1
           y == (n - j) + 1
<1>1. /\ back \in Seq(Nat) /\ Len(back) = n
      /\ \A i \in 1..n : back[i] = room[(n - i) + 1]
      /\ \A i \in 1..n : new[i] = got[(n - i) + 1]
  BY NewestIs, Zenon
<1>2. n \in Nat /\ k \in 1..n /\ j \in 1..n /\ j < k /\ new[j] > 0
  OBVIOUS
<1> HIDE DEF n, back, new
<1>3. y \in 1..n /\ x \in 1..(y - 1) /\ (n - x) + 1 = k
  BY <1>2
<1>4. new[j] = got[y] /\ new[k] = got[x]
  BY <1>1, <1>2
<1>5. back[x] = room[k]
  <2>1. x \in 1..n
    BY <1>2, <1>3
  <2> HIDE DEF x
  <2> QED BY <1>1, <1>3, <2>1
<1> HIDE DEF x, y
<1>6. got[x] = back[x]
  <2>1. y \in 1..Len(back) /\ got[y] > 0
    BY <1>1, <1>2, <1>3, <1>4
  <2> QED BY <1>1, <1>3, <2>1, TakenInOrder
<1> QED BY <1>4, <1>5, <1>6 DEF new

-----------------------------------------------------------------------------
(* Installments in order: none is paid beyond its amount, the status of    *)
(* each says what is, and the older are full before the newer get anything.*)
RowFine(row) == row.paid <= row.amount /\ StatusFits(row.status, row.amount, row.paid)

Ordered(rows) == \A j, k \in DOMAIN rows : j < k /\ rows[k].paid > 0 => Unpaid(rows[j]) = 0

RowsFine(rows) ==
    /\ rows \in Seq(RowMoney)
    /\ \A k \in DOMAIN rows : RowFine(rows[k])
    /\ Ordered(rows)

Billed(rows) == [k \in DOMAIN rows |-> rows[k].amount]
Paid(rows)   == [k \in DOMAIN rows |-> rows[k].paid]
Owed(rows)   == [k \in DOMAIN rows |-> Unpaid(rows[k])]

LEMMA RowIs ==
    ASSUME NEW row \in RowMoney, RowFine(row)
    PROVE  /\ row.amount \in Nat /\ row.paid \in Nat /\ Unpaid(row) \in Nat
           /\ Unpaid(row) = row.amount - row.paid
           /\ Creditable(row) = Unpaid(row)
<1>1. row.amount \in Nat /\ row.paid \in Nat /\ row.paid <= row.amount
  BY DEF RowMoney, RowFine
<1>2. Unpaid(row) = row.amount - row.paid
  BY <1>1 DEF Unpaid, Monus
<1>3. Creditable(row) = Unpaid(row)
  BY <1>1, <1>2 DEF Creditable, RowFine, StatusFits, StatusOf
<1> QED BY <1>1, <1>2, <1>3

LEMMA ColumnsOf ==
    ASSUME NEW rows, RowsFine(rows)
    PROVE  /\ Len(rows) \in Nat /\ DOMAIN rows = 1..Len(rows)
           /\ \A k \in 1..Len(rows) : rows[k] \in RowMoney /\ RowFine(rows[k])
           /\ Billed(rows) \in [1..Len(rows) -> Nat]
           /\ Paid(rows) \in [1..Len(rows) -> Nat]
           /\ Owed(rows) \in [1..Len(rows) -> Nat]
           /\ Sum(Billed(rows)) \in Nat /\ Sum(Paid(rows)) \in Nat
           /\ Sum(Billed(rows)) = Sum(Paid(rows)) + Sum(Owed(rows))
<1> DEFINE n == Len(rows)
<1>1. /\ n \in Nat /\ DOMAIN rows = 1..n
      /\ \A k \in 1..n : rows[k] \in RowMoney /\ RowFine(rows[k])
  BY DEF RowsFine
<1> HIDE DEF n
<1>2. \A k \in 1..n : /\ rows[k].amount \in Nat /\ rows[k].paid \in Nat /\ Unpaid(rows[k]) \in Nat
                      /\ rows[k].amount = rows[k].paid + Unpaid(rows[k])
  <2> SUFFICES ASSUME NEW k \in 1..n
               PROVE  /\ rows[k].amount \in Nat /\ rows[k].paid \in Nat /\ Unpaid(rows[k]) \in Nat
                      /\ rows[k].amount = rows[k].paid + Unpaid(rows[k])
    OBVIOUS
  <2>1. /\ rows[k].amount \in Nat /\ rows[k].paid \in Nat /\ Unpaid(rows[k]) \in Nat
        /\ Unpaid(rows[k]) = rows[k].amount - rows[k].paid
    BY <1>1, RowIs
  <2> QED BY <2>1
<1>3. /\ Billed(rows) = [k \in 1..n |-> rows[k].amount]
      /\ Paid(rows) = [k \in 1..n |-> rows[k].paid]
      /\ Owed(rows) = [k \in 1..n |-> Unpaid(rows[k])]
  BY <1>1, Zenon DEF Billed, Paid, Owed
<1>4. Billed(rows) \in [1..n -> Nat] /\ Paid(rows) \in [1..n -> Nat] /\ Owed(rows) \in [1..n -> Nat]
  BY <1>2, <1>3
<1>5. \A k \in 1..n : Billed(rows)[k] = Paid(rows)[k] + Owed(rows)[k]
  BY <1>2, <1>3
<1>6. Sum(Billed(rows)) = Sum(Paid(rows)) + Sum(Owed(rows))
  BY <1>1, <1>4, <1>5, SumOfTwo
<1>7. Sum(Billed(rows)) \in Nat /\ Sum(Paid(rows)) \in Nat
  BY <1>1, <1>4, PartUpTo
<1> QED BY <1>1, <1>4, <1>6, <1>7 DEF n

(* What was changed in one column by got, and in no other.                 *)
LEMMA ColumnMoves ==
    ASSUME NEW rows, RowsFine(rows), NEW new, RowsFine(new), Len(new) = Len(rows),
           NEW got \in [1..Len(rows) -> Nat]
    PROVE  /\ (\A k \in 1..Len(rows) : new[k].amount = rows[k].amount)
                  => Sum(Billed(new)) = Sum(Billed(rows))
           /\ (\A k \in 1..Len(rows) : new[k].paid = rows[k].paid)
                  => Sum(Paid(new)) = Sum(Paid(rows))
           /\ (\A k \in 1..Len(rows) : new[k].paid = rows[k].paid + got[k])
                  => Sum(Paid(new)) = Sum(Paid(rows)) + Sum(got)
           /\ (\A k \in 1..Len(rows) : rows[k].paid = new[k].paid + got[k])
                  => Sum(Paid(rows)) = Sum(Paid(new)) + Sum(got)
           /\ (\A k \in 1..Len(rows) : rows[k].amount = new[k].amount + got[k])
                  => Sum(Billed(rows)) = Sum(Billed(new)) + Sum(got)
<1> DEFINE n == Len(rows)
           b == Billed(rows)
           p == Paid(rows)
           bb == Billed(new)
           pp == Paid(new)
<1>1. /\ n \in Nat /\ DOMAIN rows = 1..n /\ DOMAIN new = 1..n
      /\ b \in [1..n -> Nat] /\ p \in [1..n -> Nat] /\ bb \in [1..n -> Nat] /\ pp \in [1..n -> Nat]
  BY ColumnsOf, Zenon
<1>2. \A k \in 1..n : b[k] = rows[k].amount /\ p[k] = rows[k].paid
  BY <1>1 DEF Billed, Paid
<1>3. \A k \in 1..n : bb[k] = new[k].amount /\ pp[k] = new[k].paid
  BY <1>1 DEF Billed, Paid
<1>4. got \in [1..n -> Nat]
  OBVIOUS
<1> HIDE DEF n, b, p, bb, pp
<1>5. ASSUME \A k \in 1..n : new[k].amount = rows[k].amount PROVE Sum(bb) = Sum(b)
  <2>1. \A k \in 1..n : bb[k] = b[k]
    BY <1>2, <1>3, <1>5, Zenon
  <2> QED BY <1>1, <2>1, SumIsSame
<1>6. ASSUME \A k \in 1..n : new[k].paid = rows[k].paid PROVE Sum(pp) = Sum(p)
  <2>1. \A k \in 1..n : pp[k] = p[k]
    BY <1>2, <1>3, <1>6, Zenon
  <2> QED BY <1>1, <2>1, SumIsSame
<1>7. ASSUME \A k \in 1..n : new[k].paid = rows[k].paid + got[k] PROVE Sum(pp) = Sum(p) + Sum(got)
  <2>1. \A k \in 1..n : pp[k] = p[k] + got[k]
    BY <1>2, <1>3, <1>7, Zenon
  <2> QED BY <1>1, <1>4, <2>1, SumOfTwo
<1>8. ASSUME \A k \in 1..n : rows[k].paid = new[k].paid + got[k] PROVE Sum(p) = Sum(pp) + Sum(got)
  <2>1. \A k \in 1..n : p[k] = pp[k] + got[k]
    BY <1>2, <1>3, <1>8, Zenon
  <2> QED BY <1>1, <1>4, <2>1, SumOfTwo
<1>9. ASSUME \A k \in 1..n : rows[k].amount = new[k].amount + got[k] PROVE Sum(b) = Sum(bb) + Sum(got)
  <2>1. \A k \in 1..n : b[k] = bb[k] + got[k]
    BY <1>2, <1>3, <1>9, Zenon
  <2> QED BY <1>1, <1>4, <2>1, SumOfTwo
<1> QED BY <1>5, <1>6, <1>7, <1>8, <1>9, Zenon DEF n, b, p, bb, pp

(* A payment leaves the installments in order and, when it fits, adds      *)
(* itself to what they have got.                                           *)
LEMMA CreditFine ==
    ASSUME NEW rows, RowsFine(rows), NEW amount \in Nat
    PROVE  /\ RowsFine(SpreadCredit(rows, amount))
           /\ amount <= Sum(Billed(rows)) - Sum(Paid(rows)) =>
                /\ Sum(Billed(SpreadCredit(rows, amount))) = Sum(Billed(rows))
                /\ Sum(Paid(SpreadCredit(rows, amount))) = Sum(Paid(rows)) + amount
<1> DEFINE n == Len(rows)
           room == Owed(rows)
           got == Taken(room, amount)
           new == SpreadCredit(rows, amount)
<1>1. /\ n \in Nat /\ DOMAIN rows = 1..n
      /\ \A k \in 1..n : rows[k] \in RowMoney /\ RowFine(rows[k])
      /\ room \in [1..n -> Nat]
      /\ Sum(Billed(rows)) \in Nat /\ Sum(Paid(rows)) \in Nat
      /\ Sum(Billed(rows)) = Sum(Paid(rows)) + Sum(room)
  BY ColumnsOf, Zenon
<1>2. \A k \in 1..n : room[k] = Unpaid(rows[k]) /\ Creditable(rows[k]) = Unpaid(rows[k])
  <2>1. \A k \in 1..n : room[k] = Unpaid(rows[k])
    BY <1>1 DEF Owed
  <2>2. \A k \in 1..n : Creditable(rows[k]) = Unpaid(rows[k])
    BY <1>1, RowIs
  <2> QED BY <2>1, <2>2
<1>3. room \in Seq(Nat) /\ Len(room) = n
  <2> HIDE DEF room, n
  <2> QED BY <1>1
<1>4. /\ got \in Seq(Nat) /\ Len(got) = n
      /\ \A k \in 1..n : got[k] \in Nat /\ got[k] <= room[k]
  <2> HIDE DEF room, n
  <2> QED BY <1>3, TakenType
<1>5. new = [k \in 1..n |-> IF got[k] = 0 THEN rows[k]
                            ELSE RowWithPaid(rows[k], rows[k].paid + got[k])]
  <2>1. [k \in DOMAIN rows |-> Creditable(rows[k])] = room
    <3>1. \A k \in DOMAIN rows : Creditable(rows[k]) = Unpaid(rows[k])
      BY <1>1, <1>2
    <3> QED BY <3>1 DEF Owed
  <2> QED BY <1>1, <2>1, Zenon DEF SpreadCredit
<1>6. new \in Seq(RowMoney) /\ rows \in Seq(RowMoney)
  BY SpreadType DEF RowsFine
<1> HIDE DEF n, room, got, new
<1>7. DOMAIN new = 1..n /\ Len(new) = n
  BY <1>1, <1>5, <1>6
<1>8. ASSUME NEW k \in 1..n
      PROVE  /\ new[k].amount = rows[k].amount
             /\ new[k].paid = rows[k].paid + got[k]
             /\ RowFine(new[k])
  <2> DEFINE row == rows[k]
             g == got[k]
  <2>1. row \in RowMoney /\ RowFine(row) /\ g \in Nat /\ g <= Unpaid(row)
    BY <1>1, <1>2, <1>4
  <2>2. new[k] = IF g = 0 THEN row ELSE RowWithPaid(row, row.paid + g)
    BY <1>5
  <2> HIDE DEF row, g
  <2>3. row.amount \in Nat /\ row.paid \in Nat /\ Unpaid(row) = row.amount - row.paid
    BY <2>1, RowIs
  <2>4. CASE g = 0
    BY <2>1, <2>2, <2>3, <2>4 DEF row, g
  <2>5. CASE g # 0
    <3>1. new[k] = RowWithPaid(row, row.paid + g)
      BY <2>2, <2>5
    <3>2. /\ RowWithPaid(row, row.paid + g).amount = row.amount
          /\ RowWithPaid(row, row.paid + g).paid = row.paid + g
          /\ RowWithPaid(row, row.paid + g).status = StatusOf(row.amount, row.paid + g)
      BY <2>1 DEF RowWithPaid, RowMoney
    <3>3. RowFine(new[k])
      BY <2>1, <2>3, <3>1, <3>2 DEF RowFine, StatusFits, StatusOf
    <3> QED BY <3>1, <3>2, <3>3 DEF row, g
  <2> QED BY <2>4, <2>5
<1>9. Ordered(new)
  <2> SUFFICES ASSUME NEW j \in 1..n, NEW k \in 1..n, j < k, new[k].paid > 0
               PROVE  Unpaid(new[j]) = 0
    BY <1>7 DEF Ordered
  <2>1. new[j].amount = rows[j].amount /\ new[j].paid = rows[j].paid + got[j]
    BY <1>8
  <2>2. /\ rows[j].amount \in Nat /\ rows[j].paid \in Nat
        /\ Unpaid(rows[j]) = rows[j].amount - rows[j].paid
        /\ rows[k].paid \in Nat /\ got[j] \in Nat /\ got[j] <= room[j] /\ got[k] \in Nat
    BY <1>1, <1>4, RowIs
  <2>3. CASE rows[k].paid > 0
    <3>1. Unpaid(rows[j]) = 0
      BY <1>1, <2>3 DEF RowsFine, Ordered
    <3> QED BY <1>2, <2>1, <2>2, <3>1 DEF Unpaid, Monus
  <2>4. CASE got[k] > 0
    <3>1. j \in 1..(k - 1)
      BY <1>1
    <3>2. got[j] = room[j]
      BY <1>3, <2>4, <3>1, TakenInOrder DEF got
    <3>3. new[j].paid = new[j].amount
      BY <1>2, <2>1, <2>2, <3>2
    <3> QED BY <2>1, <2>2, <3>3 DEF Unpaid, Monus
  <2>5. new[k].paid = rows[k].paid + got[k]
    BY <1>8
  <2> QED BY <2>2, <2>3, <2>4, <2>5
<1>10. RowsFine(new)
  BY <1>6, <1>7, <1>8, <1>9 DEF RowsFine
<1>11. ASSUME amount <= Sum(Billed(rows)) - Sum(Paid(rows))
       PROVE  /\ Sum(Billed(new)) = Sum(Billed(rows))
              /\ Sum(Paid(new)) = Sum(Paid(rows)) + amount
  <2>1. Sum(room) \in Nat
    BY <1>1, PartUpTo
  <2>2. amount <= Sum(room)
    BY <1>1, <1>11, <2>1
  <2>3. Sum(got) = amount
    BY <1>3, <2>2, TakenFull DEF got
  <2>4. got \in [1..n -> Nat]
    BY <1>4
  <2>5. Len(new) = Len(rows)
    BY <1>7 DEF n
  <2> HIDE <2>3
  <2>6. /\ Sum(Billed(new)) = Sum(Billed(rows))
        /\ Sum(Paid(new)) = Sum(Paid(rows)) + Sum(got)
    BY <1>8, <1>10, <2>4, <2>5, ColumnMoves, Zenon DEF n
  <2> QED BY <2>3, <2>6, Zenon
<1> QED BY <1>10, <1>11 DEF new

(* The other loops of FeeLedger, likewise: refunds, cuts and write-offs.   *)
LEMMA DebitFine ==
    ASSUME NEW rows, RowsFine(rows), NEW amount \in Nat
    PROVE  /\ RowsFine(SpreadDebit(rows, amount))
           /\ amount <= Sum(Paid(rows)) =>
                /\ Sum(Billed(SpreadDebit(rows, amount))) = Sum(Billed(rows))
                /\ Sum(Paid(rows)) = Sum(Paid(SpreadDebit(rows, amount))) + amount
<1> DEFINE n == Len(rows)
           room == Paid(rows)
           got == NewestFirst(room, amount)
           new == SpreadDebit(rows, amount)
<1>1. /\ n \in Nat /\ DOMAIN rows = 1..n
      /\ \A k \in 1..n : rows[k] \in RowMoney /\ RowFine(rows[k])
      /\ room \in [1..n -> Nat]
  BY ColumnsOf, Zenon
<1>2. \A k \in 1..n : room[k] = rows[k].paid
  BY <1>1 DEF Paid
<1>3. room \in Seq(Nat) /\ Len(room) = n
  <2> HIDE DEF room, n
  <2> QED BY <1>1
<1>4. got \in [1..n -> Nat] /\ \A k \in 1..n : got[k] <= room[k]
  <2> HIDE DEF room, n
  <2>1. got \in [1..n -> Nat]
    BY <1>3, NewestIs, Zenon
  <2>2. \A k \in 1..n : got[k] <= room[k]
    BY <1>3, NewestType
  <2> QED BY <2>1, <2>2
<1>5. new = [k \in 1..n |-> IF got[k] = 0 THEN rows[k]
                            ELSE RowAfterRefund(rows[k], rows[k].paid - got[k])]
  BY <1>1, Zenon DEF SpreadDebit, Paid
<1>6. new \in Seq(RowMoney) /\ rows \in Seq(RowMoney)
  BY SpreadType DEF RowsFine
<1> HIDE DEF n, room, got, new
<1>7. DOMAIN new = 1..n /\ Len(new) = n
  BY <1>1, <1>5, <1>6
<1>8. ASSUME NEW k \in 1..n
      PROVE  /\ new[k].amount = rows[k].amount
             /\ rows[k].paid = new[k].paid + got[k]
             /\ new[k].paid \in Nat
             /\ RowFine(new[k])
  <2> DEFINE row == rows[k]
             g == got[k]
  <2>1. row \in RowMoney /\ RowFine(row) /\ g \in Nat /\ g <= row.paid
    BY <1>1, <1>2, <1>4
  <2>2. new[k] = IF g = 0 THEN row ELSE RowAfterRefund(row, row.paid - g)
    BY <1>5
  <2> HIDE DEF row, g
  <2>3. row.amount \in Nat /\ row.paid \in Nat /\ row.paid <= row.amount
    BY <2>1, RowIs DEF RowFine
  <2>4. CASE g = 0
    BY <2>1, <2>2, <2>3, <2>4 DEF row, g
  <2>5. CASE g # 0
    <3> DEFINE back == row.paid - g
    <3>0. back \in Nat
      BY <2>1, <2>3
    <3>1. new[k] = RowAfterRefund(row, back)
      BY <2>2, <2>5
    <3> HIDE DEF back
    <3>2. /\ RowAfterRefund(row, back).amount = row.amount
          /\ RowAfterRefund(row, back).paid = back
          /\ RowAfterRefund(row, back).status = IF back = 0 THEN "due" ELSE StatusOf(row.amount, back)
      BY <2>1 DEF RowAfterRefund, RowMoney
    <3>3. back <= row.amount /\ row.paid = back + g
      BY <2>1, <2>3, <3>0 DEF back
    <3>4. RowAfterRefund(row, back).status = StatusOf(row.amount, back)
      <4>1. back = 0 => row.amount > 0
        BY <2>1, <2>3, <2>5, <3>3
      <4>2. back = 0 => StatusOf(row.amount, back) = "due"
        BY <2>3, <4>1 DEF StatusOf
      <4> QED BY <3>2, <4>2
    <3>5. RowFine(new[k])
      BY <2>3, <3>0, <3>1, <3>2, <3>3, <3>4 DEF RowFine, StatusFits
    <3> QED BY <3>0, <3>1, <3>2, <3>3, <3>5 DEF row, g
  <2> QED BY <2>4, <2>5
<1>9. Ordered(new)
  <2> SUFFICES ASSUME NEW j \in 1..n, NEW k \in 1..n, j < k, new[k].paid > 0
               PROVE  Unpaid(new[j]) = 0
    BY <1>7 DEF Ordered
  <2>1. /\ rows[k].paid \in Nat /\ got[k] \in Nat /\ got[j] \in Nat
        /\ rows[k].paid = new[k].paid + got[k] /\ new[k].paid \in Nat
    BY <1>1, <1>4, <1>8, RowIs
  <2>2. got[j] = 0
    <3>1. SUFFICES ASSUME got[j] > 0 PROVE FALSE
      BY <2>1
    <3>2. j \in 1..(k - 1)
      BY <1>1
    <3>3. got[k] = room[k]
      BY <1>3, <3>1, <3>2, NewestInOrder DEF got
    <3> QED BY <1>2, <2>1, <3>3
  <2>3. new[j] = rows[j]
    BY <1>5, <2>2
  <2>4. rows[k].paid > 0
    BY <2>1
  <2>5. Unpaid(rows[j]) = 0
    BY <1>1, <2>4 DEF RowsFine, Ordered
  <2> QED BY <2>3, <2>5
<1>10. RowsFine(new)
  BY <1>6, <1>7, <1>8, <1>9 DEF RowsFine
<1>11. ASSUME amount <= Sum(Paid(rows))
       PROVE  /\ Sum(Billed(new)) = Sum(Billed(rows))
              /\ Sum(Paid(rows)) = Sum(Paid(new)) + amount
  <2>1. Sum(got) = amount
    BY <1>3, <1>11, NewestFull DEF got, room
  <2>2. Len(new) = Len(rows)
    BY <1>7 DEF n
  <2>3. /\ Sum(Billed(new)) = Sum(Billed(rows))
        /\ Sum(Paid(rows)) = Sum(Paid(new)) + Sum(got)
    BY <1>4, <1>8, <1>10, <2>2, ColumnMoves, Zenon DEF n
  <2> QED BY <2>1, <2>3, Zenon
<1> QED BY <1>10, <1>11 DEF new

LEMMA CutFine ==
    ASSUME NEW rows, RowsFine(rows), NEW amount \in Nat
    PROVE  /\ RowsFine(CutRows(rows, amount))
           /\ amount <= Sum(Billed(rows)) - Sum(Paid(rows)) =>
                /\ Sum(Billed(rows)) = Sum(Billed(CutRows(rows, amount))) + amount
                /\ Sum(Paid(CutRows(rows, amount))) = Sum(Paid(rows))
<1> DEFINE n == Len(rows)
           room == Owed(rows)
           got == NewestFirst(room, amount)
           new == CutRows(rows, amount)
<1>1. /\ n \in Nat /\ DOMAIN rows = 1..n
      /\ \A k \in 1..n : rows[k] \in RowMoney /\ RowFine(rows[k])
      /\ room \in [1..n -> Nat]
      /\ Sum(Billed(rows)) \in Nat /\ Sum(Paid(rows)) \in Nat
      /\ Sum(Billed(rows)) = Sum(Paid(rows)) + Sum(room)
  BY ColumnsOf, Zenon
<1>2. \A k \in 1..n : room[k] = Unpaid(rows[k])
  BY <1>1 DEF Owed
<1>3. room \in Seq(Nat) /\ Len(room) = n
  <2> HIDE DEF room, n
  <2> QED BY <1>1
<1>4. got \in [1..n -> Nat] /\ \A k \in 1..n : got[k] <= room[k]
  <2> HIDE DEF room, n
  <2>1. got \in [1..n -> Nat]
    BY <1>3, NewestIs, Zenon
  <2>2. \A k \in 1..n : got[k] <= room[k]
    BY <1>3, NewestType
  <2> QED BY <2>1, <2>2
<1>5. new = [k \in 1..n |-> IF got[k] = 0 THEN rows[k]
                            ELSE RowWithAmount(rows[k], rows[k].amount - got[k])]
  BY <1>1, Zenon DEF CutRows, Owed
<1>6. new \in Seq(RowMoney) /\ rows \in Seq(RowMoney)
  BY SpreadType DEF RowsFine
<1> HIDE DEF n, room, got, new
<1>7. DOMAIN new = 1..n /\ Len(new) = n
  BY <1>1, <1>5, <1>6
<1>8. ASSUME NEW k \in 1..n
      PROVE  /\ rows[k].amount = new[k].amount + got[k]
             /\ new[k].paid = rows[k].paid
             /\ new[k].amount \in Nat
             /\ RowFine(new[k])
  <2> DEFINE row == rows[k]
             g == got[k]
  <2>1. row \in RowMoney /\ RowFine(row) /\ g \in Nat /\ g <= Unpaid(row)
    BY <1>1, <1>2, <1>4
  <2>2. new[k] = IF g = 0 THEN row ELSE RowWithAmount(row, row.amount - g)
    BY <1>5
  <2> HIDE DEF row, g
  <2>3. row.amount \in Nat /\ row.paid \in Nat /\ Unpaid(row) = row.amount - row.paid
    BY <2>1, RowIs
  <2>4. CASE g = 0
    BY <2>1, <2>2, <2>3, <2>4 DEF row, g
  <2>5. CASE g # 0
    <3> DEFINE rest == row.amount - g
    <3>0. rest \in Nat /\ row.paid <= rest /\ row.amount = rest + g
      BY <2>1, <2>3
    <3>1. new[k] = RowWithAmount(row, rest)
      BY <2>2, <2>5
    <3> HIDE DEF rest
    <3>2. /\ RowWithAmount(row, rest).amount = rest
          /\ RowWithAmount(row, rest).paid = row.paid
          /\ RowWithAmount(row, rest).status = StatusOf(rest, row.paid)
      BY <2>1 DEF RowWithAmount, RowMoney
    <3>3. RowFine(new[k])
      BY <2>3, <3>0, <3>1, <3>2 DEF RowFine, StatusFits, StatusOf
    <3> QED BY <3>0, <3>1, <3>2, <3>3 DEF row, g
  <2> QED BY <2>4, <2>5
<1>9. Ordered(new)
  <2> SUFFICES ASSUME NEW j \in 1..n, NEW k \in 1..n, j < k, new[k].paid > 0
               PROVE  Unpaid(new[j]) = 0
    BY <1>7 DEF Ordered
  <2>1. /\ rows[j].paid \in Nat /\ got[j] \in Nat /\ rows[j].amount \in Nat
        /\ rows[j].amount = new[j].amount + got[j] /\ new[j].amount \in Nat
        /\ new[j].paid = rows[j].paid /\ new[k].paid = rows[k].paid
        /\ Unpaid(rows[j]) = rows[j].amount - rows[j].paid
    BY <1>1, <1>4, <1>8, RowIs
  <2>2. Unpaid(rows[j]) = 0
    BY <1>1, <2>1 DEF RowsFine, Ordered
  <2>3. new[j].amount <= new[j].paid
    BY <2>1, <2>2
  <2> QED BY <2>1, <2>3 DEF Unpaid, Monus
<1>10. RowsFine(new)
  BY <1>6, <1>7, <1>8, <1>9 DEF RowsFine
<1>11. ASSUME amount <= Sum(Billed(rows)) - Sum(Paid(rows))
       PROVE  /\ Sum(Billed(rows)) = Sum(Billed(new)) + amount
              /\ Sum(Paid(new)) = Sum(Paid(rows))
  <2>1. Sum(room) \in Nat
    BY <1>1, PartUpTo
  <2>2. amount <= Sum(room)
    BY <1>1, <1>11, <2>1
  <2>3. Sum(got) = amount
    BY <1>3, <2>2, NewestFull DEF got
  <2>4. Len(new) = Len(rows)
    BY <1>7 DEF n
  <2>5. /\ Sum(Billed(rows)) = Sum(Billed(new)) + Sum(got)
        /\ Sum(Paid(new)) = Sum(Paid(rows))
    BY <1>4, <1>8, <1>10, <2>4, ColumnMoves, Zenon DEF n
  <2> QED BY <2>3, <2>5, Zenon
<1> QED BY <1>10, <1>11 DEF new

LEMMA WriteOffFine ==
    ASSUME NEW rows, RowsFine(rows)
    PROVE  /\ RowsFine(WriteOffRows(rows))
           /\ Sum(Billed(WriteOffRows(rows))) = Sum(Billed(rows))
           /\ Sum(Paid(WriteOffRows(rows))) = Sum(Billed(rows))
<1> DEFINE n == Len(rows)
           new == WriteOffRows(rows)
<1>1. /\ n \in Nat /\ DOMAIN rows = 1..n
      /\ \A k \in 1..n : rows[k] \in RowMoney /\ RowFine(rows[k])
      /\ Billed(rows) \in [1..n -> Nat]
  BY ColumnsOf, Zenon
<1>2. new = [k \in 1..n |-> IF rows[k].status = "paid" THEN rows[k] ELSE RowWrittenOff(rows[k])]
  BY <1>1, Zenon DEF WriteOffRows
<1>3. new \in Seq(RowMoney) /\ rows \in Seq(RowMoney)
  BY SpreadType DEF RowsFine
<1> HIDE DEF n, new
<1>4. DOMAIN new = 1..n /\ Len(new) = n
  BY <1>1, <1>2, <1>3
<1>5. ASSUME NEW k \in 1..n
      PROVE  /\ new[k].amount = rows[k].amount
             /\ new[k].paid = rows[k].amount
             /\ rows[k].amount \in Nat
             /\ RowFine(new[k])
  <2> DEFINE row == rows[k]
  <2>1. row \in RowMoney /\ RowFine(row)
    BY <1>1
  <2>2. new[k] = IF row.status = "paid" THEN row ELSE RowWrittenOff(row)
    BY <1>2
  <2> HIDE DEF row
  <2>3. row.amount \in Nat
    BY <2>1, RowIs
  <2>4. CASE row.status = "paid"
    <3>1. row.paid = row.amount
      BY <2>1, <2>4, RowIs DEF RowFine, StatusFits, StatusOf
    <3>2. new[k] = row
      BY <2>2, <2>4
    <3> QED BY <2>1, <2>3, <3>1, <3>2 DEF row
  <2>5. CASE row.status # "paid"
    <3>1. new[k] = RowWrittenOff(row)
      BY <2>2, <2>5
    <3>2. /\ RowWrittenOff(row).amount = row.amount
          /\ RowWrittenOff(row).paid = row.amount
          /\ RowWrittenOff(row).status = "written_off"
      BY <2>1 DEF RowWrittenOff, RowMoney
    <3> QED BY <2>3, <3>1, <3>2 DEF RowFine, StatusFits, row
  <2> QED BY <2>4, <2>5
<1>6. Ordered(new)
  <2>1. \A j \in 1..n : Unpaid(new[j]) = 0
    <3> SUFFICES ASSUME NEW j \in 1..n PROVE Unpaid(new[j]) = 0
      OBVIOUS
    <3>1. new[j].amount = new[j].paid /\ new[j].paid \in Nat
      BY <1>5
    <3> QED BY <3>1 DEF Unpaid, Monus
  <2> QED BY <1>4, <2>1 DEF Ordered
<1>7. RowsFine(new)
  BY <1>3, <1>4, <1>5, <1>6 DEF RowsFine
<1>8. Billed(new) = Billed(rows) /\ Paid(new) = Billed(rows)
  BY <1>1, <1>4, <1>5 DEF Billed, Paid
<1> QED BY <1>7, <1>8, Zenon DEF new

(* Installments as they are issued.                                        *)
LEMMA NewRowsFine ==
    ASSUME NEW split \in Seq(Nat)
    PROVE  /\ RowsFine(NewRows(split))
           /\ Sum(Billed(NewRows(split))) = Sum(split)
           /\ Sum(Paid(NewRows(split))) = 0
<1> DEFINE n == Len(split)
           new == NewRows(split)
           row(k) == [amount |-> split[k], paid |-> 0,
                      status |-> IF split[k] = 0 THEN "paid" ELSE "due"]
<1>1. n \in Nat /\ DOMAIN split = 1..n /\ \A k \in 1..n : split[k] \in Nat
  OBVIOUS
<1>2. split \in [1..n -> Nat]
  OBVIOUS
<1>3. new = [k \in 1..n |-> row(k)]
  BY <1>1, Zenon DEF NewRows
<1>4. ASSUME NEW k \in 1..n
      PROVE  row(k) \in RowMoney /\ RowFine(row(k)) /\ row(k).amount = split[k] /\ row(k).paid = 0
  BY <1>1 DEF RowMoney, RowFine, StatusFits, StatusOf, InvoiceStatus
<1> HIDE DEF n, new, row
<1>5. new \in [1..n -> RowMoney] /\ DOMAIN new = 1..n /\ \A k \in 1..n : new[k] = row(k)
  BY <1>3, <1>4
<1>6. new \in Seq(RowMoney)
  BY <1>1, <1>5
<1>7. Ordered(new)
  <2>1. \A k \in 1..n : new[k].paid = 0
    BY <1>4, <1>5
  <2> QED BY <1>5, <2>1 DEF Ordered
<1>8. RowsFine(new)
  BY <1>4, <1>5, <1>6, <1>7 DEF RowsFine
<1>9. Billed(new) = split
  <2>1. Billed(new) = [k \in 1..n |-> split[k]]
    BY <1>4, <1>5 DEF Billed
  <2> QED BY <1>2, <2>1
<1>10. Sum(Paid(new)) = 0
  <2> DEFINE zeros == [k \in 1..n |-> 0]
  <2>1. Paid(new) = zeros
    BY <1>4, <1>5 DEF Paid
  <2>2. zeros \in [1..n -> Nat] /\ \A k \in 1..n : zeros[k] = zeros[k] + zeros[k]
    OBVIOUS
  <2> HIDE DEF zeros
  <2>3. Sum(zeros) = Sum(zeros) + Sum(zeros) /\ Sum(zeros) \in Nat
    BY <1>1, <2>2, SumOfTwo, PartUpTo
  <2> QED BY <2>1, <2>3
<1> QED BY <1>8, <1>9, <1>10, Zenon DEF new

-----------------------------------------------------------------------------
(* How a discount is shared out over the installments of the structure.    *)

LEMMA ShareOf ==
    ASSUME NEW P \in Nat \ {0}, NEW off \in Nat, NEW c \in Nat
    PROVE  LET q == (off * c) \div P
           IN  q \in Nat /\ q * P <= off * c /\ off * c < (q + 1) * P
<1> DEFINE a == off * c
           q == a \div P
<1>1. a \in Nat
  OBVIOUS
<1> HIDE DEF a
<1>2. q \in Nat /\ P * q <= a /\ a < P * q + P
  BY <1>1
<1> HIDE DEF q
<1>3. q * P <= a /\ a < (q + 1) * P
  BY <1>2
<1> QED BY <1>2, <1>3 DEF q, a

LEMMA Cancel ==
    ASSUME NEW P \in Nat \ {0}, NEW a \in Int, NEW b \in Int, a * P <= b * P
    PROVE  a <= b
OBVIOUS

LEMMA CancelLess ==
    ASSUME NEW P \in Nat \ {0}, NEW a \in Int, NEW b \in Int, a * P < b * P
    PROVE  a < b
OBVIOUS

LEMMA Times ==
    ASSUME NEW a \in Nat, NEW b \in Nat, NEW c \in Nat, a <= b
    PROVE  a * c <= b * c
OBVIOUS

LEMMA ShareBounds ==
    ASSUME NEW P \in Nat \ {0}, NEW off \in Nat, NEW c \in Nat
    PROVE  /\ off <= P => (off * c) \div P <= c
           /\ off >= P => (off * c) \div P >= c
<1> DEFINE q == (off * c) \div P
<1>1. q \in Nat /\ q * P <= off * c /\ off * c < (q + 1) * P
  BY ShareOf
<1> HIDE DEF q
<1>2. P * c = c * P /\ c \in Int /\ q \in Int /\ q + 1 \in Int /\ c * P \in Nat /\ off * c \in Nat
  BY <1>1
<1>3. ASSUME off <= P PROVE q <= c
  <2>1. off * c <= P * c
    BY <1>3, Times
  <2>2. q * P <= c * P
    BY <1>1, <1>2, <2>1
  <2> QED BY <1>2, <2>2, Cancel
<1>4. ASSUME off >= P PROVE q >= c
  <2>1. P * c <= off * c
    BY <1>4, Times
  <2>2. c * P < (q + 1) * P
    BY <1>1, <1>2, <2>1
  <2>3. c < q + 1
    BY <1>2, <2>2, CancelLess
  <2> QED BY <1>1, <2>3
<1> QED BY <1>3, <1>4 DEF q

(* Shares rounded down never add up to more than the part of the discount  *)
(* that falls on their installments.                                       *)
LEMMA AddShares ==
    ASSUME NEW P \in Nat, NEW off \in Nat, NEW g \in Nat, NEW r \in Nat, NEW s \in Nat, NEW c \in Nat,
           g * P <= off * r, s * P <= off * c
    PROVE  (g + s) * P <= off * (r + c)
<1>1. (g + s) * P = g * P + s * P /\ off * (r + c) = off * r + off * c
  OBVIOUS
<1>2. g * P \in Nat /\ s * P \in Nat /\ off * r \in Nat /\ off * c \in Nat
  OBVIOUS
<1> QED BY <1>1, <1>2

LEMMA PartSame ==
    ASSUME NEW f, NEW g, NEW S, IsFiniteSet(S), S \subseteq DOMAIN f, S \subseteq DOMAIN g,
           \A k \in S : f[k] = g[k]
    PROVE  Part(f, S) = Part(g, S)
<1>1. \A k \in S : Cells(f)[k].amount = Cells(g)[k].amount
  BY DEF Cells
<1> QED BY <1>1, AmountOfSame DEF Part

LEMMA PriceIs ==
    /\ Len(Components) \in Nat \ {0}
    /\ Components \in [1..Len(Components) -> Nat]
    /\ Price \in Nat
    /\ Price = Part(Components, 1..(Len(Components) - 1)) + Components[Len(Components)]
    /\ \A k \in 0..Len(Components) : Part(Components, 1..k) \in Nat
    /\ Part(Components, 1..0) = 0
    /\ \A k \in 1..Len(Components) :
           Part(Components, 1..k) = Part(Components, 1..(k - 1)) + Components[k]
<1> DEFINE n == Len(Components)
<1>1. n \in Nat /\ n # 0 /\ Components \in [1..n -> Nat]
  BY ComponentsAssumption
<1> HIDE DEF n
<1>2. /\ Part(Components, 1..0) = 0
      /\ \A k \in 0..n : Part(Components, 1..k) \in Nat
      /\ \A k \in 1..n : Part(Components, 1..k) = Part(Components, 1..(k - 1)) + Components[k]
      /\ Sum(Components) = Part(Components, 1..n) /\ Sum(Components) \in Nat
  BY <1>1, PartUpTo
<1>3. n \in 1..n
  BY <1>1
<1> QED BY <1>1, <1>2, <1>3 DEF n, Price

Newest == Len(Components)
Shares(off) == [j \in 1..(Newest - 1) |-> Share(off, j)]

LEMMA SharesAre ==
    ASSUME NEW off \in Nat
    PROVE  /\ \A k \in 1..Newest : Share(off, k) \in Nat
           /\ Shares(off) \in [1..(Newest - 1) -> Nat]
           /\ Sum(Shares(off)) \in Nat
           /\ Price # 0 => Sum(Shares(off)) * Price <= off * Part(Components, 1..(Newest - 1))
<1> DEFINE C == Components
           m == Newest - 1
           g == Shares(off)
           G(k) == Part(g, 1..k)
           R(k) == Part(C, 1..k)
           Good == {k \in 0..m : G(k) * Price <= off * R(k)}
<1>1. /\ Newest \in Nat \ {0} /\ C \in [1..Newest -> Nat] /\ Price \in Nat
      /\ \A k \in 0..Newest : R(k) \in Nat
      /\ R(0) = 0
      /\ \A k \in 1..Newest : R(k) = R(k - 1) + C[k]
  BY PriceIs DEF Newest
<1>2. m \in Nat /\ \A k \in 1..m : k \in 1..Newest
  BY <1>1
<1>3. ASSUME NEW k \in 1..Newest
      PROVE  /\ Share(off, k) \in Nat
             /\ Price # 0 => Share(off, k) * Price <= off * C[k]
  <2>1. C[k] \in Nat
    BY <1>1
  <2>2. CASE Price = 0
    BY <2>2 DEF Share
  <2>3. CASE Price # 0
    <3>1. Share(off, k) = (off * C[k]) \div Price /\ Price \in Nat \ {0}
      BY <1>1, <2>3 DEF Share
    <3> QED BY <2>1, <3>1, ShareOf
  <2> QED BY <2>2, <2>3
<1>4. g \in [1..m -> Nat]
  BY <1>2, <1>3 DEF Shares
<1>5. \A k \in 1..m : g[k] = Share(off, k)
  BY DEF Shares
<1> HIDE DEF m, g, C
<1>6. /\ G(0) = 0 /\ Sum(g) = G(m) /\ Sum(g) \in Nat
      /\ \A k \in 0..m : G(k) \in Nat
      /\ \A k \in 1..m : G(k) = G(k - 1) + g[k]
  BY <1>2, <1>4, PartUpTo
<1> HIDE DEF G, R
<1>7. ASSUME Price # 0 PROVE G(m) * Price <= off * R(m)
  <2>1. 0 \in Good
    <3>1. G(0) * Price = 0 /\ off * R(0) = 0
      BY <1>1, <1>6
    <3> QED BY <1>2, <3>1
  <2>2. ASSUME NEW k \in 1..m, k - 1 \in Good PROVE k \in Good
    <3>1. k - 1 \in 0..m /\ k \in 0..m /\ k \in 1..Newest /\ k - 1 \in 0..Newest
      BY <1>1, <1>2 DEF m
    <3>2. G(k - 1) * Price <= off * R(k - 1)
      BY <2>2
    <3>3. g[k] * Price <= off * C[k] /\ g[k] \in Nat /\ C[k] \in Nat
      BY <1>1, <1>3, <1>5, <1>7, <3>1
    <3>4. G(k - 1) \in Nat /\ R(k - 1) \in Nat
      BY <1>1, <1>6, <3>1
    <3>5. (G(k - 1) + g[k]) * Price <= off * (R(k - 1) + C[k])
      BY <1>1, <3>2, <3>3, <3>4, AddShares
    <3>6. G(k) = G(k - 1) + g[k] /\ R(k) = R(k - 1) + C[k]
      BY <1>1, <1>6, <3>1
    <3> QED BY <3>1, <3>5, <3>6
  <2> HIDE DEF Good
  <2>3. m \in Good
    <3>1. \A k \in 0..m : k \in Good
      BY <1>2, <2>1, <2>2, Climb
    <3> QED BY <1>2, <3>1
  <2> QED BY <2>3 DEF Good
<1>8. m = Newest - 1 /\ g = Shares(off)
  BY DEF m, g
<1>9. Price # 0 => Sum(g) * Price <= off * Part(Components, 1..m)
  BY <1>6, <1>7, Zenon DEF R, C
<1> QED BY <1>3, <1>4, <1>6, <1>8, <1>9, Zenon

(* What the last installment takes of a discount.                          *)
LEMMA LastCut ==
    ASSUME NEW off \in Nat, Price # 0
    PROVE  /\ Cut(off, Newest) = off - Sum(Shares(off))
           /\ Sum(Shares(off)) <= off
           /\ off >= Price => Cut(off, Newest) >= Components[Newest]
<1> DEFINE rest == Sum(Shares(off))
           c == Part(Components, 1..(Newest - 1))
           d == Components[Newest]
           P == Price
<1>1. Newest \in Nat \ {0} /\ P \in Nat \ {0} /\ P = c + d /\ d \in Nat /\ c \in Nat
  <2>1. Newest - 1 \in 0..Newest /\ Newest \in 1..Newest
    BY PriceIs DEF Newest
  <2> QED BY <2>1, PriceIs DEF Newest
<1>2. Cut(off, Newest) = off - rest
  <2>1. ~(Newest < Newest)
    BY <1>1
  <2> QED BY <2>1, Zenon DEF Cut, Shares, Newest
<1>3. rest \in Nat /\ rest * P <= off * c
  BY SharesAre
<1> HIDE DEF rest, c, d, P
<1>4. off * P = off * c + off * d /\ off * c \in Nat /\ off * d \in Nat /\ off * P \in Nat
  BY <1>1
<1>5. rest <= off
  <2>1. rest * P <= off * P
    BY <1>3, <1>4, <1>1
  <2> QED BY <1>1, <1>3, <2>1, Cancel
<1>6. ASSUME off >= P PROVE off - rest >= d
  <2>1. d * P <= off * d
    <3>1. P * d <= off * d
      BY <1>1, <1>6, Times
    <3>2. P * d = d * P
      BY <1>1
    <3> QED BY <3>1, <3>2
  <2>2. (d + rest) * P = d * P + rest * P /\ d * P \in Nat /\ rest * P \in Nat
    BY <1>1, <1>3
  <2>3. (d + rest) * P <= off * P
    BY <1>3, <1>4, <2>1, <2>2
  <2>4. d + rest <= off
    BY <1>1, <1>3, <2>3, Cancel
  <2> QED BY <1>1, <1>3, <2>4
<1> QED BY <1>2, <1>5, <1>6 DEF rest, d, P

LEMMA CutIs ==
    ASSUME NEW off \in Nat, Price # 0
    PROVE  LET cuts == [k \in 1..Newest |-> Cut(off, k)]
           IN  /\ cuts \in [1..Newest -> Nat]
               /\ Sum(cuts) = off
               /\ off >= Price => \A k \in 1..Newest : Cut(off, k) >= Components[k]
               /\ off <= Price => \A k \in 1..(Newest - 1) : Cut(off, k) <= Components[k]
<1> DEFINE cuts == [k \in 1..Newest |-> Cut(off, k)]
           m == Newest - 1
           g == Shares(off)
           rest == Sum(g)
<1>1. /\ Newest \in Nat \ {0} /\ Components \in [1..Newest -> Nat] /\ Price \in Nat \ {0}
  BY PriceIs DEF Newest
<1>2. /\ \A k \in 1..Newest : Share(off, k) \in Nat
      /\ g \in [1..m -> Nat] /\ rest \in Nat
  BY SharesAre
<1>3. ASSUME NEW k \in 1..m
      PROVE  /\ Cut(off, k) = Share(off, k) /\ k \in 1..Newest
             /\ off <= Price => Cut(off, k) <= Components[k]
             /\ off >= Price => Cut(off, k) >= Components[k]
  <2>1. k < Newest /\ k \in 1..Newest /\ Components[k] \in Nat
    BY <1>1
  <2>2. Cut(off, k) = Share(off, k)
    BY <2>1, Zenon DEF Cut, Newest
  <2>3. Share(off, k) = (off * Components[k]) \div Price
    BY DEF Share
  <2> DEFINE c == Components[k]
             q == (off * c) \div Price
  <2>4. (off <= Price => q <= c) /\ (off >= Price => q >= c)
    <3>1. c \in Nat
      BY <2>1
    <3> HIDE DEF c
    <3> QED BY <1>1, <3>1, ShareBounds
  <2>5. Cut(off, k) = q
    BY <2>2, <2>3, Zenon
  <2> HIDE DEF q
  <2> QED BY <2>1, <2>2, <2>4, <2>5 DEF c
<1>4. /\ Cut(off, Newest) = off - rest /\ rest <= off
      /\ off >= Price => Cut(off, Newest) >= Components[Newest]
  BY LastCut
<1>5. m \in Nat /\ Newest \notin 1..m /\ 1..Newest = (1..m) \cup {Newest} /\ Newest \in 1..Newest
  BY <1>1
<1> HIDE DEF m, g, rest
<1>6. Cut(off, Newest) \in Nat
  BY <1>2, <1>4
<1>7. ASSUME NEW k \in 1..Newest PROVE Cut(off, k) \in Nat
  BY <1>2, <1>3, <1>5, <1>6
<1>8. cuts \in [1..Newest -> Nat] /\ \A k \in 1..Newest : cuts[k] = Cut(off, k)
  BY <1>7
<1> HIDE DEF cuts
<1>9. Sum(cuts) = off
  <2>1. Sum(cuts) = Part(cuts, 1..Newest) /\ Part(cuts, 1..Newest) = Part(cuts, 1..(Newest - 1)) + cuts[Newest]
    BY <1>1, <1>5, <1>8, PartUpTo
  <2>2. Sum(g) = Part(g, 1..m)
    BY <1>2, <1>5, PartUpTo
  <2>3. Part(cuts, 1..m) = Part(g, 1..m)
    <3> DEFINE S == 1..m
    <3>1. IsFiniteSet(S)
      <4>1. m \in Int /\ 1 \in Int
        BY <1>5
      <4> QED BY <4>1, FS_Interval
    <3>2. S \subseteq DOMAIN cuts /\ S \subseteq DOMAIN g
      BY <1>2, <1>5, <1>8
    <3>3. \A k \in S : cuts[k] = g[k]
      <4>1. \A k \in S : g[k] = Share(off, k)
        BY DEF g, Shares, m
      <4> QED BY <1>3, <1>8, <4>1
    <3> HIDE DEF S
    <3>4. Part(cuts, S) = Part(g, S)
      BY <3>1, <3>2, <3>3, PartSame
    <3> QED BY <3>4 DEF S
  <2>4. cuts[Newest] = off - rest
    BY <1>4, <1>5, <1>8
  <2> QED BY <1>2, <2>1, <2>2, <2>3, <2>4 DEF m, rest
<1>10. off >= Price => \A k \in 1..Newest : Cut(off, k) >= Components[k]
  BY <1>3, <1>4, <1>5
<1>11. off <= Price => \A k \in 1..m : Cut(off, k) <= Components[k]
  BY <1>3
<1> QED BY <1>8, <1>9, <1>10, <1>11 DEF cuts, m

(* The installments are amounts, and add up to the discounted total when   *)
(* the last one holds what is left of the discount.                        *)
(* The installments add up to the price less the discount, as far as the   *)
(* last one has room for what it takes.                                    *)
LEMMA InstallmentsAre ==
    ASSUME NEW off \in Nat
    PROVE  /\ Installments(off) \in Seq(Nat)
           /\ SplitsExactly(off) => Sum(Installments(off)) = Monus(Price, off)
<1> DEFINE C == Components
           split == Installments(off)
<1>1. Newest \in Nat \ {0} /\ C \in [1..Newest -> Nat] /\ DOMAIN C = 1..Newest /\ Price \in Nat
  BY PriceIs DEF Newest
<1>2. split = [k \in 1..Newest |-> Monus(C[k], Cut(off, k))]
  BY <1>1, Zenon DEF Installments
<1> HIDE DEF split
<1>3. CASE Price = 0
  <2>1. \A k \in 1..Newest : Cut(off, k) = 0
    BY <1>3 DEF Cut, Share
  <2>2. ASSUME NEW k \in 1..Newest PROVE Monus(C[k], Cut(off, k)) = C[k]
    <3>1. C[k] \in Nat
      BY <1>1
    <3> QED BY <2>1, <3>1 DEF Monus
  <2>3. split = C
    BY <1>1, <1>2, <2>2
  <2>4. split \in Seq(Nat)
    BY <1>1, <2>3
  <2>5. Sum(split) = 0
    BY <1>3, <2>3 DEF Price
  <2>6. Monus(Price, off) = 0
    BY <1>3 DEF Monus
  <2> QED BY <2>4, <2>5, <2>6 DEF split
<1>4. CASE Price # 0
  <2> DEFINE cuts == [k \in 1..Newest |-> Cut(off, k)]
  <2>1. /\ cuts \in [1..Newest -> Nat] /\ Sum(cuts) = off
        /\ off >= Price => \A k \in 1..Newest : Cut(off, k) >= C[k]
        /\ off <= Price => \A k \in 1..(Newest - 1) : Cut(off, k) <= C[k]
    BY <1>4, CutIs
  <2>2. \A k \in 1..Newest : Cut(off, k) = cuts[k]
    OBVIOUS
  <2> HIDE DEF cuts, C
  <2>3. split \in [1..Newest -> Nat]
    <3>1. ASSUME NEW k \in 1..Newest PROVE Monus(C[k], Cut(off, k)) \in Nat
      BY <1>1, <2>1, <2>2, MonusType
    <3> QED BY <1>2, <3>1
  <2>4. split \in Seq(Nat)
    BY <1>1, <2>3
  <2>5. CASE off >= Price
    <3>1. ASSUME NEW k \in 1..Newest PROVE split[k] = 0
      <4>1. C[k] \in Nat /\ Cut(off, k) \in Nat /\ Cut(off, k) >= C[k]
        BY <1>1, <2>1, <2>2, <2>5
      <4>2. split[k] = Monus(C[k], Cut(off, k))
        BY <1>2
      <4> QED BY <4>1, <4>2 DEF Monus
    <3>2. \A k \in 1..Newest : split[k] = split[k] + split[k]
      BY <3>1
    <3>3. Sum(split) = Sum(split) + Sum(split) /\ Sum(split) \in Nat
      BY <1>1, <2>3, <3>2, SumOfTwo, PartUpTo
    <3>4. Monus(Price, off) = 0
      BY <1>1, <2>5 DEF Monus
    <3> QED BY <2>4, <3>3, <3>4 DEF split
  <2>6. CASE off < Price
    <3> SUFFICES ASSUME SplitsExactly(off) PROVE Sum(split) = Monus(Price, off)
      BY <2>4 DEF split
    <3>1. Cut(off, Newest) <= C[Newest]
      <4>1. Cut(off, Newest) = off - Sum(Shares(off))
        BY <1>4, LastCut
      <4>2. off - Sum(Shares(off)) <= C[Newest]
        BY <1>1, <2>6 DEF SplitsExactly, Shares, Newest, C
      <4> QED BY <4>1, <4>2
    <3>2. ASSUME NEW k \in 1..Newest PROVE C[k] = split[k] + cuts[k]
      <4>1. Cut(off, k) <= C[k]
        <5>1. k = Newest \/ k \in 1..(Newest - 1)
          BY <1>1
        <5> QED BY <1>1, <2>1, <2>6, <3>1, <5>1
      <4>2. C[k] \in Nat /\ Cut(off, k) \in Nat /\ Cut(off, k) = cuts[k]
        BY <1>1, <2>1, <2>2
      <4>3. split[k] = Monus(C[k], Cut(off, k))
        BY <1>2
      <4> QED BY <4>1, <4>2, <4>3 DEF Monus
    <3>3. Sum(C) = Sum(split) + Sum(cuts)
      <4>1. Newest \in Nat /\ C \in [1..Newest -> Nat] /\ cuts \in [1..Newest -> Nat]
        BY <1>1, <2>1
      <4>2. \A k \in 1..Newest : C[k] = split[k] + cuts[k]
        BY <3>2
      <4> HIDE <1>1, <2>1
      <4> QED BY <2>3, <4>1, <4>2, SumOfTwo, Zenon
    <3>4. Sum(split) \in Nat
      BY <1>1, <2>3, PartUpTo
    <3>5. Price = Sum(split) + off
      BY <2>1, <3>3 DEF Price, C
    <3> QED BY <1>1, <2>6, <3>4, <3>5 DEF Monus
  <2> QED BY <1>1, <2>5, <2>6
<1> QED BY <1>3, <1>4

-----------------------------------------------------------------------------
(* FeeBilling: what a request holds, and what an assignment can be.        *)
Work == [pc    : {"insert", "look", "rebuild", "write", "sync", "count", "create"},
         kind  : {"assign", "generate", "apply", "revoke", "edit"},
         about : Concession \cup {"none"},
         lines : SUBSET Concession,
         holds : BOOLEAN]

Working == {t \in Work : t.kind = "apply" => t.about \in Concession}

Plan == {NoPlan} \cup [lines : SUBSET Concession]

BillingTyped ==
    /\ conc \in [Concession -> {"none", "active", "revoked"}]
    /\ plan \in Plan
    /\ running \in [Request -> {NotRunning} \cup Working]

LEMMA AtWork ==
    ASSUME BillingTyped, NEW r \in Request, running[r].pc # "idle"
    PROVE  running[r] \in Working
BY DEF BillingTyped, NotRunning

LEMMA StepTyped ==
    ASSUME BillingTyped, NEW r \in Request, NEW local \in {NotRunning} \cup Working, Step(r, local)
    PROVE  /\ running' \in [Request -> {NotRunning} \cup Working]
           /\ running'[r] = local
           /\ \A q \in Request : q # r => running'[q] = running[q]
BY DEF BillingTyped, Step

LEMMA BeginIs ==
    ASSUME BillingTyped, NEW r \in Request,
           NEW kind \in {"assign", "generate", "apply", "revoke", "edit"},
           NEW pc \in {"insert", "look", "rebuild"},
           NEW about \in Concession \cup {"none"}, NEW lines \in SUBSET Concession,
           kind = "apply" => about \in Concession,
           Begin(r, kind, pc, about, lines)
    PROVE  /\ running[r] = NotRunning
           /\ running'[r] = [pc |-> pc, kind |-> kind, about |-> about, lines |-> lines, holds |-> FALSE]
           /\ running'[r] \in Working
           /\ running' \in [Request -> {NotRunning} \cup Working]
           /\ \A q \in Request : q # r => running'[q] = running[q]
           /\ UNCHANGED <<conc, plan, bills>>
<1> DEFINE local == [pc |-> pc, kind |-> kind, about |-> about, lines |-> lines, holds |-> FALSE]
<1>1. local \in Working
  BY DEF Working, Work
<1>2. running[r] = NotRunning /\ Step(r, local) /\ UNCHANGED <<conc, plan, bills>>
  BY DEF Begin
<1> HIDE DEF local
<1>3. /\ running' \in [Request -> {NotRunning} \cup Working]
      /\ running'[r] = local
      /\ \A q \in Request : q # r => running'[q] = running[q]
  BY <1>1, <1>2, StepTyped
<1> QED BY <1>1, <1>2, <1>3 DEF local

(* How a request begins.                                                   *)
Begins(r) ==
    \/ BeginAssign(r) /\ Begin(r, "assign", "insert", "none", {})
    \/ Begin(r, "generate", "insert", "none", {c \in Concession : conc[c] = "active"})
    \/ plan # NoPlan /\ Begin(r, "generate", "look", "none", plan.lines)
    \/ \E c \in Concession, kind \in {"apply", "revoke", "edit"} :
          /\ Unclaimed(c)
          /\ kind = "apply" => conc[c] = "none"
          /\ Begin(r, kind, "rebuild", c, {})

Starting(r) ==
    \/ BeginAssign(r) \/ BeginGenerate(r)
    \/ BeginApply(r)  \/ BeginRevoke(r)  \/ BeginEdit(r)

LEMMA StartingBegins ==
    ASSUME NEW r \in Request, Starting(r) PROVE Begins(r)
<1>1. CASE BeginAssign(r)
  BY <1>1, Zenon DEF BeginAssign, Begins
<1>2. CASE BeginGenerate(r)
  BY <1>2, Zenon DEF BeginGenerate, Begins
<1>3. CASE BeginApply(r)
  <2>1. PICK c \in Concession : conc[c] = "none" /\ Unclaimed(c) /\ Begin(r, "apply", "rebuild", c, {})
    BY <1>3, Zenon DEF BeginApply
  <2> QED BY <2>1, Zenon DEF Begins
<1>4. CASE BeginRevoke(r)
  <2>1. PICK c \in Concession : Unclaimed(c) /\ Begin(r, "revoke", "rebuild", c, {})
    BY <1>4, Zenon DEF BeginRevoke
  <2>2. "revoke" # "apply"
    OBVIOUS
  <2> QED BY <2>1, <2>2, Zenon DEF Begins
<1>5. CASE BeginEdit(r)
  <2>1. PICK c \in Concession : Unclaimed(c) /\ Begin(r, "edit", "rebuild", c, {})
    BY <1>5, Zenon DEF BeginEdit
  <2>2. "edit" # "apply"
    OBVIOUS
  <2> QED BY <2>1, <2>2, Zenon DEF Begins
<1> QED BY <1>1, <1>2, <1>3, <1>4, <1>5 DEF Starting

LEMMA StartingIs ==
    ASSUME BillingTyped, NEW r \in Request, Starting(r)
    PROVE  /\ running[r] = NotRunning
           /\ running'[r] \in Working
           /\ running' \in [Request -> {NotRunning} \cup Working]
           /\ \A q \in Request : q # r => running'[q] = running[q]
           /\ UNCHANGED <<conc, plan, bills>>
           /\ LET t == running'[r] IN
              \/ t.pc = "insert" /\ t.kind = "assign" /\ t.about = "none" /\ t.lines = {}
              \/ /\ t.pc = "insert" /\ t.kind = "generate" /\ t.about = "none"
                 /\ t.lines = {c \in Concession : conc[c] = "active"}
              \/ /\ t.pc = "look" /\ t.kind = "generate" /\ t.about = "none"
                 /\ plan # NoPlan /\ t.lines = plan.lines
              \/ /\ t.pc = "rebuild" /\ t.kind \in {"apply", "revoke", "edit"} /\ t.lines = {}
                 /\ t.about \in Concession /\ Unclaimed(t.about)
                 /\ t.kind = "apply" => conc[t.about] = "none"
<1> DEFINE active == {c \in Concession : conc[c] = "active"}
           Done == /\ running[r] = NotRunning
                   /\ running'[r] \in Working
                   /\ running' \in [Request -> {NotRunning} \cup Working]
                   /\ \A q \in Request : q # r => running'[q] = running[q]
                   /\ UNCHANGED <<conc, plan, bills>>
<1>1. Begins(r)
  BY StartingBegins
<1>2. CASE Begin(r, "assign", "insert", "none", {})
  <2>1. Done /\ running'[r] = [pc |-> "insert", kind |-> "assign", about |-> "none", lines |-> {},
                               holds |-> FALSE]
    BY <1>2, BeginIs
  <2> QED BY <2>1
<1>3. CASE Begin(r, "generate", "insert", "none", active)
  <2>0. active \in SUBSET Concession
    OBVIOUS
  <2> HIDE DEF active
  <2>1. Done /\ running'[r] = [pc |-> "insert", kind |-> "generate", about |-> "none", lines |-> active,
                               holds |-> FALSE]
    BY <1>3, <2>0, BeginIs
  <2> QED BY <2>1 DEF active
<1>4. CASE plan # NoPlan /\ Begin(r, "generate", "look", "none", plan.lines)
  <2>0. plan.lines \in SUBSET Concession
    BY <1>4 DEF BillingTyped, Plan
  <2>1. Done /\ running'[r] = [pc |-> "look", kind |-> "generate", about |-> "none", lines |-> plan.lines,
                               holds |-> FALSE]
    BY <1>4, <2>0, BeginIs
  <2> QED BY <1>4, <2>1
<1>5. CASE \E c \in Concession, kind \in {"apply", "revoke", "edit"} :
              Unclaimed(c) /\ (kind = "apply" => conc[c] = "none") /\ Begin(r, kind, "rebuild", c, {})
  <2>1. PICK c \in Concession, kind \in {"apply", "revoke", "edit"} :
            Unclaimed(c) /\ (kind = "apply" => conc[c] = "none") /\ Begin(r, kind, "rebuild", c, {})
    BY <1>5
  <2>2. Done /\ running'[r] = [pc |-> "rebuild", kind |-> kind, about |-> c, lines |-> {},
                               holds |-> FALSE]
    BY <2>1, BeginIs
  <2> HIDE DEF Done
  <2>3. /\ running'[r].pc = "rebuild" /\ running'[r].kind = kind /\ running'[r].lines = {}
        /\ running'[r].about = c
    BY <2>2
  <2> QED BY <2>1, <2>2, <2>3, Zenon DEF Done
<1> QED BY <1>1, <1>2, <1>3, <1>4, <1>5, Zenon DEF Begins

(* How a request goes on.                                                  *)
Continuing(r) ==
    \/ Insert(r) \/ Look(r) \/ Rebuild(r) \/ NothingToRebuild(r)
    \/ Write(r)  \/ Sync(r) \/ Count(r)   \/ Create(r) \/ GiveUp(r)

Unwritten == UNCHANGED <<conc, plan, bills>>

GoesOn(r, pc, lines) ==
    /\ Unwritten
    /\ running'[r] \in Working
    /\ running'[r].pc = pc /\ running'[r].lines = lines
    /\ running'[r].kind = running[r].kind /\ running'[r].about = running[r].about

Continues(r) ==
    LET t == running[r] IN
    \/ running'[r] = NotRunning /\ Unwritten
    \/ t.pc = "insert" /\ t.kind = "assign" /\ GoesOn(r, "rebuild", t.lines)
    \/ t.pc = "insert" /\ t.kind # "assign" /\ GoesOn(r, "look", t.lines)
    \/ t.pc = "look" /\ Active(r) = {} /\ GoesOn(r, "count", t.lines)
    \/ t.pc = "look" /\ GoesOn(r, "rebuild", t.lines)
    \/ t.pc = "rebuild" /\ \E lines \in OnePerRule(Active(r)) : GoesOn(r, "write", lines)
    \/ t.pc = "rebuild" /\ ~t.holds /\ Commit(r) /\ UNCHANGED bills
    \/ t.pc = "write" /\ GoesOn(r, "sync", t.lines)
    \/ t.pc = "sync" /\ t.kind = "generate" /\ GoesOn(r, "count", t.lines)
    \/ t.pc = "sync" /\ Commit(r) /\ bills' = SyncedBills(TotalFor(t.lines))
    \/ t.pc = "count" /\ GoesOn(r, "create", t.lines)
    \/ t.pc = "count" /\ Commit(r) /\ UNCHANGED bills
    \/ t.pc = "create" /\ Commit(r) /\ bills' = Append(bills, NewBill(t.lines))

Rewritten(t, local, pc, lines) ==
    \/ lines = t.lines /\ local = [t EXCEPT !.pc = pc]
    \/ lines = t.lines /\ local = [t EXCEPT !.holds = TRUE, !.pc = pc]
    \/ lines = t.lines /\ local = [t EXCEPT !.pc = pc, !.holds = TRUE]
    \/ local = [t EXCEPT !.pc = pc, !.lines = lines]

LEMMA WorkingWrites ==
    ASSUME NEW t \in Working,
           NEW pc \in {"insert", "look", "rebuild", "write", "sync", "count", "create"},
           NEW lines \in SUBSET Concession,
           NEW local,
           Rewritten(t, local, pc, lines)
    PROVE  /\ local \in Working /\ local.pc = pc /\ local.lines = lines
           /\ local.kind = t.kind /\ local.about = t.about
<1>1. CASE lines = t.lines /\ local = [t EXCEPT !.pc = pc]
  BY <1>1 DEF Working, Work
<1>2. CASE lines = t.lines /\ local = [t EXCEPT !.holds = TRUE, !.pc = pc]
  <2>1. local \in Working
    BY <1>2 DEF Working, Work
  <2>2. local.pc = pc /\ local.lines = lines /\ local.kind = t.kind /\ local.about = t.about
    BY <1>2 DEF Working, Work
  <2> QED BY <2>1, <2>2
<1>3. CASE lines = t.lines /\ local = [t EXCEPT !.pc = pc, !.holds = TRUE]
  <2>1. local \in Working
    BY <1>3 DEF Working, Work
  <2>2. local.pc = pc /\ local.lines = lines /\ local.kind = t.kind /\ local.about = t.about
    BY <1>3 DEF Working, Work
  <2> QED BY <2>1, <2>2
<1>4. CASE local = [t EXCEPT !.pc = pc, !.lines = lines]
  <2>1. local \in Working
    BY <1>4 DEF Working, Work
  <2>2. local.pc = pc /\ local.lines = lines /\ local.kind = t.kind /\ local.about = t.about
    BY <1>4 DEF Working, Work
  <2> QED BY <2>1, <2>2
<1> QED BY <1>1, <1>2, <1>3, <1>4 DEF Rewritten

LEMMA ActiveIs ==
    ASSUME BillingTyped, NEW r \in Request, running[r] \in Working
    PROVE  /\ Active(r) \subseteq Concession
           /\ \A c \in Active(r) :
                 conc[c] = "active" \/ (running[r].kind = "apply" /\ c = running[r].about)
           /\ running[r].kind # "apply" /\ running[r].kind # "revoke" =>
                 Active(r) = {c \in Concession : conc[c] = "active"}
BY DEF Working, Active, Granted, Revoked

LEMMA OnePerRuleIs ==
    ASSUME NEW cs \in SUBSET Concession, NEW lines \in OnePerRule(cs)
    PROVE  /\ lines \subseteq cs
           /\ \A c, d \in lines : RuleOf[c] = RuleOf[d] => c = d
<1>1. lines \subseteq cs
  BY Zenon DEF OnePerRule
<1>2. ASSUME NEW c \in lines, NEW d \in lines, RuleOf[c] = RuleOf[d] PROVE c = d
  <2> DEFINE same == {e \in lines : RuleOf[e] = RuleOf[c]}
  <2>1. Cardinality(same) = 1
    <3>1. c \in cs
      BY <1>1
    <3> QED BY <3>1, Zenon DEF OnePerRule
  <2>2. IsFiniteSet(same)
    <3>1. same \subseteq Concession
      BY <1>1
    <3> QED BY <3>1, ConcessionAssumption, FS_Subset
  <2>3. c \in same /\ d \in same
    BY <1>2
  <2> HIDE DEF same
  <2>4. PICK x : same = {x}
    BY <2>1, <2>2, FS_Singleton
  <2> QED BY <2>3, <2>4
<1> QED BY <1>1, <1>2

(* A step that writes nothing to the database, and one that commits.       *)
LEMMA GoingOn ==
    ASSUME BillingTyped, NEW r \in Request, NEW local \in Working, Step(r, local),
           UNCHANGED <<conc, plan, bills>>,
           local.kind = running[r].kind, local.about = running[r].about
    PROVE  GoesOn(r, local.pc, local.lines)
<1>1. running'[r] = local
  BY StepTyped
<1> QED BY <1>1 DEF GoesOn, Unwritten

LEMMA Ending ==
    ASSUME BillingTyped, NEW r \in Request, End(r), UNCHANGED <<conc, plan, bills>>
    PROVE  Continues(r)
<1>1. Step(r, NotRunning)
  BY DEF End
<1>2. running'[r] = NotRunning
  BY <1>1, StepTyped
<1> QED BY <1>2, Zenon DEF Continues, Unwritten

LEMMA ContinuingIs ==
    ASSUME BillingTyped, NEW r \in Request, Continuing(r)
    PROVE  Continues(r)
<1> DEFINE t == running[r]
           to(pc) == [t EXCEPT !.pc = pc]
<1>1. ASSUME t \in Working,
             NEW pc \in {"insert", "look", "rebuild", "write", "sync", "count", "create"},
             NEW lines \in SUBSET Concession,
             NEW local,
             Rewritten(t, local, pc, lines),
             Step(r, local), UNCHANGED <<conc, plan, bills>>
      PROVE  GoesOn(r, pc, lines)
  <2> HIDE DEF t
  <2>1. /\ local \in Working /\ local.pc = pc /\ local.lines = lines
        /\ local.kind = t.kind /\ local.about = t.about
    BY <1>1, WorkingWrites
  <2>2. GoesOn(r, local.pc, local.lines)
    BY <1>1, <2>1, GoingOn DEF t
  <2> QED BY <2>1, <2>2
<1>0. t \in Working => t.lines \in SUBSET Concession
  BY DEF Working, Work
<1>2. CASE Insert(r)
  <2>1. t.pc = "insert" /\ t \in Working
    <3>1. t.pc = "insert"
      BY <1>2 DEF Insert
    <3> QED BY <3>1, AtWork
  <2>2. CASE plan # NoPlan
    <3>1. End(r) /\ UNCHANGED <<conc, plan, bills>>
      BY <1>2, <2>2, Zenon DEF Insert
    <3> QED BY <3>1, Ending
  <2>3. CASE plan = NoPlan /\ t.kind = "assign"
    <3>1. /\ Step(r, [t EXCEPT !.holds = TRUE, !.pc = "rebuild"])
          /\ UNCHANGED <<conc, plan, bills>>
      BY <1>2, <2>3 DEF Insert
    <3>2. GoesOn(r, "rebuild", t.lines)
      BY <1>0, <1>1, <2>1, <3>1 DEF Rewritten
    <3> QED BY <2>1, <2>3, <3>2, Zenon DEF Continues
  <2>4. CASE plan = NoPlan /\ t.kind # "assign"
    <3>1. /\ Step(r, [t EXCEPT !.holds = TRUE, !.pc = "look"])
          /\ UNCHANGED <<conc, plan, bills>>
      BY <1>2, <2>4 DEF Insert
    <3>2. GoesOn(r, "look", t.lines)
      BY <1>0, <1>1, <2>1, <3>1 DEF Rewritten
    <3> QED BY <2>1, <2>4, <3>2, Zenon DEF Continues
  <2> QED BY <2>2, <2>3, <2>4
<1>3. CASE Look(r)
  <2>1. t.pc = "look" /\ t \in Working
    <3>1. t.pc = "look"
      BY <1>3 DEF Look
    <3> QED BY <3>1, AtWork
  <2>2. CASE Active(r) = {}
    <3>1. Step(r, to("count")) /\ UNCHANGED <<conc, plan, bills>>
      BY <1>3, <2>2 DEF Look
    <3>2. GoesOn(r, "count", t.lines)
      BY <1>0, <1>1, <2>1, <3>1 DEF Rewritten
    <3> QED BY <2>1, <2>2, <3>2, Zenon DEF Continues
  <2>3. CASE Active(r) # {}
    <3>1. Step(r, to("rebuild")) /\ UNCHANGED <<conc, plan, bills>>
      BY <1>3, <2>3 DEF Look
    <3>2. GoesOn(r, "rebuild", t.lines)
      BY <1>0, <1>1, <2>1, <3>1 DEF Rewritten
    <3> QED BY <2>1, <3>2, Zenon DEF Continues
  <2> QED BY <2>2, <2>3
<1>4. CASE Rebuild(r)
  <2>1. t.pc = "rebuild" /\ t \in Working
    <3>1. t.pc = "rebuild"
      BY <1>4 DEF Rebuild
    <3> QED BY <3>1, AtWork
  <2>2. PICK lines \in OnePerRule(Active(r)) : Step(r, [t EXCEPT !.pc = "write", !.lines = lines])
    BY <1>4, Zenon DEF Rebuild
  <2>3. UNCHANGED <<conc, plan, bills>>
    BY <1>4 DEF Rebuild
  <2>4. lines \in SUBSET Concession
    <3>1. Active(r) \in SUBSET Concession
      BY <2>1, ActiveIs
    <3> QED BY <2>2, <3>1, OnePerRuleIs
  <2>5. GoesOn(r, "write", lines)
    BY <1>1, <2>1, <2>2, <2>3, <2>4 DEF Rewritten
  <2> QED BY <2>1, <2>2, <2>5, Zenon DEF Continues
<1>5. CASE NothingToRebuild(r)
  BY <1>5, Zenon DEF NothingToRebuild, Continues
<1>6. CASE Write(r)
  <2>1. t.pc = "write" /\ t \in Working
    <3>1. t.pc = "write"
      BY <1>6 DEF Write
    <3> QED BY <3>1, AtWork
  <2>2. Step(r, [t EXCEPT !.pc = "sync", !.holds = TRUE]) /\ UNCHANGED <<conc, plan, bills>>
    BY <1>6 DEF Write
  <2>3. GoesOn(r, "sync", t.lines)
    BY <1>0, <1>1, <2>1, <2>2 DEF Rewritten
  <2> QED BY <2>1, <2>3, Zenon DEF Continues
<1>7. CASE Sync(r)
  <2>1. t.pc = "sync" /\ t \in Working
    <3>1. t.pc = "sync"
      BY <1>7 DEF Sync
    <3> QED BY <3>1, AtWork
  <2>2. CASE Cardinality(Open) > 1
    <3>1. End(r) /\ UNCHANGED <<conc, plan, bills>>
      BY <1>7, <2>2, Zenon DEF Sync
    <3> QED BY <3>1, Ending
  <2>3. CASE ~(Cardinality(Open) > 1) /\ t.kind = "generate" /\ Open = {}
    <3>1. Step(r, to("count")) /\ UNCHANGED <<conc, plan, bills>>
      BY <1>7, <2>3, Zenon DEF Sync
    <3>2. GoesOn(r, "count", t.lines)
      BY <1>0, <1>1, <2>1, <3>1 DEF Rewritten
    <3> QED BY <2>1, <2>3, <3>2, Zenon DEF Continues
  <2>4. CASE ~(Cardinality(Open) > 1) /\ ~(t.kind = "generate" /\ Open = {})
    <3>1. Commit(r) /\ bills' = SyncedBills(TotalFor(t.lines))
      BY <1>7, <2>4, Zenon DEF Sync
    <3> QED BY <2>1, <3>1, Zenon DEF Continues
  <2> QED BY <2>2, <2>3, <2>4
<1>8. CASE Count(r)
  <2>1. t.pc = "count" /\ t \in Working
    <3>1. t.pc = "count"
      BY <1>8 DEF Count
    <3> QED BY <3>1, AtWork
  <2>2. CASE bills = <<>>
    <3>1. Step(r, to("create")) /\ UNCHANGED <<conc, plan, bills>>
      BY <1>8, <2>2, Zenon DEF Count
    <3>2. GoesOn(r, "create", t.lines)
      BY <1>0, <1>1, <2>1, <3>1 DEF Rewritten
    <3> QED BY <2>1, <3>2, Zenon DEF Continues
  <2>3. CASE bills # <<>>
    <3>1. Commit(r) /\ UNCHANGED bills
      BY <1>8, <2>3, Zenon DEF Count
    <3> QED BY <2>1, <3>1, Zenon DEF Continues
  <2> QED BY <2>2, <2>3
<1>9. CASE Create(r)
  <2>1. t.pc = "create" /\ Commit(r) /\ bills' = Append(bills, NewBill(t.lines))
    BY <1>9 DEF Create
  <2> QED BY <2>1, Zenon DEF Continues
<1>10. CASE GiveUp(r)
  <2>1. End(r) /\ UNCHANGED <<conc, plan, bills>>
    BY <1>10 DEF GiveUp
  <2> QED BY <2>1, Ending
<1> QED BY <1>2, <1>3, <1>4, <1>5, <1>6, <1>7, <1>8, <1>9, <1>10 DEF Continuing

(* A committed request has written its grant, its revocation and, if it    *)
(* holds the assignment, its concessions.                                  *)
LEMMA CommitIs ==
    ASSUME BillingTyped, NEW r \in Request, running[r] \in Working, Commit(r)
    PROVE  /\ running'[r] = NotRunning
           /\ running' \in [Request -> {NotRunning} \cup Working]
           /\ \A q \in Request : q # r => running'[q] = running[q]
           /\ conc' \in [Concession -> {"none", "active", "revoked"}]
           /\ plan' \in Plan
           /\ plan' = IF running[r].holds THEN [lines |-> running[r].lines] ELSE plan
           /\ \A c \in Concession :
                 \/ conc'[c] = conc[c] /\ ~(running[r].kind = "apply" /\ c = running[r].about)
                 \/ conc'[c] = "active" /\ running[r].kind = "apply" /\ c = running[r].about
                 \/ conc'[c] = "revoked" /\ running[r].kind = "revoke" /\ c = running[r].about
<1>1. Step(r, NotRunning)
  BY DEF Commit, End
<1>2. /\ running'[r] = NotRunning
      /\ running' \in [Request -> {NotRunning} \cup Working]
      /\ \A q \in Request : q # r => running'[q] = running[q]
  BY <1>1, StepTyped
<1>3. conc' = [c \in Concession |-> IF c \in Granted(r) THEN "active"
                                    ELSE IF c \in Revoked(r) THEN "revoked" ELSE conc[c]]
  BY DEF Commit
<1>4. \A c \in Concession :
         /\ conc'[c] \in {"none", "active", "revoked"}
         /\ \/ conc'[c] = conc[c] /\ ~(running[r].kind = "apply" /\ c = running[r].about)
            \/ conc'[c] = "active" /\ running[r].kind = "apply" /\ c = running[r].about
            \/ conc'[c] = "revoked" /\ running[r].kind = "revoke" /\ c = running[r].about
  BY <1>3 DEF Granted, Revoked, BillingTyped
<1>5. conc' \in [Concession -> {"none", "active", "revoked"}]
  BY <1>3, <1>4
<1>6. plan' = IF running[r].holds THEN [lines |-> running[r].lines] ELSE plan
  BY DEF Commit
<1>7. plan' \in Plan
  <2>1. running[r].lines \in SUBSET Concession
    BY DEF Working, Work
  <2>2. [lines |-> running[r].lines] \in [lines : SUBSET Concession]
    BY <2>1
  <2> QED BY <1>6, <2>2 DEF Plan, BillingTyped
<1> QED BY <1>2, <1>4, <1>5, <1>6, <1>7, Zenon

-----------------------------------------------------------------------------
(* The steps of FeeBilling, and that they keep the types.                  *)
Reading(m, i) ==
    \/ ReadToCapture(m, i) \/ ReadToRefund(m, i) \/ ReadToCut(m, i) \/ ReadToWriteOff(m, i)

Saving(m) == Capture(m) \/ Refund(m) \/ ApproveCreditNote(m) \/ WriteOffInvoice(m)

MovesMoney ==
    \/ \E i \in 1..Least(Len(bills), MaxMoved) : PayAtCounter(i) \/ \E m \in Mover : Reading(m, i)
    \/ \E m \in Mover : Saving(m) \/ GiveUpMove(m)

LEMMA BillingSteps ==
    ASSUME [BillingNext]_billingVars
    PROVE  \/ UNCHANGED billingVars
           \/ \E r \in Request : Starting(r) /\ UNCHANGED moving
           \/ \E r \in Request : Continuing(r) /\ UNCHANGED moving
           \/ MovesMoney
BY Zenon DEF BillingNext, Starting, Continuing, MovesMoney, Reading, Saving

LEMMA MoneyOnly ==
    ASSUME MovesMoney PROVE UNCHANGED <<conc, plan, running>>
<1>1. CASE \E i : PayAtCounter(i)
  BY <1>1 DEF PayAtCounter
<1>2. CASE \E m, i : Reading(m, i)
  BY <1>2 DEF Reading, ReadToCapture, ReadToRefund, ReadToCut, ReadToWriteOff, Read
<1>3. CASE \E m : Saving(m) \/ GiveUpMove(m)
  <2>1. \E m : EndMove(m)
    BY <1>3, Zenon DEF Saving, Capture, Refund, ApproveCreditNote, WriteOffInvoice, GiveUpMove,
                       SavedPaid, SavedTotal
  <2> QED BY <2>1 DEF EndMove
<1> QED BY <1>1, <1>2, <1>3 DEF MovesMoney

LEMMA BillingTypedInit == BillingInit => BillingTyped
BY DEF BillingInit, BillingTyped, Plan

LEMMA ContinuesTyped ==
    ASSUME BillingTyped, NEW r \in Request, Continuing(r)
    PROVE  /\ conc' \in [Concession -> {"none", "active", "revoked"}]
           /\ plan' \in Plan
           /\ running' \in [Request -> {NotRunning} \cup Working]
           /\ running[r] \in Working
           /\ \A q \in Request : q # r => running'[q] = running[q]
           /\ Continues(r)
<1>1. Continues(r)
  BY ContinuingIs
<1>2. running[r] \in Working
  <2>1. running[r] # NotRunning
    <3>1. CASE GiveUp(r)
      BY <3>1 DEF GiveUp
    <3>2. CASE Continuing(r) /\ ~GiveUp(r)
      <4>1. running[r].pc \in {"insert", "look", "rebuild", "write", "sync", "count", "create"}
        BY <3>2 DEF Continuing, Insert, Look, Rebuild, NothingToRebuild, Write, Sync, Count, Create
      <4> QED BY <4>1 DEF NotRunning
    <3> QED BY <3>1, <3>2
  <2> QED BY <2>1 DEF BillingTyped
<1>3. \E local \in {NotRunning} \cup Working : Step(r, local)
  <2>1. \E local : Step(r, local)
    BY Zenon DEF Continuing, Insert, Look, Rebuild, NothingToRebuild, Write, Sync, Count, Create,
                 GiveUp, Commit, End
  <2>2. PICK local : Step(r, local)
    BY <2>1
  <2>3. running'[r] = local
    BY <2>2 DEF Step, BillingTyped
  <2>4. running'[r] \in {NotRunning} \cup Working
    <3>1. CASE Commit(r)
      BY <1>2, <3>1, CommitIs
    <3>2. CASE ~Commit(r)
      BY <1>1, <3>2 DEF Continues, GoesOn
    <3> QED BY <3>1, <3>2
  <2> QED BY <2>2, <2>3, <2>4
<1>4. /\ running' \in [Request -> {NotRunning} \cup Working]
      /\ \A q \in Request : q # r => running'[q] = running[q]
  BY <1>3, StepTyped
<1>5. conc' \in [Concession -> {"none", "active", "revoked"}] /\ plan' \in Plan
  <2>1. CASE Commit(r)
    BY <1>2, <2>1, CommitIs
  <2>2. CASE ~Commit(r)
    <3>1. UNCHANGED <<conc, plan>>
      BY <1>1, <2>2 DEF Continues, GoesOn, Unwritten
    <3> QED BY <3>1 DEF BillingTyped
  <2> QED BY <2>1, <2>2
<1> QED BY <1>1, <1>2, <1>4, <1>5

LEMMA BillingTypedStep == BillingTyped /\ [BillingNext]_billingVars => BillingTyped'
<1> SUFFICES ASSUME BillingTyped, [BillingNext]_billingVars PROVE BillingTyped'
  OBVIOUS
<1>1. CASE UNCHANGED billingVars
  BY <1>1 DEF billingVars, BillingTyped
<1>2. ASSUME NEW r \in Request, Starting(r) PROVE BillingTyped'
  <2>1. running' \in [Request -> {NotRunning} \cup Working] /\ UNCHANGED <<conc, plan>>
    BY <1>2, StartingIs
  <2> QED BY <2>1 DEF BillingTyped
<1>3. ASSUME NEW r \in Request, Continuing(r) PROVE BillingTyped'
  BY <1>3, ContinuesTyped DEF BillingTyped
<1>4. CASE MovesMoney
  BY <1>4, MoneyOnly DEF BillingTyped
<1> QED BY <1>1, <1>2, <1>3, <1>4, BillingSteps

-----------------------------------------------------------------------------
(* A concession once granted is never "none" again, and only the request   *)
(* that grants it can make it active: what others hold, and the assignment,*)
(* names none of those being granted.                                      *)
Known(co, lines) == \A c \in lines : co[c] # "none"

Exclusive(co, lines) == \A c, d \in lines : RuleOf[c] = RuleOf[d] /\ co[c] = "active" => c = d

Granting(t) == t.kind = "apply"

WorkRight(co, t) ==
    /\ Granting(t) => co[t.about] = "none"
    /\ \A c \in t.lines : co[c] # "none" \/ (Granting(t) /\ c = t.about)
    /\ t.pc = "insert" => t.kind \in {"assign", "generate"}
    /\ t.pc \in {"look", "count", "create"} => t.kind = "generate"
    /\ t.pc \in {"write", "sync"} => \A c, d \in t.lines : RuleOf[c] = RuleOf[d] => c = d
    /\ t.pc \in {"count", "create"} => Exclusive(co, t.lines)

RulesRight ==
    /\ plan # NoPlan => Known(conc, plan.lines) /\ Exclusive(conc, plan.lines)
    /\ \A r \in Request : running[r] # NotRunning => WorkRight(conc, running[r])
    /\ \A q, r \in Request :
          /\ q # r /\ running[q] # NotRunning /\ running[r] # NotRunning
          /\ Granting(running[q]) /\ running[r].kind \in {"apply", "revoke", "edit"}
          => running[q].about # running[r].about

LEMMA RulesInit == BillingInit => RulesRight
BY DEF BillingInit, RulesRight

(* What a request may do to the concessions.                               *)
Later(co, new) ==
    \A c \in Concession : \/ new[c] = co[c] \/ new[c] = "revoked"
                          \/ new[c] = "active" /\ co[c] = "none"

LEMMA LaterRules ==
    ASSUME NEW co, NEW new, Later(co, new), NEW lines \in SUBSET Concession,
           Known(co, lines), Exclusive(co, lines)
    PROVE  Known(new, lines) /\ Exclusive(new, lines)
BY DEF Later, Known, Exclusive

LEMMA LaterWork ==
    ASSUME NEW co, NEW new, Later(co, new), NEW t \in Working, WorkRight(co, t),
           Granting(t) => new[t.about] = "none"
    PROVE  WorkRight(new, t)
<1>1. t.lines \in SUBSET Concession
  BY DEF Working, Work
<1>2. \A c \in t.lines : new[c] # "none" \/ (Granting(t) /\ c = t.about)
  BY <1>1 DEF Later, WorkRight
<1>3. ASSUME t.pc \in {"count", "create"} PROVE Exclusive(new, t.lines)
  <2>1. Known(co, t.lines) /\ Exclusive(co, t.lines)
    BY <1>3 DEF WorkRight, Known, Granting
  <2> QED BY <1>1, <2>1, LaterRules
<1> QED BY <1>2, <1>3 DEF WorkRight

(* One request moves, and what it writes is right for the others.          *)
LEMMA RulesMove ==
    ASSUME BillingTyped, RulesRight, NEW r \in Request,
           \A q \in Request : q # r => running'[q] = running[q],
           Later(conc, conc'),
           \A q \in Request : q # r /\ running[q] # NotRunning /\ Granting(running[q])
                                   => conc'[running[q].about] = "none",
           plan' # NoPlan => Known(conc', plan'.lines) /\ Exclusive(conc', plan'.lines),
           running'[r] # NotRunning => WorkRight(conc', running'[r]),
           \A q \in Request :
              q # r /\ running[q] # NotRunning /\ running'[r] # NotRunning
                 => /\ Granting(running[q]) /\ running'[r].kind \in {"apply", "revoke", "edit"}
                           => running[q].about # running'[r].about
                    /\ Granting(running'[r]) /\ running[q].kind \in {"apply", "revoke", "edit"}
                           => running[q].about # running'[r].about
    PROVE  RulesRight'
<1>1. ASSUME NEW q \in Request, running'[q] # NotRunning PROVE WorkRight(conc', running'[q])
  <2>1. CASE q = r
    BY <1>1, <2>1
  <2>2. CASE q # r
    <3>1. running'[q] = running[q] /\ running[q] \in Working /\ WorkRight(conc, running[q])
      BY <1>1, <2>2 DEF BillingTyped, RulesRight
    <3>2. Granting(running[q]) => conc'[running[q].about] = "none"
      BY <1>1, <2>2, <3>1
    <3> QED BY <3>1, <3>2, LaterWork
  <2> QED BY <2>1, <2>2
<1>2. ASSUME NEW p \in Request, NEW q \in Request, p # q,
             running'[p] # NotRunning, running'[q] # NotRunning,
             Granting(running'[p]), running'[q].kind \in {"apply", "revoke", "edit"}
      PROVE  running'[p].about # running'[q].about
  <2>1. CASE p # r /\ q # r
    BY <1>2, <2>1 DEF RulesRight
  <2>2. CASE p = r
    BY <1>2, <2>2
  <2>3. CASE q = r
    BY <1>2, <2>3
  <2> QED BY <2>1, <2>2, <2>3
<1> QED BY <1>1, <1>2 DEF RulesRight

LEMMA RulesStarting ==
    ASSUME BillingTyped, RulesRight, NEW r \in Request, Starting(r)
    PROVE  RulesRight'
<1> DEFINE t == running'[r]
<1>1. /\ running[r] = NotRunning /\ t \in Working
      /\ \A q \in Request : q # r => running'[q] = running[q]
      /\ conc' = conc /\ plan' = plan
  BY StartingIs
<1>2. \/ t.pc = "insert" /\ t.kind = "assign" /\ t.lines = {}
      \/ t.pc = "insert" /\ t.kind = "generate" /\ t.lines = {c \in Concession : conc[c] = "active"}
      \/ t.pc = "look" /\ t.kind = "generate" /\ plan # NoPlan /\ t.lines = plan.lines
      \/ /\ t.pc = "rebuild" /\ t.kind \in {"apply", "revoke", "edit"} /\ t.lines = {}
         /\ t.about \in Concession /\ Unclaimed(t.about)
         /\ t.kind = "apply" => conc[t.about] = "none"
  BY StartingIs, Zenon
<1>3. WorkRight(conc, t)
  <2>1. CASE t.pc = "insert" /\ t.kind \in {"assign", "generate"}
    <3>1. \A c \in t.lines : conc[c] # "none"
      BY <1>2, <2>1
    <3> QED BY <2>1, <3>1 DEF WorkRight, Granting
  <2>2. CASE t.pc = "look" /\ t.kind = "generate" /\ plan # NoPlan /\ t.lines = plan.lines
    BY <2>2 DEF WorkRight, Granting, RulesRight, Known
  <2>3. CASE t.pc = "rebuild" /\ t.lines = {} /\ (t.kind = "apply" => conc[t.about] = "none")
    BY <2>3 DEF WorkRight, Granting
  <2> QED BY <1>2, <2>1, <2>2, <2>3
<1>4. ASSUME NEW q \in Request, q # r, running[q] # NotRunning, t.kind \in {"apply", "revoke", "edit"}
      PROVE  running[q].about # t.about
  <2>1. Unclaimed(t.about)
    BY <1>2, <1>4
  <2> QED BY <1>4, <2>1 DEF Unclaimed
<1>5. \A q \in Request : q # r /\ running[q] # NotRunning /\ Granting(running[q])
                             => conc'[running[q].about] = "none"
  BY <1>1 DEF RulesRight, WorkRight
<1>6. Later(conc, conc')
  BY <1>1 DEF Later
<1>7. plan' # NoPlan => Known(conc', plan'.lines) /\ Exclusive(conc', plan'.lines)
  BY <1>1 DEF RulesRight
<1>8. \A q \in Request :
         q # r /\ running[q] # NotRunning /\ t # NotRunning
            => /\ Granting(running[q]) /\ t.kind \in {"apply", "revoke", "edit"}
                      => running[q].about # t.about
               /\ Granting(t) /\ running[q].kind \in {"apply", "revoke", "edit"}
                      => running[q].about # t.about
  BY <1>4 DEF Granting
<1>9. WorkRight(conc', t)
  BY <1>1, <1>3
<1> HIDE DEF t
<1> QED BY <1>1, <1>5, <1>6, <1>7, <1>8, <1>9, RulesMove DEF t

(* What is committed, and the request that goes on without committing.     *)
LEMMA RulesCommit ==
    ASSUME BillingTyped, RulesRight, NEW r \in Request, running[r] \in Working, Commit(r),
           running[r].pc \in {"sync", "count", "create"} \/ ~running[r].holds,
           running[r] # NotRunning
    PROVE  RulesRight'
<1> DEFINE t == running[r]
           L == t.lines
<1>1. /\ running'[r] = NotRunning
      /\ \A q \in Request : q # r => running'[q] = running[q]
      /\ plan' = IF t.holds THEN [lines |-> L] ELSE plan
  BY CommitIs
<1>2. \A c \in Concession :
         \/ conc'[c] = conc[c] /\ ~(t.kind = "apply" /\ c = t.about)
         \/ conc'[c] = "active" /\ t.kind = "apply" /\ c = t.about
         \/ conc'[c] = "revoked" /\ t.kind = "revoke" /\ c = t.about
  BY CommitIs
<1>3. WorkRight(conc, t)
  BY DEF RulesRight
<1>4. t \in Working /\ L \in SUBSET Concession /\ (t.kind = "apply" => t.about \in Concession)
  BY DEF Working, Work
<1> HIDE DEF t, L
<1>5. Later(conc, conc')
  BY <1>2, <1>3 DEF Later, WorkRight, Granting
<1>6. ASSUME NEW q \in Request, q # r, running[q] # NotRunning, Granting(running[q])
      PROVE  conc'[running[q].about] = "none"
  <2>1. running[q].about \in Concession /\ conc[running[q].about] = "none"
    BY <1>6 DEF RulesRight, WorkRight, BillingTyped, Working, Granting
  <2>2. t.kind \in {"apply", "revoke", "edit"} => running[q].about # t.about
    BY <1>6 DEF RulesRight, t
  <2> QED BY <1>2, <2>1, <2>2
<1>7. ASSUME plan' # NoPlan PROVE Known(conc', plan'.lines) /\ Exclusive(conc', plan'.lines)
  <2>1. CASE t.holds
    <3>1. plan'.lines = L /\ t.pc \in {"sync", "count", "create"}
      BY <1>1, <2>1 DEF t
    <3>2. Known(conc', L)
      BY <1>2, <1>3, <1>4 DEF Known, WorkRight, Granting, L
    <3>3. Exclusive(conc', L)
      <4>1. CASE t.pc = "sync"
        BY <1>3, <4>1 DEF WorkRight, Exclusive, L
      <4>2. CASE t.pc \in {"count", "create"}
        <5>1. Known(conc, L) /\ Exclusive(conc, L)
          BY <1>3, <4>2 DEF WorkRight, Known, Granting, L
        <5> QED BY <1>4, <1>5, <5>1, LaterRules
      <4> QED BY <3>1, <4>1, <4>2
    <3> QED BY <3>1, <3>2, <3>3, Zenon
  <2>2. CASE ~t.holds
    <3>1. plan' = plan
      BY <1>1, <2>2
    <3>2. plan.lines \in SUBSET Concession
      BY <1>7, <3>1 DEF BillingTyped, Plan
    <3>3. Known(conc, plan.lines) /\ Exclusive(conc, plan.lines)
      BY <1>7, <3>1 DEF RulesRight
    <3>4. Known(conc', plan.lines) /\ Exclusive(conc', plan.lines)
      BY <1>5, <3>2, <3>3, LaterRules
    <3> QED BY <3>1, <3>4, Zenon
  <2> QED BY <2>1, <2>2
<1> QED BY <1>1, <1>5, <1>6, <1>7, RulesMove

LEMMA RulesGoOn ==
    ASSUME BillingTyped, RulesRight, NEW r \in Request, running[r] # NotRunning,
           \A q \in Request : q # r => running'[q] = running[q],
           Unwritten,
           \/ running'[r] = NotRunning
           \/ /\ running'[r].kind = running[r].kind /\ running'[r].about = running[r].about
              /\ WorkRight(conc, running'[r])
    PROVE  RulesRight'
<1>1. conc' = conc /\ plan' = plan
  BY DEF Unwritten
<1>2. Later(conc, conc')
  BY <1>1 DEF Later
<1>3. \A q \in Request : q # r /\ running[q] # NotRunning /\ Granting(running[q])
                             => conc'[running[q].about] = "none"
  BY <1>1 DEF RulesRight, WorkRight
<1>4. plan' # NoPlan => Known(conc', plan'.lines) /\ Exclusive(conc', plan'.lines)
  BY <1>1 DEF RulesRight
<1>5. running'[r] # NotRunning => WorkRight(conc', running'[r])
  BY <1>1
<1>6. \A q \in Request :
         q # r /\ running[q] # NotRunning /\ running'[r] # NotRunning
            => /\ Granting(running[q]) /\ running'[r].kind \in {"apply", "revoke", "edit"}
                      => running[q].about # running'[r].about
               /\ Granting(running'[r]) /\ running[q].kind \in {"apply", "revoke", "edit"}
                      => running[q].about # running'[r].about
  BY DEF RulesRight, Granting
<1> QED BY <1>2, <1>3, <1>4, <1>5, <1>6, RulesMove

LEMMA RulesContinuing ==
    ASSUME BillingTyped, RulesRight, NEW r \in Request, Continuing(r)
    PROVE  RulesRight'
<1> DEFINE t == running[r]
           u == running'[r]
<1>1. /\ t \in Working /\ \A q \in Request : q # r => running'[q] = running[q]
      /\ Continues(r)
  BY ContinuesTyped
<1>2. t # NotRunning
  BY <1>1 DEF Working, Work, NotRunning
<1>3. WorkRight(conc, t)
  BY <1>2 DEF RulesRight
<1>4. ASSUME NEW pc, NEW lines, GoesOn(r, pc, lines), WorkRight(conc, u) PROVE RulesRight'
  <2>1. Unwritten /\ u.kind = t.kind /\ u.about = t.about
    BY <1>4 DEF GoesOn
  <2> HIDE DEF t, u
  <2> QED BY <1>1, <1>2, <1>4, <2>1, RulesGoOn DEF t, u
<1>5. CASE u = NotRunning /\ Unwritten
  BY <1>1, <1>2, <1>5, RulesGoOn
<1>6. CASE Commit(r) /\ (t.pc \in {"sync", "count", "create"} \/ ~t.holds)
  BY <1>1, <1>2, <1>6, RulesCommit
<1> HIDE DEF t
<1>7. CASE t.pc = "insert" /\ t.kind = "assign" /\ GoesOn(r, "rebuild", t.lines)
  <2>1. u.pc = "rebuild" /\ u.lines = t.lines /\ u.kind = t.kind /\ u.about = t.about
    BY <1>7 DEF GoesOn, t
  <2> HIDE DEF u
  <2>2. WorkRight(conc, u)
    BY <1>3, <2>1 DEF WorkRight, Granting
  <2> QED BY <1>4, <1>7, <2>2 DEF u
<1>8. CASE t.pc = "insert" /\ t.kind # "assign" /\ GoesOn(r, "look", t.lines)
  <2>1. u.pc = "look" /\ u.lines = t.lines /\ u.kind = t.kind /\ u.about = t.about
    BY <1>8 DEF GoesOn, t
  <2> HIDE DEF u
  <2>2. WorkRight(conc, u)
    BY <1>3, <1>8, <2>1 DEF WorkRight, Granting
  <2> QED BY <1>4, <1>8, <2>2 DEF u
<1>9. CASE t.pc = "look" /\ Active(r) = {} /\ GoesOn(r, "count", t.lines)
  <2>1. u.pc = "count" /\ u.lines = t.lines /\ u.kind = t.kind /\ u.about = t.about
    BY <1>9 DEF GoesOn, t
  <2>2. t.kind = "generate"
    BY <1>3, <1>9 DEF WorkRight
  <2>3. {c \in Concession : conc[c] = "active"} = {}
    BY <1>1, <1>9, <2>2, ActiveIs DEF t
  <2>4. t.lines \in SUBSET Concession
    BY <1>1 DEF Working, Work
  <2>5. Exclusive(conc, t.lines)
    BY <2>3, <2>4 DEF Exclusive
  <2> HIDE DEF u
  <2>6. WorkRight(conc, u)
    BY <1>3, <2>1, <2>2, <2>5 DEF WorkRight, Granting
  <2> QED BY <1>4, <1>9, <2>6 DEF u
<1>10. CASE t.pc = "look" /\ GoesOn(r, "rebuild", t.lines)
  <2>1. u.pc = "rebuild" /\ u.lines = t.lines /\ u.kind = t.kind /\ u.about = t.about
    BY <1>10 DEF GoesOn, t
  <2> HIDE DEF u
  <2>2. WorkRight(conc, u)
    BY <1>3, <2>1 DEF WorkRight, Granting
  <2> QED BY <1>4, <1>10, <2>2 DEF u
<1>11. CASE t.pc = "rebuild" /\ \E lines \in OnePerRule(Active(r)) : GoesOn(r, "write", lines)
  <2>1. PICK lines \in OnePerRule(Active(r)) : GoesOn(r, "write", lines)
    BY <1>11
  <2>2. u.pc = "write" /\ u.lines = lines /\ u.kind = t.kind /\ u.about = t.about
    BY <2>1 DEF GoesOn, t
  <2>3. /\ Active(r) \in SUBSET Concession
        /\ \A c \in Active(r) : conc[c] = "active" \/ (t.kind = "apply" /\ c = t.about)
    BY <1>1, ActiveIs DEF t
  <2>4. lines \subseteq Active(r) /\ \A c, d \in lines : RuleOf[c] = RuleOf[d] => c = d
    BY <2>3, OnePerRuleIs
  <2> HIDE DEF u
  <2>5. WorkRight(conc, u)
    BY <1>3, <2>2, <2>3, <2>4 DEF WorkRight, Granting
  <2> QED BY <1>4, <2>1, <2>5 DEF u
<1>12. CASE t.pc = "write" /\ GoesOn(r, "sync", t.lines)
  <2>1. u.pc = "sync" /\ u.lines = t.lines /\ u.kind = t.kind /\ u.about = t.about
    BY <1>12 DEF GoesOn, t
  <2> HIDE DEF u
  <2>2. WorkRight(conc, u)
    BY <1>3, <1>12, <2>1 DEF WorkRight, Granting
  <2> QED BY <1>4, <1>12, <2>2 DEF u
<1>13. CASE t.pc = "sync" /\ t.kind = "generate" /\ GoesOn(r, "count", t.lines)
  <2>1. u.pc = "count" /\ u.lines = t.lines /\ u.kind = t.kind /\ u.about = t.about
    BY <1>13 DEF GoesOn, t
  <2> HIDE DEF u
  <2>2. WorkRight(conc, u)
    BY <1>3, <1>13, <2>1 DEF WorkRight, Granting, Exclusive
  <2> QED BY <1>4, <1>13, <2>2 DEF u
<1>14. CASE t.pc = "count" /\ GoesOn(r, "create", t.lines)
  <2>1. u.pc = "create" /\ u.lines = t.lines /\ u.kind = t.kind /\ u.about = t.about
    BY <1>14 DEF GoesOn, t
  <2> HIDE DEF u
  <2>2. WorkRight(conc, u)
    BY <1>3, <1>14, <2>1 DEF WorkRight, Granting
  <2> QED BY <1>4, <1>14, <2>2 DEF u
<1> HIDE DEF u
<1>15. \/ u = NotRunning /\ Unwritten
       \/ Commit(r) /\ (t.pc \in {"sync", "count", "create"} \/ ~t.holds)
       \/ t.pc = "insert" /\ t.kind = "assign" /\ GoesOn(r, "rebuild", t.lines)
       \/ t.pc = "insert" /\ t.kind # "assign" /\ GoesOn(r, "look", t.lines)
       \/ t.pc = "look" /\ Active(r) = {} /\ GoesOn(r, "count", t.lines)
       \/ t.pc = "look" /\ GoesOn(r, "rebuild", t.lines)
       \/ t.pc = "rebuild" /\ \E lines \in OnePerRule(Active(r)) : GoesOn(r, "write", lines)
       \/ t.pc = "write" /\ GoesOn(r, "sync", t.lines)
       \/ t.pc = "sync" /\ t.kind = "generate" /\ GoesOn(r, "count", t.lines)
       \/ t.pc = "count" /\ GoesOn(r, "create", t.lines)
  BY <1>1 DEF Continues, t, u
<1> QED BY <1>5, <1>6, <1>7, <1>8, <1>9, <1>10, <1>11, <1>12, <1>13, <1>14, <1>15

LEMMA RulesStep == BillingTyped /\ RulesRight /\ [BillingNext]_billingVars => RulesRight'
<1> SUFFICES ASSUME BillingTyped, RulesRight, [BillingNext]_billingVars PROVE RulesRight'
  OBVIOUS
<1>1. CASE UNCHANGED billingVars
  BY <1>1 DEF billingVars, RulesRight
<1>2. CASE MovesMoney
  BY <1>2, MoneyOnly DEF RulesRight
<1> QED BY <1>1, <1>2, BillingSteps, RulesStarting, RulesContinuing

(* A rule that a student has is taken off once: a request that writes the  *)
(* discount of the assignment has kept one concession of each rule, or has *)
(* found none that counts.                                                 *)
THEOREM RulesCountOnce == BillingSpec => []RuleOffOnce
<1>1. BillingInit => BillingTyped /\ RulesRight
  BY BillingTypedInit, RulesInit
<1>2. BillingTyped /\ RulesRight /\ [BillingNext]_billingVars => (BillingTyped /\ RulesRight)'
  BY BillingTypedStep, RulesStep
<1>3. RulesRight => RuleOffOnce
  BY DEF RulesRight, Exclusive, RuleOffOnce
<1> QED BY <1>1, <1>2, <1>3, PTL DEF BillingSpec

-----------------------------------------------------------------------------
(* FeeBilling: an invoice is right.  Its installments are in order, its    *)
(* status says what is paid unless it was saved across another request     *)
(* and, unless it has strayed, the installments add up to it.              *)
Bill == [head : InvoiceMoney, rows : Seq(RowMoney), strayed : BOOLEAN, crossed : BOOLEAN]

HeadFine(h) == h \in InvoiceMoney /\ StatusFits(h.status, h.total, h.paid)

AddsUp(rows, h) == Sum(Billed(rows)) = h.total /\ Sum(Paid(rows)) = h.paid

BillFine(bill) ==
    /\ ~bill.crossed => HeadFine(bill.head)
    /\ RowsFine(bill.rows)
    /\ ~bill.strayed => AddsUp(bill.rows, bill.head)

BillsFine == bills \in Seq(Bill) /\ \A i \in 1..Len(bills) : BillFine(bills[i])

LEMMA BillIs ==
    ASSUME BillsFine, NEW i \in 1..Len(bills)
    PROVE  /\ bills[i] \in Bill /\ BillFine(bills[i])
           /\ bills[i].head \in InvoiceMoney
           /\ bills[i].strayed \in BOOLEAN /\ bills[i].crossed \in BOOLEAN
<1>1. bills[i] \in Bill /\ BillFine(bills[i])
  BY DEF BillsFine
<1> QED BY <1>1 DEF Bill

LEMMA HeadIs ==
    ASSUME NEW h \in InvoiceMoney, NEW n \in Nat
    PROVE  /\ h.total \in Nat /\ h.paid \in Nat /\ Balance(h) \in Nat
           /\ WithPaid(h, n) \in InvoiceMoney
           /\ WithPaid(h, n).total = h.total /\ WithPaid(h, n).paid = n
           /\ WithPaid(h, n).status = StatusOf(h.total, n)
           /\ WithTotal(h, n) \in InvoiceMoney
           /\ WithTotal(h, n).total = n /\ WithTotal(h, n).paid = h.paid
           /\ WithTotal(h, n).status = StatusOf(n, h.paid)
           /\ WriteOff(h) \in InvoiceMoney
           /\ WriteOff(h).total = h.total /\ WriteOff(h).paid = h.total
           /\ WriteOff(h).status = "written_off"
<1>1. h.total \in Nat /\ h.paid \in Nat
  BY DEF InvoiceMoney
<1>2. Balance(h) \in Nat
  BY <1>1 DEF Balance, Monus
<1>3. StatusOf(h.total, n) \in InvoiceStatus /\ StatusOf(n, h.paid) \in InvoiceStatus
  BY <1>1, StatusOfType
<1>4. WithPaid(h, n) \in InvoiceMoney
  BY <1>3 DEF WithPaid, InvoiceMoney
<1>5. /\ WithPaid(h, n).total = h.total /\ WithPaid(h, n).paid = n
      /\ WithPaid(h, n).status = StatusOf(h.total, n)
  BY DEF WithPaid, InvoiceMoney
<1>6. WithTotal(h, n) \in InvoiceMoney
  BY <1>3 DEF WithTotal, InvoiceMoney
<1>7. /\ WithTotal(h, n).total = n /\ WithTotal(h, n).paid = h.paid
      /\ WithTotal(h, n).status = StatusOf(n, h.paid)
  BY DEF WithTotal, InvoiceMoney
<1>8. WriteOff(h) \in InvoiceMoney
  BY <1>1 DEF WriteOff, InvoiceMoney, InvoiceStatus
<1>9. /\ WriteOff(h).total = h.total /\ WriteOff(h).paid = h.total
      /\ WriteOff(h).status = "written_off"
  BY DEF WriteOff, InvoiceMoney
<1> QED BY <1>1, <1>2, <1>4, <1>5, <1>6, <1>7, <1>8, <1>9

(* The four operations of the ledger on a bill that is fine.               *)
LEMMA PayFine ==
    ASSUME NEW h \in InvoiceMoney, NEW rows, RowsFine(rows), NEW strayed \in BOOLEAN,
           ~strayed => AddsUp(rows, h), NEW amount \in 1..Balance(h)
    PROVE  /\ HeadFine(Credit(h, amount)) /\ RowsFine(SpreadCredit(rows, amount))
           /\ ~strayed => AddsUp(SpreadCredit(rows, amount), Credit(h, amount))
           /\ Credit(h, amount).total = h.total
<1>1. h \in InvoiceMoney
  OBVIOUS
<1>2. h.total \in Nat /\ h.paid \in Nat /\ Balance(h) \in Nat
  BY <1>1, HeadIs
<1>3. amount \in Nat /\ h.paid + amount \in Nat /\ amount <= h.total - h.paid
  BY <1>2 DEF Balance, Monus
<1>4. /\ Credit(h, amount) \in InvoiceMoney /\ Credit(h, amount).total = h.total
      /\ Credit(h, amount).paid = h.paid + amount
      /\ Credit(h, amount).status = StatusOf(h.total, h.paid + amount)
  BY <1>1, <1>3, HeadIs DEF Credit
<1>5. HeadFine(Credit(h, amount))
  BY <1>4 DEF HeadFine, StatusFits
<1>6. ASSUME ~strayed PROVE AddsUp(SpreadCredit(rows, amount), Credit(h, amount))
  <2>1. Sum(Billed(rows)) = h.total /\ Sum(Paid(rows)) = h.paid
    BY <1>6 DEF AddsUp
  <2>2. amount <= Sum(Billed(rows)) - Sum(Paid(rows))
    BY <1>3, <2>1
  <2>3. /\ Sum(Billed(SpreadCredit(rows, amount))) = Sum(Billed(rows))
        /\ Sum(Paid(SpreadCredit(rows, amount))) = Sum(Paid(rows)) + amount
    BY <1>3, <2>2, CreditFine
  <2> QED BY <1>4, <2>1, <2>3 DEF AddsUp
<1> QED BY <1>3, <1>4, <1>5, <1>6, CreditFine

LEMMA RefundFine ==
    ASSUME NEW h \in InvoiceMoney, NEW rows, RowsFine(rows), NEW strayed \in BOOLEAN,
           ~strayed => AddsUp(rows, h), NEW amount \in Nat, amount <= h.paid
    PROVE  /\ HeadFine(Debit(h, amount)) /\ RowsFine(SpreadDebit(rows, amount))
           /\ ~strayed => AddsUp(SpreadDebit(rows, amount), Debit(h, amount))
           /\ Debit(h, amount).total = h.total
<1>1. h \in InvoiceMoney
  OBVIOUS
<1>2. h.total \in Nat /\ h.paid \in Nat
  BY <1>1, HeadIs
<1>3. Monus(h.paid, amount) \in Nat /\ h.paid = Monus(h.paid, amount) + amount
  BY <1>2 DEF Monus
<1>4. /\ Debit(h, amount) \in InvoiceMoney /\ Debit(h, amount).total = h.total
      /\ Debit(h, amount).paid = Monus(h.paid, amount)
      /\ Debit(h, amount).status = StatusOf(h.total, Monus(h.paid, amount))
  BY <1>1, <1>3, HeadIs DEF Debit
<1>5. HeadFine(Debit(h, amount))
  BY <1>4 DEF HeadFine, StatusFits
<1>6. ASSUME ~strayed PROVE AddsUp(SpreadDebit(rows, amount), Debit(h, amount))
  <2>1. Sum(Billed(rows)) = h.total /\ Sum(Paid(rows)) = h.paid
    BY <1>6 DEF AddsUp
  <2>2. amount <= Sum(Paid(rows))
    BY <2>1
  <2>3. /\ Sum(Billed(SpreadDebit(rows, amount))) = Sum(Billed(rows))
        /\ Sum(Paid(rows)) = Sum(Paid(SpreadDebit(rows, amount))) + amount
        /\ RowsFine(SpreadDebit(rows, amount))
    BY <2>2, DebitFine
  <2>4. Sum(Paid(SpreadDebit(rows, amount))) \in Nat
    BY <2>3, ColumnsOf
  <2> QED BY <1>2, <1>3, <1>4, <2>1, <2>3, <2>4 DEF AddsUp
<1> QED BY <1>4, <1>5, <1>6, DebitFine

(* A total is cut by a credit note, or by a concession.                    *)
LEMMA LowerFine ==
    ASSUME NEW h \in InvoiceMoney, NEW rows, RowsFine(rows), NEW strayed \in BOOLEAN,
           ~strayed => AddsUp(rows, h), NEW total \in Nat, total <= h.total
    PROVE  /\ HeadFine(WithTotal(h, total)) /\ RowsFine(CutRows(rows, h.total - total))
           /\ ~strayed /\ total >= h.paid
                 => AddsUp(CutRows(rows, h.total - total), WithTotal(h, total))
<1>1. h \in InvoiceMoney
  OBVIOUS
<1>2. h.total \in Nat /\ h.paid \in Nat /\ h.total - total \in Nat
  BY <1>1, HeadIs
<1>3. /\ WithTotal(h, total) \in InvoiceMoney /\ WithTotal(h, total).total = total
      /\ WithTotal(h, total).paid = h.paid
      /\ WithTotal(h, total).status = StatusOf(total, h.paid)
  BY <1>1, HeadIs
<1>4. HeadFine(WithTotal(h, total))
  BY <1>3 DEF HeadFine, StatusFits
<1> DEFINE cut == h.total - total
           new == CutRows(rows, cut)
<1>5. cut \in Nat /\ h.total = total + cut
  BY <1>2
<1> HIDE DEF cut
<1>6. RowsFine(new)
  BY <1>5, CutFine
<1>7. ASSUME ~strayed, total >= h.paid PROVE AddsUp(new, WithTotal(h, total))
  <2>1. Sum(Billed(rows)) = h.total /\ Sum(Paid(rows)) = h.paid
    BY <1>7 DEF AddsUp
  <2>2. cut <= Sum(Billed(rows)) - Sum(Paid(rows))
    BY <1>2, <1>5, <1>7, <2>1
  <2>3. /\ Sum(Billed(rows)) = Sum(Billed(new)) + cut
        /\ Sum(Paid(new)) = Sum(Paid(rows))
    BY <1>5, <2>2, CutFine
  <2>4. Sum(Billed(new)) \in Nat
    BY <1>6, ColumnsOf
  <2>5. Sum(Billed(new)) = total
    BY <1>5, <2>1, <2>3, <2>4
  <2>6. Sum(Paid(new)) = h.paid
    BY <2>1, <2>3, Zenon
  <2> HIDE DEF new
  <2> QED BY <1>3, <2>5, <2>6, Zenon DEF AddsUp
<1> QED BY <1>4, <1>6, <1>7 DEF new, cut

LEMMA AbandonFine ==
    ASSUME NEW h \in InvoiceMoney, NEW rows, RowsFine(rows), NEW strayed \in BOOLEAN,
           ~strayed => AddsUp(rows, h)
    PROVE  /\ HeadFine(WriteOff(h)) /\ RowsFine(WriteOffRows(rows))
           /\ ~strayed => AddsUp(WriteOffRows(rows), WriteOff(h))
           /\ WriteOff(h).total = h.total
<1>1. h \in InvoiceMoney /\ 0 \in Nat
  OBVIOUS
<1>2. /\ WriteOff(h) \in InvoiceMoney /\ WriteOff(h).total = h.total
      /\ WriteOff(h).paid = h.total /\ WriteOff(h).status = "written_off"
  BY <1>1, HeadIs
<1>3. HeadFine(WriteOff(h))
  BY <1>2 DEF HeadFine, StatusFits
<1>4. ~strayed => AddsUp(WriteOffRows(rows), WriteOff(h))
  BY <1>2, WriteOffFine DEF AddsUp
<1> QED BY <1>2, <1>3, <1>4, WriteOffFine

LEMMA CreditNoteFine ==
    ASSUME NEW h \in InvoiceMoney, NEW rows, RowsFine(rows), NEW strayed \in BOOLEAN,
           ~strayed => AddsUp(rows, h), NEW amount \in 1..Balance(h)
    PROVE  /\ HeadFine(CutTotal(h, amount)) /\ RowsFine(CutRows(rows, amount))
           /\ ~strayed => AddsUp(CutRows(rows, amount), CutTotal(h, amount))
           /\ CutTotal(h, amount).paid = h.paid
<1>1. h.total \in Nat /\ h.paid \in Nat
  BY DEF InvoiceMoney
<1> DEFINE total == Monus(h.total, amount)
<1>2. total \in Nat /\ total <= h.total /\ total >= h.paid /\ h.total - total = amount
  BY <1>1 DEF Balance, Monus
<1>3. CutTotal(h, amount) = WithTotal(h, total)
  BY DEF CutTotal
<1> HIDE DEF total
<1>4. WithTotal(h, total).paid = h.paid
  BY <1>2, HeadIs
<1>5. /\ HeadFine(WithTotal(h, total)) /\ RowsFine(CutRows(rows, h.total - total))
      /\ ~strayed /\ total >= h.paid
            => AddsUp(CutRows(rows, h.total - total), WithTotal(h, total))
  BY <1>2, LowerFine
<1> QED BY <1>2, <1>3, <1>4, <1>5

-----------------------------------------------------------------------------
(* What a request that moves money has read: it is kept until it ends.     *)
Readings == [kind : {"capture", "refund", "credit_note", "write_off"}, bill : Nat,
             seen : InvoiceMoney, amount : Nat]

Fits(t) ==
    /\ t.kind \in {"capture", "credit_note"} => t.amount \in 1..Balance(t.seen)
    /\ t.kind = "refund" => t.amount <= t.seen.paid

Seen == {t \in Readings : Fits(t)}

MovingFine ==
    /\ moving \in [Mover -> {NotMoving} \cup Seen]
    /\ \A m \in Mover : moving[m] # NotMoving => moving[m].bill \in 1..Len(bills)

Moving(m) == moving[m].kind \in {"capture", "refund", "credit_note", "write_off"}

LEMMA MovingIs ==
    ASSUME MovingFine, NEW m \in Mover, Moving(m)
    PROVE  /\ moving[m] \in Seen
           /\ moving[m].bill \in 1..Len(bills)
           /\ moving[m].seen \in InvoiceMoney
           /\ moving[m].amount \in Nat
           /\ Fits(moving[m])
<1>1. moving[m] # NotMoving
  BY DEF Moving, NotMoving
<1>2. moving[m] \in Seen
  BY <1>1 DEF MovingFine
<1> QED BY <1>1, <1>2 DEF MovingFine, Seen, Readings

LEMMA MovingEnds ==
    ASSUME MovingFine, NEW m \in Mover, EndMove(m), Len(bills') = Len(bills)
    PROVE  MovingFine' /\ moving'[m] = NotMoving
BY DEF MovingFine, EndMove

LEMMA MovingStays ==
    ASSUME MovingFine, UNCHANGED moving, Len(bills) \in Nat, Len(bills') \in Nat,
           Len(bills) <= Len(bills')
    PROVE  MovingFine'
BY DEF MovingFine

(* The bill after what is saved on it, and the others.                     *)
LEMMA SavedIs ==
    ASSUME NEW i \in 1..Len(bills), bills \in Seq(Bill), NEW h \in InvoiceMoney,
           NEW rows \in Seq(RowMoney), NEW lost \in BOOLEAN, NEW crossed \in BOOLEAN,
           Saved(i, h, rows, lost, crossed)
    PROVE  /\ bills' \in Seq(Bill) /\ Len(bills') = Len(bills)
           /\ bills'[i].head = h /\ bills'[i].rows = rows
           /\ bills'[i].strayed = (bills[i].strayed \/ lost)
           /\ bills'[i].crossed = crossed
           /\ \A j \in 1..Len(bills) : j # i => bills'[j] = bills[j]
<1> DEFINE bill == bills[i]
           strayed == bill.strayed \/ lost
           new == [head |-> h, rows |-> rows, strayed |-> strayed, crossed |-> crossed]
<1>1. bill.strayed \in BOOLEAN
  <2>1. bill \in Bill
    OBVIOUS
  <2> QED BY <2>1 DEF Bill
<1>2. strayed \in BOOLEAN
  BY <1>1
<1>3. bills' = [bills EXCEPT ![i] = new]
  BY DEF Saved
<1>4. new.head = h /\ new.rows = rows /\ new.strayed = strayed /\ new.crossed = crossed
  OBVIOUS
<1> HIDE DEF strayed
<1>5. new \in Bill
  BY <1>2 DEF Bill
<1> HIDE DEF new
<1>6. bills' \in Seq(Bill) /\ Len(bills') = Len(bills) /\ bills'[i] = new
      /\ \A j \in 1..Len(bills) : j # i => bills'[j] = bills[j]
  BY <1>3, <1>5
<1> QED BY <1>4, <1>6 DEF strayed

LEMMA SavedFine ==
    ASSUME BillsFine, NEW i \in 1..Len(bills), NEW h \in InvoiceMoney, NEW rows, RowsFine(rows),
           NEW lost \in BOOLEAN, NEW crossed \in BOOLEAN,
           ~crossed => HeadFine(h),
           ~(bills[i].strayed \/ lost) => AddsUp(rows, h),
           Saved(i, h, rows, lost, crossed)
    PROVE  /\ BillsFine' /\ Len(bills') = Len(bills)
           /\ bills'[i].head = h
           /\ \A j \in 1..Len(bills) : j # i => bills'[j] = bills[j]
<1>1. bills \in Seq(Bill) /\ \A j \in 1..Len(bills) : BillFine(bills[j])
  BY DEF BillsFine
<1>2. rows \in Seq(RowMoney)
  BY DEF RowsFine
<1>3. /\ bills' \in Seq(Bill) /\ Len(bills') = Len(bills)
      /\ bills'[i].head = h /\ bills'[i].rows = rows
      /\ bills'[i].strayed = (bills[i].strayed \/ lost)
      /\ bills'[i].crossed = crossed
      /\ \A j \in 1..Len(bills) : j # i => bills'[j] = bills[j]
  BY <1>1, <1>2, SavedIs
<1>4. BillFine(bills'[i])
  BY <1>3 DEF BillFine
<1>5. \A j \in 1..Len(bills) : BillFine(bills'[j])
  <2> SUFFICES ASSUME NEW j \in 1..Len(bills) PROVE BillFine(bills'[j])
    OBVIOUS
  <2>1. CASE j = i
    BY <1>4, <2>1
  <2>2. CASE j # i
    <3>1. bills'[j] = bills[j]
      BY <1>3, <2>2
    <3> QED BY <1>1, <3>1
  <2> QED BY <2>1, <2>2
<1>6. BillsFine'
  BY <1>3, <1>5 DEF BillsFine
<1> QED BY <1>3, <1>6

LEMMA SaveIs ==
    ASSUME NEW stored \in InvoiceMoney, NEW h \in InvoiceMoney
    PROVE  /\ SavePaid(stored, h) \in InvoiceMoney
           /\ SavePaid(stored, h).total = stored.total
           /\ SavePaid(stored, h).paid = h.paid
           /\ SavePaid(stored, h).status = h.status
           /\ SaveTotal(stored, h) \in InvoiceMoney
           /\ SaveTotal(stored, h).total = h.total
           /\ SaveTotal(stored, h).paid = stored.paid
           /\ SaveTotal(stored, h).status = h.status
<1>1. SavePaid(stored, h) \in InvoiceMoney /\ SaveTotal(stored, h) \in InvoiceMoney
  BY DEF SavePaid, SaveTotal, InvoiceMoney
<1>2. /\ SavePaid(stored, h).total = stored.total /\ SavePaid(stored, h).paid = h.paid
      /\ SavePaid(stored, h).status = h.status
  BY DEF SavePaid, InvoiceMoney
<1>3. /\ SaveTotal(stored, h).total = h.total /\ SaveTotal(stored, h).paid = stored.paid
      /\ SaveTotal(stored, h).status = h.status
  BY DEF SaveTotal, InvoiceMoney
<1> QED BY <1>1, <1>2, <1>3

(* What is computed from a reading that nobody has overtaken is what would *)
(* be computed from the invoice.                                           *)
Overtaken(m) == TotalChanged(moving[m]) \/ PaidChanged(moving[m])

LEMMA NotOvertaken ==
    ASSUME NEW m, ~Overtaken(m), NEW rows, AddsUp(rows, bills[moving[m].bill].head)
    PROVE  AddsUp(rows, moving[m].seen)
BY DEF Overtaken, TotalChanged, PaidChanged, AddsUp

(* A request moves money on a bill: what it saves is right.                *)
LEMMA PaidSaved ==
    ASSUME BillsFine, MovingFine, NEW m \in Mover, Moving(m),
           NEW newHead, NEW newRows, HeadFine(newHead), RowsFine(newRows),
           newHead.total = moving[m].seen.total,
           ~(bills[moving[m].bill].strayed \/ Overtaken(m)) => AddsUp(newRows, newHead),
           SavedPaid(m, newHead, newRows)
    PROVE  /\ BillsFine' /\ MovingFine' /\ Len(bills') = Len(bills)
           /\ \A i \in 1..Len(bills) : bills'[i].head.total = bills[i].head.total
<1> DEFINE t == moving[m]
           i == t.bill
           stored == bills[i].head
           h == SavePaid(stored, newHead)
           crossed == TotalChanged(t)
           lost == TotalChanged(t) \/ PaidChanged(t)
<1>1. i \in 1..Len(bills)
  BY MovingIs
<1>2. stored \in InvoiceMoney /\ newHead \in InvoiceMoney
  BY <1>1, BillIs DEF HeadFine
<1>3. crossed \in BOOLEAN /\ lost \in BOOLEAN
  BY DEF TotalChanged, PaidChanged
<1>4. crossed = (moving[m].seen.total # stored.total)
  BY DEF TotalChanged
<1>5. Saved(i, h, newRows, lost, crossed) /\ EndMove(m)
  BY DEF SavedPaid
<1>6. lost = Overtaken(m)
  BY DEF Overtaken
<1>7. ~lost => ~crossed
  OBVIOUS
<1> HIDE DEF crossed, lost, h
<1>8. /\ h \in InvoiceMoney /\ h.total = stored.total /\ h.paid = newHead.paid
      /\ h.status = newHead.status
  BY <1>2, SaveIs DEF h
<1>9. ~crossed => HeadFine(h)
  <2> SUFFICES ASSUME ~crossed PROVE HeadFine(h)
    OBVIOUS
  <2>1. newHead.total = stored.total
    BY <1>4
  <2> QED BY <1>8, <2>1 DEF HeadFine
<1>10. ~(bills[i].strayed \/ lost) => AddsUp(newRows, h)
  <2> SUFFICES ASSUME ~(bills[i].strayed \/ lost) PROVE AddsUp(newRows, h)
    OBVIOUS
  <2>1. AddsUp(newRows, newHead)
    BY <1>6
  <2>2. newHead.total = stored.total
    BY <1>4, <1>7
  <2> QED BY <1>8, <2>1, <2>2 DEF AddsUp
<1> HIDE DEF i, stored, t
<1>11. /\ BillsFine' /\ Len(bills') = Len(bills)
       /\ bills'[i].head = h
       /\ \A j \in 1..Len(bills) : j # i => bills'[j] = bills[j]
  BY <1>1, <1>3, <1>5, <1>8, <1>9, <1>10, SavedFine
<1>12. MovingFine'
  BY <1>5, <1>11, MovingEnds
<1>13. \A j \in 1..Len(bills) : bills'[j].head.total = bills[j].head.total
  BY <1>8, <1>11 DEF stored
<1> QED BY <1>11, <1>12, <1>13

LEMMA TotalSaved ==
    ASSUME BillsFine, MovingFine, NEW m \in Mover, Moving(m),
           NEW newHead, NEW newRows, HeadFine(newHead), RowsFine(newRows),
           newHead.paid = moving[m].seen.paid,
           ~(bills[moving[m].bill].strayed \/ Overtaken(m)) => AddsUp(newRows, newHead),
           SavedTotal(m, newHead, newRows)
    PROVE  /\ BillsFine' /\ MovingFine' /\ Len(bills') = Len(bills) /\ moving'[m] = NotMoving
           /\ \A i \in 1..Len(bills) : i # moving[m].bill => bills'[i] = bills[i]
<1> DEFINE t == moving[m]
           i == t.bill
           stored == bills[i].head
           h == SaveTotal(stored, newHead)
           crossed == PaidChanged(t)
           lost == TotalChanged(t) \/ PaidChanged(t)
<1>1. i \in 1..Len(bills)
  BY MovingIs
<1>2. stored \in InvoiceMoney /\ newHead \in InvoiceMoney
  BY <1>1, BillIs DEF HeadFine
<1>3. crossed \in BOOLEAN /\ lost \in BOOLEAN
  BY DEF TotalChanged, PaidChanged
<1>4. crossed = (moving[m].seen.paid # stored.paid)
  BY DEF PaidChanged
<1>5. Saved(i, h, newRows, lost, crossed) /\ EndMove(m)
  BY DEF SavedTotal
<1>6. lost = Overtaken(m)
  BY DEF Overtaken
<1>7. ~lost => ~crossed
  OBVIOUS
<1> HIDE DEF crossed, lost, h
<1>8. /\ h \in InvoiceMoney /\ h.total = newHead.total /\ h.paid = stored.paid
      /\ h.status = newHead.status
  BY <1>2, SaveIs DEF h
<1>9. ~crossed => HeadFine(h)
  <2> SUFFICES ASSUME ~crossed PROVE HeadFine(h)
    OBVIOUS
  <2>1. newHead.paid = stored.paid
    BY <1>4
  <2> QED BY <1>8, <2>1 DEF HeadFine
<1>10. ~(bills[i].strayed \/ lost) => AddsUp(newRows, h)
  <2> SUFFICES ASSUME ~(bills[i].strayed \/ lost) PROVE AddsUp(newRows, h)
    OBVIOUS
  <2>1. AddsUp(newRows, newHead)
    BY <1>6
  <2>2. newHead.paid = stored.paid
    BY <1>4, <1>7
  <2> QED BY <1>8, <2>1, <2>2 DEF AddsUp
<1> HIDE DEF stored
<1>11. /\ BillsFine' /\ Len(bills') = Len(bills)
       /\ \A j \in 1..Len(bills) : j # i => bills'[j] = bills[j]
  BY <1>1, <1>3, <1>5, <1>8, <1>9, <1>10, SavedFine
<1>12. MovingFine' /\ moving'[m] = NotMoving
  BY <1>5, <1>11, MovingEnds
<1> QED BY <1>11, <1>12

-----------------------------------------------------------------------------
(* The bills that are issued, and those that follow a changed discount.    *)
LEMMA OffType ==
    ASSUME NEW lines \in SUBSET Concession
    PROVE  Off(lines) \in Nat /\ TotalFor(lines) \in Nat
<1> DEFINE off == [c \in lines |-> Discount[RuleOf[c]]]
<1>1. IsFiniteSet(lines)
  BY ConcessionAssumption, FS_Subset
<1>2. DOMAIN off = lines
  OBVIOUS
<1>3. \A c \in lines : off[c] \in Nat
  BY ConcessionAssumption
<1> HIDE DEF off
<1>4. lines \in SUBSET DOMAIN off
  BY <1>2
<1>5. Part(off, lines) \in Nat
  BY <1>1, <1>3, <1>4, PartType
<1>6. Sum(off) = Part(off, lines)
  <2>1. IsFiniteSet(DOMAIN off)
    BY <1>1, <1>2
  <2>2. Sum(off) = Part(off, DOMAIN off)
    BY <2>1, SumIsPart
  <2> QED BY <1>2, <2>2
<1>7. Off(lines) \in Nat
  BY <1>5, <1>6 DEF Off, off
<1>8. TotalFor(lines) \in Nat
  BY <1>7, PriceIs, MonusType DEF TotalFor
<1> QED BY <1>7, <1>8

(* The installments of a new bill add up to it, unless it says otherwise.  *)
LEMMA NewBillFine ==
    ASSUME NEW lines \in SUBSET Concession
    PROVE  NewBill(lines) \in Bill /\ BillFine(NewBill(lines))
<1> DEFINE off == Off(lines)
           total == TotalFor(lines)
           h == NewHead(total)
           rows == NewRows(Installments(off))
           strayed == ~SplitsExactly(off)
           bill == NewBill(lines)
<1>1. off \in Nat /\ total \in Nat /\ total = Monus(Price, off)
  BY OffType DEF TotalFor
<1>2. bill = [head |-> h, rows |-> rows, strayed |-> strayed, crossed |-> FALSE]
  BY DEF NewBill
<1> HIDE DEF off, total, bill
<1>3. h \in InvoiceMoney /\ h.total = total /\ h.paid = 0 /\ HeadFine(h)
  <2>1. h = [total |-> total, paid |-> 0, status |-> IF total = 0 THEN "paid" ELSE "due"]
    BY DEF NewHead
  <2>2. h.total = total /\ h.paid = 0 /\ h.status = IF total = 0 THEN "paid" ELSE "due"
    BY <2>1
  <2>3. h \in InvoiceMoney
    BY <1>1, <2>1 DEF InvoiceMoney, InvoiceStatus
  <2> HIDE DEF h
  <2> QED BY <1>1, <2>2, <2>3 DEF HeadFine, StatusFits, StatusOf
<1>4. Installments(off) \in Seq(Nat) /\ (SplitsExactly(off) => Sum(Installments(off)) = total)
  BY <1>1, InstallmentsAre
<1>5. /\ RowsFine(rows) /\ Sum(Billed(rows)) = Sum(Installments(off)) /\ Sum(Paid(rows)) = 0
  BY <1>4, NewRowsFine
<1>6. strayed \in BOOLEAN
  OBVIOUS
<1>7. rows \in Seq(RowMoney)
  BY <1>5 DEF RowsFine
<1>8. ~strayed => AddsUp(rows, h)
  BY <1>3, <1>4, <1>5 DEF AddsUp
<1> HIDE DEF h, rows, strayed
<1>9. bill \in Bill
  BY <1>2, <1>3, <1>6, <1>7 DEF Bill
<1>10. bill.head = h /\ bill.rows = rows /\ bill.strayed = strayed
  BY <1>2
<1> QED BY <1>3, <1>5, <1>8, <1>9, <1>10 DEF BillFine, bill

LEMMA SyncedFine ==
    ASSUME NEW bill \in Bill, BillFine(bill), NEW total \in Nat
    PROVE  Synced(bill, total) \in Bill /\ BillFine(Synced(bill, total))
<1> DEFINE h == bill.head
           new == WithTotal(h, total)
           rows == IF total < h.total THEN CutRows(bill.rows, h.total - total) ELSE bill.rows
           strayed == bill.strayed \/ total > h.total \/ total < h.paid
           after == Synced(bill, total)
<1>1. after = [head |-> new, rows |-> rows, strayed |-> strayed, crossed |-> FALSE]
  BY Zenon DEF Synced
<1>2. /\ h \in InvoiceMoney /\ RowsFine(bill.rows)
      /\ ~bill.strayed => AddsUp(bill.rows, h)
  BY DEF Bill, BillFine
<1>3. bill.strayed \in BOOLEAN
  BY DEF Bill
<1> HIDE DEF h, after
<1>4. /\ h.total \in Nat /\ h.paid \in Nat
      /\ new \in InvoiceMoney /\ new.total = total /\ new.paid = h.paid
      /\ new.status = StatusOf(total, h.paid)
  BY <1>2, HeadIs
<1>5. HeadFine(new)
  BY <1>4 DEF HeadFine, StatusFits
<1>6. strayed \in BOOLEAN
  BY <1>3
<1>7. RowsFine(rows) /\ (~strayed => AddsUp(rows, new))
  <2>1. CASE total < h.total
    <3>1. rows = CutRows(bill.rows, h.total - total)
      BY <2>1
    <3>2. total <= h.total
      BY <1>4, <2>1
    <3>3. /\ RowsFine(CutRows(bill.rows, h.total - total))
          /\ ~bill.strayed /\ total >= h.paid
                => AddsUp(CutRows(bill.rows, h.total - total), new)
      BY <1>2, <1>3, <3>2, LowerFine
    <3>4. ~strayed => ~bill.strayed /\ total >= h.paid
      BY <1>4
    <3> HIDE DEF strayed, rows, new
    <3> QED BY <3>1, <3>3, <3>4, Zenon
  <2>2. CASE ~(total < h.total)
    <3>1. rows = bill.rows
      BY <2>2
    <3>2. ~strayed => ~bill.strayed /\ new.total = h.total
      BY <1>4, <2>2
    <3> HIDE DEF strayed, rows, new
    <3> QED BY <1>2, <1>4, <3>1, <3>2 DEF AddsUp
  <2> QED BY <2>1, <2>2
<1>8. rows \in Seq(RowMoney)
  BY <1>7 DEF RowsFine
<1> HIDE DEF new, rows, strayed
<1>9. after \in Bill
  BY <1>1, <1>4, <1>6, <1>8 DEF Bill
<1>10. after.head = new /\ after.rows = rows /\ after.strayed = strayed
  BY <1>1
<1> QED BY <1>5, <1>7, <1>9, <1>10 DEF BillFine, after

-----------------------------------------------------------------------------
(* Every step leaves the bills right, and the total of a settled one       *)
(* unless it is the approval of a note that had read it while it owed.     *)
Noted(i) == \E m \in Mover : /\ moving[m].kind = "credit_note" /\ moving'[m] = NotMoving
                             /\ moving[m].bill = i /\ Balance(moving[m].seen) > 0

Keeps == \A i \in 1..Len(bills) :
            Settled(bills[i].head) /\ bills'[i].head.total # bills[i].head.total => Noted(i)

Longer == Len(bills) \in Nat /\ Len(bills') \in Nat /\ Len(bills) <= Len(bills')

LEMMA BillsKept ==
    ASSUME BillsFine, bills' = bills PROVE BillsFine' /\ Keeps /\ Longer
<1>1. Len(bills) \in Nat
  BY DEF BillsFine
<1> QED BY <1>1 DEF BillsFine, Keeps, Longer

LEMMA BillsPaid ==
    ASSUME BillsFine, MovingFine, NEW i \in 1..Len(bills), PayAtCounter(i)
    PROVE  BillsFine' /\ MovingFine' /\ Keeps
<1> DEFINE h == bills[i].head
           rows == bills[i].rows
           strayed == bills[i].strayed
<1>1. h \in InvoiceMoney /\ strayed \in BOOLEAN
  BY BillIs
<1>2. RowsFine(rows) /\ (~strayed => AddsUp(rows, h))
  BY DEF BillsFine, BillFine
<1>3. PICK amount \in 1..Balance(h) :
          Saved(i, Credit(h, amount), SpreadCredit(rows, amount), FALSE, FALSE)
  BY Zenon DEF PayAtCounter
<1>4. UNCHANGED moving
  BY DEF PayAtCounter
<1> HIDE DEF h, rows, strayed
<1>5. /\ HeadFine(Credit(h, amount)) /\ RowsFine(SpreadCredit(rows, amount))
      /\ ~strayed => AddsUp(SpreadCredit(rows, amount), Credit(h, amount))
      /\ Credit(h, amount).total = h.total
  BY <1>1, <1>2, PayFine
<1> DEFINE new == Credit(h, amount)
           spread == SpreadCredit(rows, amount)
<1>6. new \in InvoiceMoney
  BY <1>5 DEF HeadFine
<1>7. ~(bills[i].strayed \/ FALSE) => AddsUp(spread, new)
  BY <1>5 DEF strayed
<1>8. Saved(i, new, spread, FALSE, FALSE)
  BY <1>3
<1>9. RowsFine(spread) /\ HeadFine(new) /\ new.total = h.total
  BY <1>5
<1> HIDE DEF new, spread
<1>10. /\ BillsFine' /\ Len(bills') = Len(bills)
       /\ bills'[i].head = new
       /\ \A j \in 1..Len(bills) : j # i => bills'[j] = bills[j]
  BY <1>6, <1>7, <1>8, <1>9, SavedFine
<1>11. Keeps
  BY <1>9, <1>10 DEF Keeps, h
<1>12. Len(bills) \in Nat
  BY DEF BillsFine
<1> QED BY <1>4, <1>10, <1>11, <1>12, MovingStays

(* A reading is kept as it was made.                                       *)
LEMMA BillRead ==
    ASSUME BillsFine, MovingFine, NEW i \in 1..Len(bills), NEW m \in Mover,
           NEW kind \in {"capture", "refund", "credit_note", "write_off"}, NEW amount \in Nat,
           kind \in {"capture", "credit_note"} => amount \in 1..Balance(bills[i].head),
           kind = "refund" => amount <= bills[i].head.paid,
           Read(m, kind, i, amount)
    PROVE  BillsFine' /\ MovingFine' /\ Keeps
<1> DEFINE t == [kind |-> kind, bill |-> i, seen |-> bills[i].head, amount |-> amount]
<1>1. bills[i].head \in InvoiceMoney
  BY BillIs
<1>2. t.kind = kind /\ t.bill = i /\ t.seen = bills[i].head /\ t.amount = amount
  OBVIOUS
<1>3. t \in Readings
  <2>1. i \in Nat
    OBVIOUS
  <2> QED BY <1>1, <2>1 DEF Readings
<1>4. bills' = bills /\ moving' = [moving EXCEPT ![m] = t]
  BY DEF Read
<1> HIDE DEF t
<1>5. t \in Seen
  BY <1>2, <1>3 DEF Seen, Fits
<1>6. moving' \in [Mover -> {NotMoving} \cup Seen]
  BY <1>4, <1>5 DEF MovingFine
<1>7. \A n \in Mover : moving'[n] # NotMoving => moving'[n].bill \in 1..Len(bills)
  BY <1>2, <1>4 DEF MovingFine
<1>8. MovingFine'
  BY <1>4, <1>6, <1>7 DEF MovingFine
<1> QED BY <1>4, <1>8, BillsKept

LEMMA BillsRead ==
    ASSUME BillsFine, MovingFine, NEW i \in 1..Len(bills), NEW m \in Mover, Reading(m, i)
    PROVE  BillsFine' /\ MovingFine' /\ Keeps
<1> DEFINE h == bills[i].head
           kinds == {"capture", "refund", "credit_note", "write_off"}
<1>1. h \in InvoiceMoney
  BY BillIs
<1>2. h.paid \in Nat /\ Balance(h) \in Nat /\ MaxRefund \in Nat
  BY <1>1, HeadIs, BoundsAssumption DEF InvoiceMoney
<1>3. "capture" \in kinds /\ "refund" \in kinds /\ "credit_note" \in kinds /\ "write_off" \in kinds
  OBVIOUS
<1> HIDE DEF h
<1>4. CASE ReadToCapture(m, i)
  <2>1. PICK amount \in 1..Balance(h) : Read(m, "capture", i, amount)
    BY <1>4, Zenon DEF ReadToCapture, h
  <2>2. amount \in Nat
    BY <1>2
  <2> QED BY <2>1, <2>2, BillRead DEF h
<1>5. CASE ReadToCut(m, i)
  <2>1. PICK amount \in 1..Balance(h) : Read(m, "credit_note", i, amount)
    BY <1>5, Zenon DEF ReadToCut, h
  <2>2. amount \in Nat
    BY <1>2
  <2> QED BY <2>1, <2>2, BillRead DEF h
<1>6. CASE ReadToRefund(m, i)
  <2>1. PICK amount \in 1..Least(h.paid, MaxRefund) : Read(m, "refund", i, amount)
    BY <1>6, Zenon DEF ReadToRefund, h
  <2>2. amount \in Nat /\ amount <= h.paid
    <3>1. Least(h.paid, MaxRefund) \in Nat /\ Least(h.paid, MaxRefund) <= h.paid
      BY <1>2, LeastType
    <3> QED BY <1>2, <3>1
  <2> QED BY <2>1, <2>2, BillRead DEF h
<1>7. CASE ReadToWriteOff(m, i)
  <2>1. Read(m, "write_off", i, 0)
    BY <1>7 DEF ReadToWriteOff
  <2> QED BY <2>1, BillRead
<1> QED BY <1>4, <1>5, <1>6, <1>7 DEF Reading

LEMMA BillsSaved ==
    ASSUME BillsFine, MovingFine, NEW m \in Mover, Saving(m)
    PROVE  BillsFine' /\ MovingFine' /\ Keeps
<1> DEFINE t == moving[m]
           h == t.seen
           i == t.bill
           rows == bills[i].rows
           strayed == bills[i].strayed \/ Overtaken(m)
<1>1. Moving(m)
  BY DEF Saving, Capture, Refund, ApproveCreditNote, WriteOffInvoice, Moving
<1>2. t \in Seen /\ i \in 1..Len(bills) /\ h \in InvoiceMoney /\ t.amount \in Nat /\ Fits(t)
  BY <1>1, MovingIs
<1>3. bills[i] \in Bill /\ BillFine(bills[i])
  BY <1>2 DEF BillsFine
<1>4. RowsFine(rows)
  BY <1>3 DEF BillFine
<1>5. strayed \in BOOLEAN
  BY <1>3 DEF Bill, Overtaken, TotalChanged, PaidChanged
<1>6. ~strayed => AddsUp(rows, h)
  <2> SUFFICES ASSUME ~strayed PROVE AddsUp(rows, h)
    OBVIOUS
  <2>1. AddsUp(rows, bills[i].head)
    BY <1>3 DEF BillFine
  <2> QED BY <2>1, NotOvertaken
<1>7. ASSUME NEW newHead, NEW newRows, HeadFine(newHead), RowsFine(newRows),
             newHead.total = h.total, ~strayed => AddsUp(newRows, newHead),
             SavedPaid(m, newHead, newRows)
      PROVE  BillsFine' /\ MovingFine' /\ Keeps
  <2>1. /\ BillsFine' /\ MovingFine'
        /\ \A j \in 1..Len(bills) : bills'[j].head.total = bills[j].head.total
    BY <1>1, <1>7, PaidSaved
  <2> QED BY <2>1 DEF Keeps
<1> DEFINE amount == t.amount
<1>8. CASE Capture(m)
  <2>1. t.kind = "capture" /\ SavedPaid(m, Credit(h, amount), SpreadCredit(rows, amount))
    BY <1>8, Zenon DEF Capture
  <2>2. amount \in 1..Balance(h)
    BY <1>2, <2>1 DEF Fits
  <2> HIDE DEF h, rows, strayed, amount
  <2>3. /\ HeadFine(Credit(h, amount)) /\ RowsFine(SpreadCredit(rows, amount))
        /\ ~strayed => AddsUp(SpreadCredit(rows, amount), Credit(h, amount))
        /\ Credit(h, amount).total = h.total
    BY <1>2, <1>4, <1>5, <1>6, <2>2, PayFine
  <2> QED BY <1>7, <2>1, <2>3, Zenon
<1>9. CASE Refund(m)
  <2>1. t.kind = "refund" /\ SavedPaid(m, Debit(h, amount), SpreadDebit(rows, amount))
    BY <1>9, Zenon DEF Refund
  <2>2. amount <= h.paid
    BY <1>2, <2>1 DEF Fits
  <2>3. amount \in Nat
    BY <1>2
  <2> HIDE DEF h, rows, strayed, amount
  <2>4. /\ HeadFine(Debit(h, amount)) /\ RowsFine(SpreadDebit(rows, amount))
        /\ ~strayed => AddsUp(SpreadDebit(rows, amount), Debit(h, amount))
        /\ Debit(h, amount).total = h.total
    BY <1>2, <1>4, <1>5, <1>6, <2>2, <2>3, RefundFine
  <2> QED BY <1>7, <2>1, <2>4, Zenon
<1>10. CASE WriteOffInvoice(m)
  <2>1. SavedPaid(m, WriteOff(h), WriteOffRows(rows))
    BY <1>10, Zenon DEF WriteOffInvoice
  <2> HIDE DEF h, rows, strayed
  <2>2. /\ HeadFine(WriteOff(h)) /\ RowsFine(WriteOffRows(rows))
        /\ ~strayed => AddsUp(WriteOffRows(rows), WriteOff(h))
        /\ WriteOff(h).total = h.total
    BY <1>2, <1>4, <1>5, <1>6, AbandonFine
  <2> QED BY <1>7, <2>1, <2>2, Zenon
<1>11. CASE ApproveCreditNote(m)
  <2>1. t.kind = "credit_note" /\ SavedTotal(m, CutTotal(h, amount), CutRows(rows, amount))
    BY <1>11, Zenon DEF ApproveCreditNote
  <2>2. amount \in 1..Balance(h)
    BY <1>2, <2>1 DEF Fits
  <2>3. Balance(h) > 0
    <3>1. Balance(h) \in Nat
      BY <1>2, HeadIs DEF InvoiceMoney
    <3> HIDE DEF h
    <3> QED BY <2>2, <3>1
  <2> DEFINE new == CutTotal(h, amount)
             cut == CutRows(rows, amount)
  <2>4. /\ HeadFine(new) /\ RowsFine(cut) /\ (~strayed => AddsUp(cut, new))
        /\ new.paid = h.paid
    <3> HIDE DEF h, rows, strayed, amount
    <3> QED BY <1>2, <1>4, <1>5, <1>6, <2>2, CreditNoteFine
  <2>5. SavedTotal(m, new, cut)
    BY <2>1
  <2> HIDE DEF new, cut
  <2>6. /\ BillsFine' /\ MovingFine' /\ moving'[m] = NotMoving
        /\ \A j \in 1..Len(bills) : j # i => bills'[j] = bills[j]
    BY <1>1, <2>4, <2>5, TotalSaved
  <2>7. Noted(i)
    BY <2>1, <2>3, <2>6 DEF Noted
  <2>8. Keeps
    <3> SUFFICES ASSUME NEW j \in 1..Len(bills), bills'[j].head.total # bills[j].head.total
                 PROVE  Noted(j)
      BY DEF Keeps
    <3>1. j = i
      BY <2>6
    <3> QED BY <2>7, <3>1
  <2> QED BY <2>6, <2>8
<1> QED BY <1>8, <1>9, <1>10, <1>11 DEF Saving

LEMMA BillsMoved ==
    ASSUME BillsFine, MovingFine, MovesMoney
    PROVE  BillsFine' /\ MovingFine' /\ Keeps
<1>1. \A i \in 1..Least(Len(bills), MaxMoved) : i \in 1..Len(bills)
  <2>1. Len(bills) \in Nat /\ MaxMoved \in Nat
    BY BoundsAssumption DEF BillsFine
  <2>2. Least(Len(bills), MaxMoved) \in Nat /\ Least(Len(bills), MaxMoved) <= Len(bills)
    BY <2>1, LeastType
  <2> QED BY <2>1, <2>2
<1>2. CASE \E i \in 1..Least(Len(bills), MaxMoved) : PayAtCounter(i)
  BY <1>1, <1>2, BillsPaid
<1>3. CASE \E i \in 1..Least(Len(bills), MaxMoved), m \in Mover : Reading(m, i)
  BY <1>1, <1>3, BillsRead
<1>4. CASE \E m \in Mover : Saving(m)
  BY <1>4, BillsSaved
<1>5. CASE \E m \in Mover : GiveUpMove(m)
  <2>1. PICK m \in Mover : GiveUpMove(m)
    BY <1>5
  <2>2. EndMove(m) /\ bills' = bills
    BY <2>1 DEF GiveUpMove
  <2> QED BY <2>2, MovingEnds, BillsKept
<1> QED BY <1>2, <1>3, <1>4, <1>5 DEF MovesMoney

LEMMA BillsSynced ==
    ASSUME BillsFine, NEW total \in Nat, bills' = SyncedBills(total)
    PROVE  BillsFine' /\ Keeps /\ Longer
<1> DEFINE n == Len(bills)
           touched(i) == i \in Syncable /\ bills[i].head.total # total
           entry(i) == IF touched(i) THEN Synced(bills[i], total) ELSE bills[i]
<1>1. n \in Nat /\ DOMAIN bills = 1..n /\ \A i \in 1..n : bills[i] \in Bill /\ BillFine(bills[i])
  BY DEF BillsFine
<1>2. bills' = [i \in 1..n |-> entry(i)]
  BY <1>1, Zenon DEF SyncedBills
<1>3. \A i \in 1..n : touched(i) => ~Settled(bills[i].head)
  BY DEF Syncable, Open, Settled
<1> HIDE DEF n, touched
<1>4. \A i \in 1..n : entry(i) \in Bill /\ BillFine(entry(i))
  BY <1>1, SyncedFine
<1>5. \A i \in 1..n : Settled(bills[i].head) => entry(i) = bills[i]
  BY <1>3
<1> HIDE DEF entry
<1>6. bills' \in [1..n -> Bill] /\ \A i \in 1..n : bills'[i] = entry(i)
  BY <1>2, <1>4
<1>7. bills' \in Seq(Bill) /\ Len(bills') = n
  BY <1>1, <1>6
<1>8. BillsFine'
  BY <1>4, <1>6, <1>7 DEF BillsFine
<1>9. Keeps
  BY <1>5, <1>6 DEF Keeps, n
<1>10. Longer
  BY <1>1, <1>7 DEF Longer, n
<1> QED BY <1>8, <1>9, <1>10

LEMMA BillsCreated ==
    ASSUME BillsFine, NEW lines \in SUBSET Concession, bills' = Append(bills, NewBill(lines))
    PROVE  BillsFine' /\ Keeps /\ Longer
<1> DEFINE new == NewBill(lines)
           n == Len(bills)
<1>1. new \in Bill /\ BillFine(new)
  BY NewBillFine
<1>2. bills \in Seq(Bill) /\ n \in Nat /\ \A i \in 1..n : BillFine(bills[i])
  BY DEF BillsFine
<1> HIDE DEF new
<1>3. /\ bills' \in Seq(Bill) /\ Len(bills') = n + 1 /\ bills'[n + 1] = new
      /\ \A i \in 1..n : bills'[i] = bills[i]
  BY <1>1, <1>2 DEF new
<1> HIDE DEF n
<1>4. \A i \in 1..(n + 1) : BillFine(bills'[i])
  <2> SUFFICES ASSUME NEW i \in 1..(n + 1) PROVE BillFine(bills'[i])
    OBVIOUS
  <2>1. i \in 1..n \/ i = n + 1
    BY <1>2
  <2> QED BY <1>1, <1>2, <1>3, <2>1
<1>5. BillsFine'
  BY <1>3, <1>4 DEF BillsFine
<1>6. Keeps
  BY <1>3 DEF Keeps, n
<1>7. Longer
  BY <1>2, <1>3 DEF Longer, n
<1> QED BY <1>5, <1>6, <1>7

LEMMA BillsStep ==
    BillingTyped /\ BillsFine /\ MovingFine /\ [BillingNext]_billingVars
        => BillsFine' /\ MovingFine' /\ Keeps
<1> SUFFICES ASSUME BillingTyped, BillsFine, MovingFine, [BillingNext]_billingVars
             PROVE  BillsFine' /\ MovingFine' /\ Keeps
  OBVIOUS
<1>0. ASSUME BillsFine', Keeps, Longer, UNCHANGED moving PROVE BillsFine' /\ MovingFine' /\ Keeps
  BY <1>0, MovingStays DEF Longer
<1>1. CASE UNCHANGED billingVars
  <2>1. bills' = bills /\ UNCHANGED moving
    BY <1>1 DEF billingVars
  <2> QED BY <1>0, <2>1, BillsKept
<1>2. ASSUME NEW r \in Request, Starting(r), UNCHANGED moving
      PROVE  BillsFine' /\ MovingFine' /\ Keeps
  <2>1. bills' = bills
    BY <1>2, StartingIs
  <2> QED BY <1>0, <1>2, <2>1, BillsKept
<1>3. ASSUME NEW r \in Request, Continuing(r), UNCHANGED moving
      PROVE  BillsFine' /\ MovingFine' /\ Keeps
  <2> DEFINE lines == running[r].lines
  <2>1. running[r] \in Working /\ Continues(r)
    BY <1>3, ContinuesTyped
  <2>2. lines \in SUBSET Concession
    BY <2>1 DEF Working, Work
  <2>3. \/ bills' = bills
        \/ bills' = SyncedBills(TotalFor(lines))
        \/ bills' = Append(bills, NewBill(lines))
    BY <2>1, Zenon DEF Continues, GoesOn, Unwritten
  <2> HIDE DEF lines
  <2>4. TotalFor(lines) \in Nat
    BY <2>2, OffType
  <2>5. BillsFine' /\ Keeps /\ Longer
    BY <2>2, <2>3, <2>4, BillsKept, BillsSynced, BillsCreated
  <2> QED BY <1>0, <1>3, <2>5
<1>4. CASE MovesMoney
  BY <1>4, BillsMoved
<1> QED BY <1>1, <1>2, <1>3, <1>4, BillingSteps

LEMMA BillsInit == BillingInit => BillsFine /\ MovingFine
BY DEF BillingInit, BillsFine, MovingFine, NotMoving

(* The inductive invariant of the invoices.                                *)
LEMMA BillsAreFine == BillingSpec => [](BillingTyped /\ BillsFine /\ MovingFine)
<1>1. BillingInit => BillingTyped /\ BillsFine /\ MovingFine
  BY BillingTypedInit, BillsInit
<1>2. BillingTyped /\ BillsFine /\ MovingFine /\ [BillingNext]_billingVars
         => (BillingTyped /\ BillsFine /\ MovingFine)'
  BY BillingTypedStep, BillsStep
<1> QED BY <1>1, <1>2, PTL DEF BillingSpec

(* The status of every installment says what is paid of it, and so does    *)
(* that of the invoice unless it was saved across another request, however *)
(* payments at the counter, captures, refunds, credit notes, write-offs    *)
(* and changed concessions have read and saved it.                         *)
THEOREM StatusSaysWhatIsPaid == BillingSpec => []StatusMatchesAmounts
<1>1. BillsFine => StatusMatchesAmounts
  <2> SUFFICES ASSUME BillsFine, NEW i \in DOMAIN bills
               PROVE  LET bill == bills[i] IN
                      /\ \A k \in DOMAIN bill.rows :
                            LET row == bill.rows[k] IN StatusFits(row.status, row.amount, row.paid)
                      /\ ~bill.crossed => StatusFits(bill.head.status, bill.head.total, bill.head.paid)
    BY Zenon DEF StatusMatchesAmounts
  <2>1. BillFine(bills[i])
    BY DEF BillsFine
  <2> QED BY <2>1, Zenon DEF BillFine, HeadFine, RowsFine, RowFine
<1> QED BY <1>1, BillsAreFine, PTL

(* Until an invoice has strayed (a request has saved what another one had  *)
(* overtaken, or a concession has left its total behind) its installments  *)
(* add up to it, billed and paid: what a concession takes off, split by    *)
(* proportion, what a payment spreads, a refund takes back, a credit note  *)
(* and a later concession cut.  None is ever paid beyond its amount.       *)
THEOREM InstallmentsAddUp == BillingSpec => []RowsAddUp
<1>1. BillsFine => RowsAddUp
  <2> SUFFICES ASSUME BillsFine, NEW i \in DOMAIN bills
               PROVE  LET bill == bills[i] IN
                      /\ bill.head \in InvoiceMoney /\ bill.rows \in Seq(RowMoney)
                      /\ \A k \in DOMAIN bill.rows : bill.rows[k].paid <= bill.rows[k].amount
                      /\ ~bill.strayed =>
                          /\ Sum([k \in DOMAIN bill.rows |-> bill.rows[k].amount]) = bill.head.total
                          /\ Sum([k \in DOMAIN bill.rows |-> bill.rows[k].paid])   = bill.head.paid
    BY Zenon DEF RowsAddUp
  <2>1. BillFine(bills[i]) /\ bills[i] \in Bill
    BY DEF BillsFine
  <2>2. bills[i].head \in InvoiceMoney
    BY <2>1 DEF Bill
  <2> QED BY <2>1, <2>2, Zenon DEF BillFine, RowsFine, RowFine, AddsUp, Billed, Paid
<1> QED BY <1>1, BillsAreFine, PTL

(* An installment of any invoice is touched only when the older are full.  *)
THEOREM OldestInstallmentFirst == BillingSpec => []OldestPaidFirst
<1>1. BillsFine => OldestPaidFirst
  BY DEF BillsFine, BillFine, RowsFine, Ordered, OldestPaidFirst
<1> QED BY <1>1, BillsAreFine, PTL

(* The total of an invoice that is paid or written off is changed by       *)
(* nothing but the approval of a credit note that had read the invoice     *)
(* while it owed something.                                                *)
THEOREM SettledTotalStays == BillingSpec => SettledKeepsTotal
<1>1. BillingTyped /\ BillsFine /\ MovingFine /\ [BillingNext]_billingVars
      => [\A i \in DOMAIN bills :
             Settled(bills[i].head) /\ bills'[i].head.total # bills[i].head.total =>
                 \E m \in Mover : /\ moving[m].kind = "credit_note" /\ moving'[m] = NotMoving
                                  /\ moving[m].bill = i /\ Balance(moving[m].seen) > 0]_billingVars
  <2> SUFFICES ASSUME BillingTyped, BillsFine, MovingFine, [BillingNext]_billingVars
               PROVE  \A i \in DOMAIN bills :
                         Settled(bills[i].head) /\ bills'[i].head.total # bills[i].head.total
                             => Noted(i)
    BY Zenon DEF Noted
  <2>1. Keeps
    BY BillsStep
  <2>2. DOMAIN bills = 1..Len(bills)
    BY DEF BillsFine
  <2> QED BY <2>1, <2>2, Zenon DEF Keeps
<1> QED BY <1>1, BillsAreFine, PTL DEF BillingSpec, SettledKeepsTotal
=============================================================================
