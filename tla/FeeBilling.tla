----------------------------- MODULE FeeBilling -----------------------------
(***************************************************************************)
(* How a student comes to owe a fee: the structure of the class is         *)
(* assigned, concessions lower what it says, an invoice is generated for   *)
(* the batch, and concessions granted or revoked later change the invoice  *)
(* as long as it is open (apps/fees/interactors/invoice.py, concession.py, *)
(* services/concession_sync.py).                                           *)
(*                                                                         *)
(* A request is a database transaction: what it has written is seen by     *)
(* others when it ends, what it reads is what others have committed.  Two  *)
(* of its writes make others wait: the assignment (a unique row, and an    *)
(* UPDATE of it) and the invoice, which is taken FOR UPDATE by the last    *)
(* statement of each request here.  A lock held across no other step is    *)
(* not represented.                                                        *)
(*                                                                         *)
(* The module is about one student and one published structure: a batch is *)
(* billed student by student, and students share no row.  Money moves on   *)
(* the invoices meanwhile: the counter locks the invoice before it reads   *)
(* it, but an online capture, a refund, a credit note and a write-off read *)
(* it without a lock and later save what they computed from that reading   *)
(* (variable moving).  The installments are read after the invoice has     *)
(* been saved, under its row lock.  FeePayments has the rest of these      *)
(* requests.                                                               *)
(*                                                                         *)
(* A definition above one whose name it extends is a mistaken variant of   *)
(* it, which no action uses.                                               *)
(***************************************************************************)
EXTENDS FeeLedger, FiniteSets, FiniteSetsExt

CONSTANTS
    Components,     \* what the structure asks for, installment by installment
    Concession,     \* the concessions that may be granted
    RuleOf,         \* the rule of each
    Discount,       \* what a rule takes off this structure
    Request,        \* slots for requests under way that assign, grant or bill
    Mover,          \* slots for those that move money on an invoice
    MaxBills,       \* bound: invoices of the assignment
    MaxMoved,       \* bound: the first of them that money moves on
    MaxRefund       \* bound: a refund is at most this

ASSUME ComponentsAssumption == Components \in Seq(Nat) /\ Components # <<>>
ASSUME ConcessionAssumption ==
    /\ IsFiniteSet(Concession)
    /\ \A c \in Concession : Discount[RuleOf[c]] \in Nat \ {0}
ASSUME BoundsAssumption == {MaxBills, MaxMoved, MaxRefund} \subseteq Nat

VARIABLES
    conc,       \* StudentConcession: "none" until it is granted
    plan,       \* StudentFeeAssignment, without its fixed snapshot
    bills,      \* FeeInvoice and its Installments, in the order of creation
    running,    \* requests under way
    moving      \* those that move money: the invoice as they read it

billingVars == <<conc, plan, bills, running, moving>>

-----------------------------------------------------------------------------
(* The price of the structure and what the discount leaves of it.          *)
Sum(amounts) == MapThenSumSet(LAMBDA k : amounts[k], DOMAIN amounts)

Price == Sum(Components)

Off(lines) == Sum([c \in lines |-> Discount[RuleOf[c]]])

TotalFor(lines) == Monus(Price, Off(lines))

(* The discount is shared out in proportion, rounded down; the last        *)
(* installment takes what is left of it.                                   *)
Share(off, k) == IF Price = 0 THEN 0 ELSE (off * Components[k]) \div Price

CutRoundedDown(off, k) == Share(off, k)

Cut(off, k) ==
    IF k < Len(Components) \/ Price = 0 THEN Share(off, k)
    ELSE off - Sum([j \in 1..(k - 1) |-> Share(off, j)])

Installments(off) ==
    [k \in DOMAIN Components |-> Monus(Components[k], Cut(off, k))]

(* The installments add up exactly unless the last one is too small for    *)
(* what is left of the discount.                                           *)
SplitsExactly(off) ==
    \/ off >= Price
    \/ off - Sum([j \in 1..(Len(Components) - 1) |-> Share(off, j)]) <= Components[Len(Components)]

(* Two histories of the invoice that the program does not keep: strayed,   *)
(* its amounts have left those of its installments behind; crossed, what   *)
(* was saved last took one amount from the invoice as it had been before   *)
(* another request changed it.                                             *)
NewBill(lines) ==
    [head    |-> NewHead(TotalFor(lines)),
     rows    |-> NewRows(Installments(Off(lines))),
     strayed |-> ~SplitsExactly(Off(lines)),
     crossed |-> FALSE]

-----------------------------------------------------------------------------
NoPlan     == [lines |-> {"none"}]
NotRunning == [pc |-> "idle", holds |-> FALSE]
NotMoving  == [kind |-> "none"]

BillingInit ==
    /\ conc = [c \in Concession |-> "none"]
    /\ plan = NoPlan
    /\ bills = <<>>
    /\ running = [r \in Request |-> NotRunning]
    /\ moving = [m \in Mover |-> NotMoving]

Open == {i \in DOMAIN bills : bills[i].head.status \in {"due", "partial"}}

(* assert_concession_modifiable                                            *)
Modifiable == bills = <<>> \/ Open # {}

(* The active concessions as the request sees them, with what it has       *)
(* granted and without what it has revoked itself.                         *)
Granted(r) == IF running[r].kind = "apply" THEN {running[r].about} ELSE {}
Revoked(r) == IF running[r].kind = "revoke" THEN {running[r].about} ELSE {}
Active(r)  == ({c \in Concession : conc[c] = "active"} \cup Granted(r)) \ Revoked(r)

(* rebuild_assignment_discounts keeps one concession of each rule, the     *)
(* first the query returns.                                                *)
OnePerRuleIgnored(cs) == {cs}

OnePerRule(cs) == {lines \in SUBSET cs :
                \A c \in cs : Cardinality({d \in lines : RuleOf[d] = RuleOf[c]}) = 1}

Step(r, local) == running' = [running EXCEPT ![r] = local]
End(r) == Step(r, NotRunning)

Begin(r, kind, pc, about, lines) ==
    /\ running[r] = NotRunning
    /\ Step(r, [pc |-> pc, kind |-> kind, about |-> about, lines |-> lines, holds |-> FALSE])
    /\ UNCHANGED <<conc, plan, bills>>

(* Nobody else has inserted or updated the assignment and not ended.       *)
PlanFree(r) == \A q \in Request \ {r} : ~running[q].holds

(* No request under way grants c, or holds it FOR UPDATE to change it.     *)
Unclaimed(c) == \A q \in Request : running[q] # NotRunning => running[q].about # c

Commit(r) ==
    /\ conc' = [c \in Concession |->
                   IF c \in Granted(r) THEN "active"
                   ELSE IF c \in Revoked(r) THEN "revoked" ELSE conc[c]]
    /\ plan' = IF running[r].holds THEN [lines |-> running[r].lines] ELSE plan
    /\ End(r)

-----------------------------------------------------------------------------
(* How requests begin.  StudentFeeAssignmentView.post checks that there is *)
(* no assignment yet.                                                      *)
BeginAssign(r) ==
    /\ plan = NoPlan
    /\ Begin(r, "assign", "insert", "none", {})

(* generate_invoices_for_batch creates the assignment when it finds none,  *)
(* with every active concession.                                           *)
BeginGenerate(r) ==
    IF plan = NoPlan
    THEN Begin(r, "generate", "insert", "none", {c \in Concession : conc[c] = "active"})
    ELSE Begin(r, "generate", "look", "none", plan.lines)

(* A rule is granted when no active concession has it; what others are     *)
(* granting is not seen.                                                   *)
BeginApply(r) == \E c \in Concession :
    /\ conc[c] = "none" /\ Unclaimed(c)
    /\ \A d \in Concession : conc[d] = "active" => RuleOf[d] # RuleOf[c]
    /\ Modifiable
    /\ Begin(r, "apply", "rebuild", c, {})

BeginRevoke(r) == \E c \in Concession :
    /\ conc[c] = "active" /\ Unclaimed(c)
    /\ Begin(r, "revoke", "rebuild", c, {})

(* An edited amount does not survive the rebuilding, which takes the       *)
(* amount of the rule: what is left of the edit is the rebuilding.         *)
BeginEdit(r) == \E c \in Concession :
    /\ conc[c] = "active" /\ Unclaimed(c)
    /\ Modifiable
    /\ Begin(r, "edit", "rebuild", c, {})

-----------------------------------------------------------------------------
(* The assignment is inserted; the unique column makes the second request  *)
(* wait for the first, and fail when that one has committed.               *)
Insert(r) ==
    /\ running[r].pc = "insert"
    /\ PlanFree(r)
    /\ IF plan = NoPlan
       THEN Step(r, [running[r] EXCEPT !.holds = TRUE,
                         !.pc = IF running[r].kind = "assign" THEN "rebuild" ELSE "look"])
       ELSE End(r)
    /\ UNCHANGED <<conc, plan, bills>>

(* A batch refreshes the discount only of students with a concession.      *)
Look(r) ==
    /\ running[r].pc = "look"
    /\ Step(r, [running[r] EXCEPT !.pc = IF Active(r) = {} THEN "count" ELSE "rebuild"])
    /\ UNCHANGED <<conc, plan, bills>>

(* rebuild_assignment_discounts reads the active concessions ...           *)
Rebuild(r) ==
    /\ running[r].pc = "rebuild"
    /\ plan # NoPlan \/ running[r].holds
    /\ \E lines \in OnePerRule(Active(r)) :
        Step(r, [running[r] EXCEPT !.pc = "write", !.lines = lines])
    /\ UNCHANGED <<conc, plan, bills>>

(* ... there may be no assignment to rebuild ...                           *)
NothingToRebuild(r) ==
    /\ running[r].pc = "rebuild"
    /\ plan = NoPlan /\ ~running[r].holds
    /\ Commit(r)
    /\ UNCHANGED bills

(* ... and it writes the discount once nobody else is writing it.          *)
Write(r) ==
    /\ running[r].pc = "write"
    /\ PlanFree(r)
    /\ Step(r, [running[r] EXCEPT !.pc = "sync", !.holds = TRUE])
    /\ UNCHANGED <<conc, plan, bills>>

(* sync_open_invoice_with_assignment on an invoice it has locked.          *)
Synced(bill, total) ==
    [head    |-> WithTotal(bill.head, total),
     rows    |-> IF total < bill.head.total
                 THEN CutRows(bill.rows, bill.head.total - total) ELSE bill.rows,
     strayed |-> bill.strayed \/ total > bill.head.total \/ total < bill.head.paid,
     crossed |-> FALSE]

SyncableAll == DOMAIN bills

Syncable == Open

SyncedBills(total) ==
    [i \in DOMAIN bills |-> IF i \in Syncable /\ bills[i].head.total # total
                            THEN Synced(bills[i], total) ELSE bills[i]]

(* Two open invoices of one assignment are more than the query expects:    *)
(* the request fails.                                                      *)
Sync(r) ==
    /\ running[r].pc = "sync"
    /\ IF Cardinality(Open) > 1
       THEN End(r) /\ UNCHANGED <<conc, plan, bills>>
       ELSE IF running[r].kind = "generate" /\ Open = {}
       THEN Step(r, [running[r] EXCEPT !.pc = "count"]) /\ UNCHANGED <<conc, plan, bills>>
       ELSE Commit(r) /\ bills' = SyncedBills(TotalFor(running[r].lines))

(* The batch skips an assignment that has an invoice already, and bills    *)
(* the others when it has gone through all students.                       *)
Count(r) ==
    /\ running[r].pc = "count"
    /\ IF bills = <<>>
       THEN Step(r, [running[r] EXCEPT !.pc = "create"]) /\ UNCHANGED <<conc, plan, bills>>
       ELSE Commit(r) /\ UNCHANGED bills

Create(r) ==
    /\ running[r].pc = "create"
    /\ Len(bills) < MaxBills
    /\ bills' = Append(bills, NewBill(running[r].lines))
    /\ Commit(r)

(* The server dies or the database gives up: nothing was written.          *)
GiveUp(r) ==
    /\ running[r] # NotRunning
    /\ End(r)
    /\ UNCHANGED <<conc, plan, bills>>

-----------------------------------------------------------------------------
(* Money.  A request keeps the invoice as it read it.                      *)
Read(m, kind, i, amount) ==
    /\ moving[m] = NotMoving
    /\ moving' = [moving EXCEPT ![m] =
           [kind |-> kind, bill |-> i, seen |-> bills[i].head, amount |-> amount]]
    /\ UNCHANGED <<conc, plan, bills, running>>

TotalChanged(t) == t.seen.total # bills[t.bill].head.total
PaidChanged(t)  == t.seen.paid # bills[t.bill].head.paid

Saved(i, newHead, newRows, lost, crossed) ==
    bills' = [bills EXCEPT ![i] = [head |-> newHead, rows |-> newRows,
                                   strayed |-> @.strayed \/ lost, crossed |-> crossed]]

EndMove(m) == /\ moving' = [moving EXCEPT ![m] = NotMoving]
              /\ UNCHANGED <<conc, plan, running>>

SavedPaid(m, newHead, newRows) ==
    LET t == moving[m] IN
    /\ Saved(t.bill, SavePaid(bills[t.bill].head, newHead), newRows,
             TotalChanged(t) \/ PaidChanged(t), TotalChanged(t))
    /\ EndMove(m)

SavedTotal(m, newHead, newRows) ==
    LET t == moving[m] IN
    /\ Saved(t.bill, SaveTotal(bills[t.bill].head, newHead), newRows,
             TotalChanged(t) \/ PaidChanged(t), PaidChanged(t))
    /\ EndMove(m)

(* At the counter the invoice is locked before it is read.                 *)
PayAtCounter(i) == \E amount \in 1..Balance(bills[i].head) :
    /\ bills[i].head.status # "paid"
    /\ Saved(i, Credit(bills[i].head, amount), SpreadCredit(bills[i].rows, amount), FALSE, FALSE)
    /\ UNCHANGED <<conc, plan, running, moving>>

(* The others read now ...  (A capture applies at most the balance; the    *)
(* refund of an excess, which was never applied, is left to FeePayments.)  *)
ReadToCapture(m, i) == \E amount \in 1..Balance(bills[i].head) : Read(m, "capture", i, amount)

ReadToRefund(m, i) == \E amount \in 1..Least(bills[i].head.paid, MaxRefund) :
    Read(m, "refund", i, amount)

ReadToCut(m, i) == \E amount \in 1..Balance(bills[i].head) : Read(m, "credit_note", i, amount)

ReadToWriteOff(m, i) == /\ bills[i].head.status \notin {"paid", "written_off"}
                        /\ Read(m, "write_off", i, 0)

(* ... and save later, or never.                                           *)
Capture(m) == LET t == moving[m] IN
    /\ t.kind = "capture"
    /\ SavedPaid(m, Credit(t.seen, t.amount), SpreadCredit(bills[t.bill].rows, t.amount))

Refund(m) == LET t == moving[m] IN
    /\ t.kind = "refund"
    /\ SavedPaid(m, Debit(t.seen, t.amount), SpreadDebit(bills[t.bill].rows, t.amount))

ApproveCreditNote(m) == LET t == moving[m] IN
    /\ t.kind = "credit_note"
    /\ SavedTotal(m, CutTotal(t.seen, t.amount), CutRows(bills[t.bill].rows, t.amount))

WriteOffInvoice(m) == LET t == moving[m] IN
    /\ t.kind = "write_off"
    /\ SavedPaid(m, WriteOff(t.seen), WriteOffRows(bills[t.bill].rows))

GiveUpMove(m) ==
    /\ moving[m] # NotMoving
    /\ EndMove(m)
    /\ UNCHANGED bills

BillingNext ==
    \/ \E r \in Request :
        /\ \/ BeginAssign(r) \/ BeginGenerate(r)
           \/ BeginApply(r)  \/ BeginRevoke(r)  \/ BeginEdit(r)
           \/ Insert(r)      \/ Look(r)
           \/ Rebuild(r)     \/ NothingToRebuild(r)
           \/ Write(r)       \/ Sync(r)
           \/ Count(r)       \/ Create(r)       \/ GiveUp(r)
        /\ UNCHANGED moving
    \/ \E i \in 1..Least(Len(bills), MaxMoved) :
        \/ PayAtCounter(i)
        \/ \E m \in Mover : \/ ReadToCapture(m, i) \/ ReadToRefund(m, i)
                            \/ ReadToCut(m, i)     \/ ReadToWriteOff(m, i)
    \/ \E m \in Mover :
        \/ Capture(m) \/ Refund(m) \/ ApproveCreditNote(m) \/ WriteOffInvoice(m)
        \/ GiveUpMove(m)

BillingSpec == BillingInit /\ [][BillingNext]_billingVars

-----------------------------------------------------------------------------
(* The status of every installment says how much of it is paid, and so     *)
(* does that of the invoice unless what was saved last had crossed with    *)
(* another request: the loops over the installments run one at a time,     *)
(* whatever the requests had read of the invoice, and overlapping payments *)
(* may lose an amount of it but not make its status wrong.  Dashboards,    *)
(* reminders and every guard read the status.  What is written off owes    *)
(* nothing.                                                                *)
StatusFits(status, owed, paid) ==
    \/ status = StatusOf(owed, paid)
    \/ status = "written_off" /\ paid = owed

StatusMatchesAmounts ==
    \A i \in DOMAIN bills : LET bill == bills[i] IN
        /\ \A k \in DOMAIN bill.rows :
              LET row == bill.rows[k] IN StatusFits(row.status, row.amount, row.paid)
        /\ ~bill.crossed => StatusFits(bill.head.status, bill.head.total, bill.head.paid)

(* The installments add up to the invoice, in billed and in paid amounts,  *)
(* until a concession raises its total or cuts it below what is paid, or a *)
(* request saves what another one has overtaken; and none is ever paid     *)
(* more than it was billed for.  Four loops over the installments, in      *)
(* different directions, agree with the arithmetic on the invoice.         *)
RowsAddUp ==
    \A i \in DOMAIN bills : LET bill == bills[i] IN
        /\ bill.head \in InvoiceMoney /\ bill.rows \in Seq(RowMoney)
        /\ \A k \in DOMAIN bill.rows : bill.rows[k].paid <= bill.rows[k].amount
        /\ ~bill.strayed =>
            /\ Sum([k \in DOMAIN bill.rows |-> bill.rows[k].amount]) = bill.head.total
            /\ Sum([k \in DOMAIN bill.rows |-> bill.rows[k].paid])   = bill.head.paid

(* Money goes to the oldest installment first and comes back from the      *)
(* newest, so an installment is touched only when all older ones are full, *)
(* even after installments have been cut from the newest on.               *)
OldestPaidFirst ==
    \A i \in DOMAIN bills : LET rows == bills[i].rows IN
        \A j, k \in DOMAIN rows : j < k /\ rows[k].paid > 0 => Unpaid(rows[j]) = 0

(* A rule that a student has is taken off once, although two requests may  *)
(* grant it at once and a batch collects the concessions on its own.       *)
(* (When both are revoked while the batch is being billed, what it has     *)
(* collected stays.)                                                       *)
RuleOffOnce ==
    plan # NoPlan =>
        \A c, d \in plan.lines :
            RuleOf[c] = RuleOf[d] /\ conc[c] = "active" => c = d

(* What is paid or written off keeps its total, whatever concessions do    *)
(* while it is being paid: only the approval of a credit note that had     *)
(* read the invoice while it owed something still changes it.              *)
Settled(head) == head.status \in {"paid", "written_off"} /\ Balance(head) = 0

SettledKeepsTotal ==
    [][\A i \in DOMAIN bills :
          Settled(bills[i].head) /\ bills'[i].head.total # bills[i].head.total =>
              \E m \in Mover : /\ moving[m].kind = "credit_note" /\ moving'[m] = NotMoving
                               /\ moving[m].bill = i /\ Balance(moving[m].seen) > 0]_billingVars
=============================================================================
