# EduOS backend: TLA+ models and proofs

EduOS is the backend of a school and college management system: Django 5, Django
REST framework, Celery and PostgreSQL, about sixteen apps under `src/apps/`.
This directory holds TLA+ modules of its core, TLC configurations that check them
on small instances, and TLAPS proofs of the theorems that matter most for
instances of every size. `PROJECT.json` indexes all of it: the parts of the
system, the runs, which source lines each definition translates, the hazards and
the findings.

    tlc -workers 2 -config FeeCaptures.cfg MCFeePayments      # a run
    tlapm FeePayments_proofs.tla                              # the proofs of a module

## 1. How the program executes

Every HTTP request is one database transaction (`ATOMIC_REQUESTS = True`,
`config/settings/base.py:131`) at PostgreSQL's default level, READ COMMITTED: a
statement sees what was committed before it started, plus the writes of its own
transaction. Views call *interactors* (the business rules), which call *queries*
(the ORM). Rows are protected by `select_for_update`, by an `UPDATE`, by a unique
column or not at all. Celery tasks run in other processes, by default outside any
transaction, so that each of their statements commits by itself. The payment
gateway is called in the middle of transactions.

The hard behaviours follow from that: requests that overlap, values read before a
lock is taken and written back after, calls to the gateway that a rollback does not
undo, webhooks that come late, twice or never, tasks that treat rows they listed
earlier.

All models use the same reading of it. A *session* runs one request at a time. What
a request has read is in `txn[session]`; its writes reach the tables in its last
step, the commit; `Abort` (exception, crash, deadlock victim) is possible at every
step. A step ends where another transaction could make a difference: before a lock
that has to be waited for, and between a read and the use of what was read. A lock is
held from the step that takes it to the end of the request; a request that waits
for a lock is one whose next action is disabled.

## 2. Inventory

| Part | State | Operations | What is hard | What makes it correct |
|---|---|---|---|---|
| **Fees: payments** (`fees/interactors/payment.py, refund.py, credit_note.py, write_off.py, promotion_carry_forward.py, reconciliation.py`, `queries/`) | invoice, installments, payment, receipt and its counter, refund, credit note, webhook log | order, client verification, webhook, counter payment, refund request and approval, credit note, write-off, carry-forward, reconciliation | several callers capture one payment; stale writes of absolute amounts; the gateway is outside the transaction | receipts are gap free; money is credited once; refunds stay within the payment; invoice and installments agree; captured money is receipted in the end |
| **Fees: billing** (`structure.py, assignment.py, invoice.py, concession.py`, `services/concession_sync.py`) | fee structures, assignments, concessions, invoices as issued | assignment, batch generation, granting, editing and revoking a concession, synchronisation of an open invoice | rounding of discounts over installments; concessions read before the assignment is waited for; invoices that are being paid while their total changes | installments add up to the invoice; the status tells what is paid; a rule is taken off once; what is settled keeps its total |
| Fees: reports, portal, defaulters | none | reads, CSV | – | – |
| Gateway adapter (`fees/services/gateway`) | the gateway's record of a payment | order, fetch, refund | outside the transaction | see fees |
| **Organizations: licences** (`organizations/billing/license_allocator.py, billing_refresh.py`) | one licence row per student, licence payments, one row of counters, storage limit | allocation on enrolment (two ways), licence payment, refresh, deletion of a student, deactivation, change of academic status | who takes a licence is decided by counters that several requests rewrite; a queue read with SKIP LOCKED | counters agree with rows; nobody gets more than was bought; a licence is never taken back |
| Organizations: subscription periods and renewal | subscription period, licence invoice | ensure, extend, renewal and expiry pipelines | check then create; stages by date | one active period; a period is billed once |
| Organizations: AI credits | usage counter | reserve, adjust | check without a lock | usage equals what was spent |
| Organizations: tenants, branches, plans, flags | rows | create, suspend, restore | – | a suspended tenant is shut out |
| **Academics: promotion** (`promotion*.py, rollover.py, year_transition.py`) | promotion session (three status columns), decisions, runs, logs | start, override, approve, reopen, prepare, validate, lock, unlock, execute, resume | a Celery task that commits statement by statement, resumed while it runs | executions of a branch do not overlap; nobody loses his place; nobody is billed twice |
| Academics: timetable, curriculum, calendar, structure | rows | create, update | slots of one teacher or room | no overlap |
| Accounts (`tokens.py, auth.py, mfa.py, password.py, invite.py`) | users, refresh-token families, challenges, invites | sign-in, rotation, revocation | rotation twice at once | a family dies when a token is reused |
| **Admissions** (`application.py, merit_list.py, enrollment.py, imports/`) | applications, waitlist, accounts, active enrolments, import jobs | convert, advance, reject, list, promote, enrol, transfer; validate, post and run an import | rows loaded without a lock and written later; ranks closed under a unique constraint; a worker told before the commit, that may die | one student per number; one enrolment per student and year; who waits is listed, in order; the report names the rows that failed |
| **Examinations: marks and results** (`result.py, marks.py`) | marks, publications, results, report cards, the token in the cache | save, edit, submit, grace; compute, publish, revise | stale saves; cache and store that do not roll back; publication and revision at once | publications are one chain; results are those of the current one; a submitted mark stays submitted |
| **Examinations: schedule, registration, seating, invigilators** (`exam.py, registration.py, seating.py, seating_session.py, invigilator.py`) | slots, registrations with their invoices, seats, duties | create, move, share and delete a slot; register a class; seat one slot, several, or a hall; add, replace, remove, assign invigilators | everything is checked first and written later, without locks; what hangs on a slot does not follow when it moves | no class has two papers at once; a slot has its invigilators and not more; everybody sits once, while there are seats; the fee is billed once |
| Examinations: assignments, hall tickets, grade scales | rows, stored tickets | create, update | – | – |
| **Attendance** (`marking.py, correction.py, leave.py, live_board.py`) | session, records, audits, leave requests, the cached board | open, mark, save, correct, apply, review; poll | two first marks of one student; a cache dropped before the commit | a late or flagged mark has its audit and an audit its record; the board shows the register in the end |
| HR (`leave.py, payroll.py`) | balances, requests, payslips | approve, run payroll | balance read before it is written | days used stay within the allowance |
| **Gallery and storage quota** (`image.py, album.py, tasks.py`, `organizations/billing/storage_quota.py`) | images, albums, object storage, the byte counter | presign, confirm, process, retry, move, rename, delete, purge, audit | storage and database cannot commit together; tasks that repeat, overlap and die; an audit that overwrites | no upload is lost unasked; the bytes charged agree with what is shown in the end |
| Analytics (`report.py, tasks.py`) | export jobs | request, run, purge | job and purge overlap | a finished job has its file |
| Communications, grievances, coursework, student analysis | rows, notifications | create, read | – | – |
| Core: middleware, permissions, exports | none of its own | – | – | – |
| Integrations (circuit breaker, outbox) | – | – | the files are empty at this commit | – |

Interactions: enrolment (admissions) and `create_user` (accounts) call the licence
allocator; promotion ends a student's studies, which the allocator reads when it
refreshes, and carries the balances of fees forward; the gallery moves the
storage usage whose limit the licences set; every request of fees and licences may
meet every other one at the rows they share.

Parts in bold are modelled now; section 3 has the plan for the others.

## 3. Modules and plan

| Module | Role | State |
|---|---|---|
| `FeeLedger` | arithmetic of one invoice and its installments (no state) | done |
| `FeeBilling` | assignment, concessions, billing of a batch, and what the four operations of the ledger then do to the bills | done, TLC and TLAPS |
| `InvoiceLedger` | abstract specification of the invoices | done |
| `FeePayments` | the requests that move money, concurrently | done, TLC and TLAPS |
| `FeeRefinement` | `FeePayments` implements `InvoiceLedger` | done, TLC and TLAPS |
| `FeePayments_proofs` | theorems about `FeePayments`, the refinement among them, and `FeeBilling` | done |
| `LicenseAllocator`, `LicenseAllocator_proofs` | enrolments, payments, refreshes, deletions | done, TLC and TLAPS |
| `Promotion`, `Promotion_proofs` | promotion session: review, preparation, execution by a task, resumption | done, TLC and TLAPS |
| `Admissions`, `Admissions_proofs` | pipeline, waitlist, enrolment, transfer, import by a worker | done, TLC and TLAPS |
| `ExamResults`, `ExamResults_proofs` | marks, confirmation, publication, revision | done, TLC and TLAPS |
| `ExamHall`, `ExamHall_proofs` | schedule, registration, seating and invigilators of an exam | done, TLC and TLAPS |
| `ClassRegister`, `ClassRegister_proofs` | attendance of a class on a day, and its board | done, TLC and TLAPS |
| `Gallery`, `Gallery_proofs` | albums and images, their objects in storage, the processing tasks, purge and audit | done, TLC and TLAPS |
| `SubscriptionPeriods` | periods, renewal invoices, expiry | planned |
| `TokenFamilies` | refresh-token rotation | planned |
| `LeaveBalances` | HR leave | planned |

The order is by what an error costs: money first, then licences (what the vendor
sells), then the promotion of a whole year, admissions, results, attendance and files,
then the rest. Every property the runs check is proved, liveness apart
(`CapturedIsReceipted`, `BoardCatchesUp`, `UsageCatchesUp`).

Composition: `FeeBilling` and `FeePayments` extend `FeeLedger`; `FeePayments` is mapped
to `InvoiceLedger` by `FeeRefinement`; the carry-forward of `FeePayments` is what the
step "fees" of `Promotion` starts; the invoices `ExamHall` makes are paid there like any
other; the enrolments of `Admissions` are those whose
licences `LicenseAllocator` allocates and which `Promotion` moves; `LicenseAllocator`
shares only the student rows with them, through the set `busy`; the `Limit` of
`Gallery` is the storage limit that `LicenseAllocator` computes. Each `MC` module
extends one module and gives its constants values, each `_proofs` module extends the
modules it has theorems about.

## 4. Fees

### 4.1 What the modules say

`FeeLedger` translates the helpers of `queries/invoice.py` as functions of an
invoice (`head`) and its installments (`rows`). The three loops that spread an
amount over installments are one recursive function, `Remaining` (what is left after so
many rows), from which `Taken` reads what each row gets, forwards or backwards.

`InvoiceLedger` composes them into the four atomic operations an invoice has:
apply an amount, reverse one, cut the total by a credit note, write off, each on one
invoice and its installments together. It is the abstract specification `FeePayments` is
compared with: `FeeRefinement` reads the three money columns of the invoices as its
`head` and the installments as its `rows`.

`FeeBilling` is where bills come from. It has one student and one published structure:
his assignment (`plan`), his concessions (`conc`), the invoices of the assignment
(`bills`) and the requests (`running`).

| Code | Actions |
|---|---|
| `StudentFeeAssignmentView.post` | `BeginAssign`, `Insert`, then the rebuilding |
| `GenerateInvoicesInteractor` | `BeginGenerate`, `Insert`, `Look`, then the rebuilding when the student has a concession; `Count`, `Create` |
| granting, revoking, editing a concession | `BeginApply`, `BeginRevoke`, `BeginEdit`, then the rebuilding |
| `rebuild_assignment_discounts`, `sync_open_invoice_with_assignment` | `Rebuild` or `NothingToRebuild`, `Write`, `Sync` |
| a payment at the counter, which locks the invoice before it reads it | `PayAtCounter` |
| online capture, refund, credit note, write-off, which do not | `ReadToCapture`, `ReadToRefund`, `ReadToCut`, `ReadToWriteOff`, then `Capture`, `Refund`, `ApproveCreditNote`, `WriteOffInvoice`, or `GiveUpMove` |

What a request of the last kind has read is kept in `moving`. When it saves, it writes
`paid_paise` or the total as computed from that reading, and the status that goes with it,
and leaves the third column alone (`SavePaid`, `SaveTotal` of `FeeLedger`); the
installments it reads after that, under the row lock of its own UPDATE.

Its invariants are what everybody relies on who reads an invoice: the status tells the
truth about the amounts, installments add up to the invoice, older installments fill
first, a rule is taken off once, what is settled keeps its total. Not all of that survives
a save of something overtaken, and two history variables of each bill say how much does.
`strayed`: its amounts have left those of its installments behind, because a concession
raised its total or cut it below what is paid, or because a request saved what it had
computed from amounts that were no longer the invoice's (findings 1, 13 and 15).
`crossed`: what was saved *last* took one of the two amounts from before a change of the
other; then, and only then, the status of the invoice may be wrong (finding 15). Two
payments that overlap lose an amount on the invoice but leave a status that fits what is
written. The installments are always right by themselves. And of all these
requests only a credit note can change the total of a settled invoice (finding 16), which
is how `SettledKeepsTotal` states it.

`FeePayments` has the tables (`invoice`, `inst`, `payment`, `receipt`, `counter`,
`refund`, `note`, `logged`, `opening`), the gateway's side (`gateway`, `repaid`, both
external), the requests (`txn`) and the list of the reconciliation job (`listing`).

| Code | Actions |
|---|---|
| `CreateOrderInteractor` | `CreateOrder` |
| customer at the gateway (external) | `CustomerPays` (failed attempts leave the order open) |
| client verification and `payment.captured` webhook | `BeginVerify`, `FetchRefused`, `FetchConfirmed`, `CreditInvoice`, `TakeNumber`, `CommitCapture`; `RowRefused` when a unique column refuses the payment or its receipt; `WebhookAfterCapture` when there is nothing left to do |
| `OfflinePaymentInteractor` | `BeginOffline`, then the same steps |
| `RequestRefundInteractor` | `RequestRefund` |
| `ApproveRefundInteractor` | `BeginApprove`, `RefundAtGateway` or `RefundByHand`, `ReverseInvoice`, `CommitRefund` |
| credit notes, write-off | `CreateNote`, `RejectNote`, `BeginNote`, `CommitNote`; `BeginWriteOff`, `CommitWriteOff` |
| `promotion_carry_forward.py` | `BeginCarry` (sum), `BillOpening`, `MarkCarried`: the promotion task has no transaction around them |
| `reconciliation.py` | `ReconcileScan`, `ReconcileStep`, `ReconcileStops` |

Choices worth knowing:

- The gateway's "captured" stands for *captured* and *authorized*: the code treats
  both as money received.
- The client names the payment, the order and the gateway payment each by itself, and only
  the last two are tied to each other, by the signature. So `BeginVerify` takes the payment
  `p` it captures and the gateway payment `q` it is proved by as two inputs, also when `p`
  was not placed through the gateway; the webhook finds `p` by the order, so there they
  agree. What stands between one gateway payment and two receipts is that
  `razorpay_payment_id` is unique (`Unused`, and `UnclaimedId` while another request is
  writing it). That the order or the amount agree is not checked (finding 17); a refund
  through the gateway is bounded by what the gateway holds of `gateway_id`.
- A request that the code refuses and rolls back (bad signature, gateway down while
  an order is made) changes nothing and is no action.
- The branch of the reconciliation job that polls the gateway is not an action,
  because it cannot run: no pending payment has a gateway id. That is proved
  (`JobNeverPolls`), not assumed. The HTTP endpoint runs the same loop in one
  transaction; the model has the Celery task, whose statements interleave more.
- The webhook log is read before the payment is locked; a repeated event is refused
  by its unique id, so reading it early makes no difference.
- A foreign key makes PostgreSQL take a weak lock on the row it points to. The
  model leaves these out, which only adds interleavings.
- Generic `PUT` and `DELETE` of a refund, receipt PDFs and notifications are left out.

### 4.2 Runs

| Run | Bounds | What it asks |
|---|---|---|
| `FeeBilling` | 2 concessions of one rule worth 2, installments of 2 and 1, 2 requests, 1 request that moves money and the counter, 1 invoice, refunds of 1 | concessions, billing and payments in any order, on an invoice that changes under them |
| `FeeCaptures` | 2 sessions, 2 invoices of 2 with a payment of 1 or 2 each | captures that overlap: client, webhook, counter, job, each proved by either order's money; money the gateway holds is receipted |
| `FeeRefunds` | 2 sessions, 1 invoice, 2 payments, 1 refund request each and the automatic one, amounts 1 and 2 | captures against refunds; an overpayment occurs |
| `FeeSerial` | 1 session, 2 payments, a request, a note | without overlap the requests implement `InvoiceLedger`, and money moves exactly |

Why these are enough: a race needs two requests, and every lock here is a mutex over
one row, so a third request meets the same two situations (row free, row taken).
In `FeeCaptures` the two payments are on different invoices and so share only the
receipt counter and the ids of the gateway; in `FeeRefunds` they share the invoice. Two installments of 1 make "partly paid", "paid" and
"overpaid" all reachable with amounts 1 to 3. In `FeeBilling` the rule takes 2 of 3 off,
more than the second installment and less than both, so that the first one's share rounds
down and the direction of each loop shows (that the last installment is too small for the
rest takes three, and is left to the proof); counted twice, or after a credit note, it leaves less than nothing; and two
concessions of the rule can be granted at once. One request that reads and saves later is
enough for every overlap of two, because concessions, batches and the counter change the
invoice in between; two of them, two rules worth 1 and 3, and two invoices were run
during development. Sessions and payments are symmetric
where nothing chooses among them, except in `FeeCaptures`, which has a liveness
property. The carry-forward meets captures in `FeeSerial` only; how it goes wrong when
they overlap is findings 6 and 7.
`CHECK_DEADLOCK FALSE`, since an instance ends when its finitely many payments are
used up.

Fairness (`FairSpec`). The gateway sends an event until it is answered with 200
(`views/v1/views.py:540`): strong fairness of the webhook of each payment, strong because
others hold the row again and again. Exceptions and crashes strike the handling of one
event finitely often (`Struck`). And a request under way goes on: strong fairness where it
waits for a row, weak fairness of its commit and of its end at a unique column. Nothing is
assumed of clients, staff or the job; the job may fail the payment any number of times
first, and a client may prove it with the money of the other order. Then the event of that
order finds no receipt to make for it: `CapturedIsReceipted` says that for money the
gateway keeps there comes to be a receipt, of the payment it was used for, or of its own
payment, which the money of another order has paid meanwhile.

`InvoicesAreLedgers` and `PaidMovesWithMoney` hold for one session only. With two, TLC
finds a credit that is lost on the invoice (finding 1); `PaidWithinReceipts` (in
`FeeRefunds`) says what is left of it when requests overlap. For the same reason
`CreditedOnce` does not say that the step which issues a receipt adds what that payment
applies: a request that read the invoice before somebody's stale write undid a credit puts
that credit back with its own. What holds is that an invoice gains in no other step and
never beyond its receipts.

### 4.3 Proofs (`FeePayments_proofs`)

Of `FeePayments`, for any number of sessions, invoices, payments, requests and notes,
all amounts, and any set of operations, from `ConstantsAssumption` alone:

`OfflineCarriedApart`, `ReceiptsArePermanent` and `JobNeverPolls` are properties no run
needs to check any more.

- `TypeCorrect`. `TypeOK` is not inductive: a request that holds no invoice object
  would subtract from nothing. `Typed` adds `RequestOK`, which says for each program
  counter which fields of the request are filled and that a refund or note at hand
  names rows of the right kind.
- `ReceiptsAreGapFree`, `ReceiptsArePermanent`. `Numbered` adds that receipts take
  values in `1..counter` injectively and that at most one request is between taking
  a number and committing, with the number `counter + 1` in hand.
- `OfflineCarriedApart`. `CounterHolds`: while a counter payment is between its
  lock and its commit, the invoice it checked stays collectible and nobody else holds
  it. (The online path does not have this; see the findings.)
- `JobNeverPolls`, by listing who writes a payment's status and gateway id.
- `ReceiptsHaveMoney`: the money behind a receipt is some gateway payment the school has
  or had, and no other receipt rests on it. That it is the money of the payment's own order,
  or as much of it, is not claimed: the code does not see to that (finding 17). `Backed`
  has four parts. `BlankRows`: a payment nobody created has no id and no receipt.
  `IdsBacked`: a gateway id that a row bears, or that a capture past `FetchConfirmed` is
  about to write, is of money the gateway has or had, which only goes on from "captured" to
  "refunded". `IdsUnique`: no two rows bear one id, and no request past its check holds
  one that another row bears or another such request holds. `IdsThere`: an online
  receipt's payment bears an id.

- `RefundsNeverExceedPayment`, `RefundedExactlyWhenCovered`. `Money` is the invariant.
  `RowsOK`: no amount is zero; who is captured or refunded has a receipt, and only who has
  one has refunds. `Approvals`: a request that approves a refund holds one that is still
  "requested" and that nobody else holds, and the one about to commit has the invoice
  locked, so that its sum over the processed refunds is still right. `BoundsStep` and
  `RefundedStep` follow the sum of a payment through the three requests that write
  refunds.
- `InstallmentsStayTyped`: whatever is spread over the installments, they remain rows of
  amounts that are not negative. (`TypeOK` leaves `inst` to this theorem.)

Under conditions on the operations, which the code does need:

- `PaidNeverExceedsReceipts`, for instances without write-offs: a write-off counts the
  invoice as paid without any money. `PaidInBounds` says of every request that will
  write an invoice that what it has read is within the receipts issued since, too: they
  only become more.
- `CapturesCreditOnce`, for instances in which neither refunds are approved nor anything
  is written off, as in `FeeCaptures`: the write of a refund is absolute too and may put
  back what another one took.
- `PaidFollowsMoney` and `RequestsKeepLedger` (the refinement), for one request at a time
  (`OneRequest`), on any number of invoices and payments, without the approval of
  automatic refunds, which takes from the invoice what it never got (finding 2). `Serial`
  is the invariant: a request that is going to write an invoice has read it as it still
  is (`UpToDate`); what counts as paid is within the total and covers the money that is
  kept (`KeptIsPaid`), so that no refund is cut off at zero. `LedgerStep` then maps each
  of the four commits to an operation of the ledger, or, where there is nothing to apply,
  and for every other step, to a stutter.

The sums over refunds and payments are folds, and what is left along the installments is
a recursive function. Both are reasoned about without an induction theorem that takes an
operator: `SetInduction` is well-founded induction over the subsets of a finite set,
stated for a set of good subsets, and `Climb` applies it to the numbers of the rows.
`AmountOfMore`, `AmountOfSame`, `AmountOfPart` and `AmountOfUnion` are what the other
proofs use of a sum, `TakenType` and `SpreadNothing` what they use of the loops. Sums need
finite sets: `ConstantsAssumption` says that the rows of a table are finitely many.

Of `FeeBilling`, for any structure, any concessions, rules and discounts, and any number
of requests and invoices, all five properties of its run are proved: `RulesCountOnce`,
`StatusSaysWhatIsPaid`, `InstallmentsAddUp`, `OldestInstallmentFirst` and
`SettledTotalStays`. They need no more of the constants than the three assumptions of the
module: amounts are natural numbers, the structure has an installment, and there are
finitely many concessions, each worth something.

- `RulesCountOnce`. `RuleOffOnce` is about the assignment, but what a request writes there
  it has chosen steps before. `RulesRight` says what requests carry: what is about to be
  written has one concession of each rule; a batch that has found nothing to rebuild
  carries what it collected when it began, of which at most one concession of a rule is
  still active; a concession that is being granted is in nobody else's hands and in no
  assignment, so the grant cannot make a forgotten one count (`LaterRules`).
- The other four are one invariant, `BillsFine`: the status of a head fits its amounts or
  it is written off in full (`HeadFine`, unless the bill is crossed), the installments are
  in order (`RowsFine`) and, unless the bill has strayed, add up to it (`AddsUp`). Of the
  requests that save later, any number of them, `MovingFine` says that the bill they read
  exists, that they read amounts of it, and that what they take is within what they read;
  that the status they read fits is not needed, since each computes a new one. Here the proof says what the loops
  compute. `TakenFull` and `NewestFull`: they hand out the whole amount when there is room
  for it; `TakenInOrder` and `NewestInOrder`: a row gets something only when those before
  it got all they could. `CreditFine`, `DebitFine`, `CutFine` and `WriteOffFine` turn that
  into sums of columns. `RowsFine` holds of strayed bills as well.
- `InstallmentsAre` is the arithmetic of a discount shared out in proportion: the shares
  rounded down come to no more than the discount (`SharesAre`, by cross-multiplication
  along the installments), so the last installment takes what is left, and all together
  come to the price less the discount whenever that fits into the last one
  (`SplitsExactly`). Where it does not, installments would come to more than the invoice,
  and the bill is strayed from the start.

Left to TLC: `CapturedIsReceipted`, which is liveness.

## 5. Licences

### 5.1 What the module says

Each student has a licence row; the school has licence payments and one row of
counters (`purchased`, `consumed`, `unlicensed`), on which the decision "licensed or
not" rests. `LicenseAllocator` models the two ways to enrol (`Enroll`, then
`AllocateAndCommit`, or `AllocateAndHold` and a refresh), licence payments
(`RecordPayment`, `CountPayment`, `RefreshAndCommit`), the refresh after a change of
price or plan, which holds no lock while it counts (`Reprice`, three counts, `SaveCounts`),
deletion (`Delete`, `Decrement`, `Unlink`), the switch of an account and of a
student's academic status.

- Students are numbered in the order of `enrolled_at`; that is a choice of names.
- `FOR UPDATE SKIP LOCKED` over the join of licence and user rows passes over every
  student whose rows any transaction, of whatever app, has locked: `busy` is an arbitrary set.
- `PositiveIntegerField` is a check of the database: a statement that would go
  below zero fails. It is the guard of `CountPayment` and `Decrement`.
- Amounts of money are a counter times a unit price and are left out; what is kept
  of a refresh is the counters and the storage limit.

### 5.2 Runs

| Run | Bounds | What it asks |
|---|---|---|
| `Licences` | 2 sessions, 2 students on 2 campuses, 2 payments of up to 2 licences; every operation | a payment converts no more than it grants; counters agree with rows and nothing is oversold, up to what an unlocked refresh overwrites |

A payment of one licence is one short of the two students, so that the queue has an
order; two payments can compete for it. (Three students with payments of one licence,
4.3 million states, are a development run that says the same.) 600 MB a licence makes rounding up show: one
licence needs 1 GB, two need 2 and three still 2.

### 5.3 Proofs (`LicenseAllocator_proofs`)

For any number of sessions and students, any finite set of payments and any grants
(`StorageFollows` and `LicenceWrittenOnce` are checked by proof only):

- `TypeCorrect`: every counter is a natural number. `Typed` adds, to the shape of
  requests, that one request holds the summary (`OneHolder`) and that the counter is
  above zero as long as a deletion holds it to subtract from it (`Decrementable`).
- `StorageFollows`: the limit is that of the seats. An enrolment through admissions
  leaves the limit alone; the proof shows it can, since it consumes only below
  `purchased`.
- `LicenceWrittenOnce`. `Separate`: the students that are being enrolled are new, each
  request's own and not queued; the rows of two payments under way are disjoint; so are
  their keys.
- `ConvertedWithin`. `OldestBounded` is the counting lemma: the students of a set who
  have fewer than `count` predecessors in it are at most `count`, by the injection that
  sends each to the number of its predecessors.
- `CountersMatch`, `NoOverselling`. The unlocked refresh can write counters that
  were overtaken (finding 18), so what holds is relative to it: the history variable
  `overwritten` is "never" until such a refresh has saved, "now" from then to the next
  refresh that holds the row, and "repaired" after it. The counters match the rows
  whenever it is not "now"; while it is "never", nothing is oversold. `Balanced` is
  the invariant: the counters match the rows, and for each request that holds the
  summary there is capacity for what it will write.

## 6. Promotion

### 6.1 What the module says

A branch moves its students to the next academic year in three stages. *Review*
decides what happens to each student. *Preparation* finds each one who moves a section
and a fee structure, is validated, and is locked with a fingerprint of what it rests
on. *Execution* is a Celery task that treats the ready students one after the other
and then turns the year. The session row has one status column for each.

| Code | Actions |
|---|---|
| `start_promotion`, `override_decision`, `approve_promotion`, `reopen_promotion_review` | `StartPromotion`; `BeginOverride`, `CommitOverride`; `BeginApprove`, `CommitApprove`; `BeginReopen`, `CommitReopen` |
| `start_preparation`, `update_class_mappings` | `BeginPrepare`, `BeginMapClasses`, `CommitSections` |
| `update_section_mappings` | `BeginPlace`, `CommitPlace` |
| `run_validation`; `lock_preparation`, `unlock_preparation` | `BeginValidate`, `CommitValidate`; `BeginLock`, `CommitLock`; `BeginUnlock`, `CommitUnlock` |
| `check_and_apply_staleness` (on each visit) | `BeginInvalidate`, `CommitInvalidate` |
| `start_execution`: checks under the locks, message, commit | `BeginStart`, `SendTask`, `CommitStart` |
| `resume_execution` | `Resume` |
| exception, crash or deadlock in a request | `Abort` |
| `execute_promotion_task` and `run_execution` | `TaskBegin` or `RunNotFound`; for each student `NextStudent`, then `SkipStudent` or `FindSource`, `CreateTarget`, `LeaveSource`, `SettleProfile`, `AssignFees`, `CountStudent`, `LogSuccess`, `Notify`; at the end `FlipYear`, `FlipRaises` or `NoFlip`, then `EndRun`, `EndSession` |
| a statement for a student raises; the handler raises too | `Raise`, `LogFailure`, `CountFailure`; `FailRun`, `FailSession` |
| the worker dies | `Crash` |
| `transfer_enrollment`, `update_fee_structure` | `TransferStudent`, `EditFees` |

Choices worth knowing:

- The task runs in a worker, outside any transaction. `transaction.savepoint()` does
  nothing there, so that each statement commits by itself and is an action; `Raise`
  leaves what was written. (In the tests the task runs inside the request.)
- One branch, since the lock of the branch row is the widest one taken; the sessions
  are those of its years.
- The lock of the branch row is `FOR UPDATE`, and an `INSERT` of an enrollment refers
  to the branch: it waits (`BranchFree` in `CreateTarget`, `TransferStudent`), as
  does the `UPDATE` of a session that somebody is starting (`SessionFree`).
- `placed` folds two things into one: the student has a section in the target year, and
  a published fee structure exists for it. Both depend on data of the branch, which is
  left open. Recommendations are likewise any of the actions.
- The fingerprint is what `compare_fingerprints` looks at, not what
  `build_fingerprint` records.
- Fees: an execution adds one assignment per student and target year; what the opening
  balance does is in `FeePayments` (`BeginCarry`).
- `max_retries = 0`: a message is delivered once. A task may be delayed for any time.

### 6.2 Runs

| Run | Bounds | What it asks |
|---|---|---|
| `PromotionTasks` | sessions of two successive years, 1 student, 1 request at a time, 3 messages, 3 runs; resume, raise, crash, transfer, abort; "promote" and "withdrawn" | what still holds of the student, his fees, the log and the year when tasks meet, fail, die and are resumed |
| `PromotionRequests` | 1 session, 1 student, 2 requests at a time, 2 messages, 2 runs, 1 edit of fees; "promote", "graduate" and "pending" | whether a start still rests on a locked preparation, and is alone, when requests race each other, another start and the task |

Three messages: two tasks can meet on one run while a third carries out the next
year's session, or takes up what both left. A task treats students one at a time, and
two tasks interfere at a student only through his own rows, so one student has every
interleaving of statements; what several students add (the counters, the order, some
failing and some not) was checked with two students, one session and two messages
during development, an instance too large to keep as a run. Two requests are enough,
because a request reads once and writes once. `CHECK_DEADLOCK FALSE`: messages and
runs are used up. No fairness is assumed and no liveness is claimed: finding 27
is a session that runs for good.

Some properties carry the condition that no other session of the branch has been
started (`OnlyStarted`). It is necessary: two tasks of one run that have both
found the source enrollment may be a year apart, and the late one then creates an
enrollment for a year that is over; the next session's tasks meet it.

### 6.3 Proofs (`Promotion_proofs`)

For any number of sessions, students, requests and tasks, any actions, bounds and
faults:

- `TypeCorrect`. `TypeOK` is not inductive: a validation writes back the preparation
  status it has read, a task writes counters it keeps in memory. `TxnOK` and `TaskOK`
  say what a request and a task that has begun carry; `RunsOK` gives runs and logs
  their shape. Messages may name a run that does not exist.
- `ExecutionsDoNotOverlap`. `OneRunning` is not inductive either: two starts that have
  both seen that nobody runs would break it. `StartAlone` says that while one is past
  its check nobody else is, and nobody runs; the lock of the branch row keeps it, and a
  task can only end an execution, never begin one.
- `StartsAreAlone`: so, when one commits, nobody runs, whatever other starts there are
  (`StartsAlone`, which `PromotionRequests` checks with two of them at once).
- `StartsOnLocked`, from `StartLocked`: what a start checked of its session stays true
  until it commits. The proof shows, commit by commit, that whoever writes the session
  or its decisions either waits for the row (`SessionFree`) or, as `CommitPlace`,
  `CommitOverride` and the first sectioning, does not write these columns or waits for
  them.
- `PartialIsDead`: `"partial"` is written nowhere, since the branch that would do it
  needs somebody moved and nobody moved at once.

- `LogIsTrue`, `StudentsBilledOnce`, `NobodyFallsOut`: what tasks make of the students,
  however many handle one run, fail between two statements, die and are sent again, as
  long as only one session of the branch has been started. `Plans` says that a task has
  an action for each student it still has to treat, and is at a statement that goes with
  the action of the one it is treating.
  `Travels` follows each task from step to step: past `LeaveSource` the student is out of
  the source year (`LeftSource`); between `CreateTarget` and `AssignFees` he is enrolled in
  the target year and not yet billed (`HasTarget`), and only one task is there with him
  (`OneOwes`), because the unique active enrollment lets one `CreateTarget` through.
- `StartsInTime`: the year does not turn under a start (`StartInTime`). It may well have
  been turned, and the session executed, before. That no run follows one that succeeded is
  false: a resumed task that finds nobody left and does not turn the year ends its run
  "succeeded", and a second task of the run can then fail the session, which may be
  started again. What protects the students is that the source year must still be current.

## 7. Admissions

### 7.1 What the module says

`Admissions` has the enquiries of one course with their applications (`status`), the
waitlist (`rank`), the student accounts (`student`), the active enrolments (`place`), the
requests (`req`), and the import job with the worker that runs it (`job`, `worker`).

| Code | Actions |
|---|---|
| conversion of an enquiry, pipeline step, rejection, waitlisting, promotion: what each loads | `Load` |
| the same, when they write | `Convert`, `Decide`, `List`, `Promote` |
| enrolment of an accepted application; transfer | `LoadEnrol`, `Enrol`; `LoadTransfer`, `Transfer` |
| import: validation, posting, commit | `Validate`, `Post` (which also sends the message), `CommitPost` |
| `run_student_import` | `Begin`, for each row `CreateRow`, `UpdateRow` or `FailRow`, then `Finish` |
| exception, rollback; the worker dies | `Rollback`; `Crash` |

- No request of this app locks what it loads, so every request is two steps; what stops
  a second writer is a unique constraint, which is the guard of the second step.
- The UPDATE that closes the ranks behind a promoted entry may fail, depending on the
  order in which the database visits the rows (finding 37). That is `Rollback`.
- Deleting a row that another request has loaded leaves that one with a row that is no
  longer there (`live`): its `delete()` then does nothing.
- An account records what it was made from (`application`, `row`). The program keeps
  this in its log only; the properties need it.

### 7.2 Run

`Admissions`: 2 applications, 2 admission numbers, the years 2024 and 2025, one file
that names both numbers, 2 requests at a time, ranks 1 and 2, every operation and
crashes. Applications are enrolled with one number in one year, so that two of them
collide; the file brings the other number and the next year, so that an import meets an
enrolment, a transfer and itself. Two applications are the fewest with an order on the
waitlist, two requests the fewest that race, and a request loads once and writes once.
`CHECK_DEADLOCK FALSE`: everybody may be enrolled or rejected.

### 7.3 Proofs (`Admissions_proofs`)

For any sets of applications, numbers and years, any files, any number of requests and
all ranks, the types and every property of the run are proved: `Types`, `NumbersUnique`, `Placed`,
`Listed`, `ReportsExactly` and `OrderKept`. Their invariant adds three facts to the
properties. `PostedAlone`: while a request has posted a job and not committed, the job
is only posted, and no other request has posted one. `NotBegun`: before the worker
begins, no account was made from a row. `Progress`: while it is at a row, no account
was made from that row or one after it, and of the rows before it those that failed are
the ones without an account.

## 8. Examinations

### 8.1 What the module says

`ExamResults` has one exam: the marks entry of each student (`marks`), the flags of the
exam (`exam`), the chain of publications (`pubs`), what each student is shown (`result`),
the report cards in the object store (`card`), the confirmation token in the cache
(`token`), and the requests (`txn`).

| Code | Actions |
|---|---|
| `bulk_save_draft_marks`, with an administrator's override | `BeginSave`, `CommitSave` |
| `patch_marks_entry`, which compares versions | `BeginPatch`, `CommitPatch` |
| `submit_slot_marks`; `apply_grace_marks` | `Submit`; `BeginGrace`, `ReadGrace`, `CommitGrace` |
| `compute_results` | `BeginCompute`, `ComputeRead`, `ComputeCache`, `CommitCompute` |
| `publish_results` | `BeginPublish`, `PublishLock`, `PublishRead`, `PublishInsert`, `StoreCard`, `CommitPublish` |
| `revise_results` | `BeginRevise`, `ReviseRead`, `ReviseInsert`, `StoreCard`, `CommitRevise` |
| the token runs out; a deadlock of publisher and reviser; a failure | `Expire`; `Deadlock`; `Fail` |

- A student stands for a student in a subject; totals, percentages and grades are
  functions of the marks. The hash of a snapshot is the snapshot.
- Cache and store are written at once and do not roll back: `ComputeCache` and
  `StoreCard` are steps of their own, and `Fail` leaves what they wrote. A token whose
  computation failed was told to nobody.
- A publication inserted and not committed makes the unique index on the current one
  wait (`IndexFree`).

### 8.2 Run

`ExamResults`: 2 students, 2 marks, grace 0 or 1, 2 requests at a time, versions to 2, 2
publications, every operation. Two students make a snapshot in which one is missing or
has changed; two publications are one revision and the chain's only step; versions to 2
make a stale save. `CHECK_DEADLOCK FALSE`: when both publications are made and all marks
locked, nothing may be left to do.

### 8.3 Proofs (`ExamResults_proofs`)

For any finite set of students, any marks, requests, bounds and operations: `Types`,
`Linear`, `Shows`, `NeverBack`. The invariant adds to the properties that a save of an
entry that was read, and a grant of grace marks, find the entry (`Existing`); that
whoever is in a snapshot, be it in the cache, in a request or in a publication, is still
submitted or locked (`Covered`); that a revision starts from a publication that exists,
and what it reads covers that publication's students (`Based`); and that who stores
cards is alone, a first publisher with no publication before it, a reviser on top of the
latest (`Alone`). `Covered` rests on marks never going back, and `ResultsOfCurrent` on
`Based`: no student drops out from one revision to the next.

### 8.4 The exam hall: what the module says (`ExamHall`)

One exam and its branch. `slot` is `ExamScheduleSlot` by id, with the columns the
requests decide on; `registered` and `invoices` are who is registered and how often he
has been billed; `seats` and `duties` are the rows of `Seating` and the active rows of
`InvigilatorDuty`.

| Code | Actions |
|---|---|
| `create_schedule_slot`, `update_schedule_slot`, `delete_schedule_slot` | `CreateSlot`, `UpdateSlot`, `DeleteSlot` |
| `create_seating_session` | `ShareHall` |
| `bulk_register_exam` | `Register` |
| `generate_seating_for_slot`, `generate_seating_bulk`, `generate_combined_hall` | `SeatSlot`, `SeatBulk`, `SeatHall` |
| `add_invigilator`, `replace_invigilator`, `remove_invigilator`, `auto_assign_invigilators` | `AddInvigilator`, `ReplaceInvigilator`, `RemoveInvigilator`, `AutoAssign` |

No request locks what it decides on. So each is two steps: in the first it reads, checks
and works out its writes (the record `Writes`), in the second, `Commit`, they show. The
unique constraints decide there: a registration that exists, or a seat or a student
taken in a slot (`Taken`) or given twice by the request itself (`SeatsDistinct`), fails the
request, except that a bulk seating, which seats
each slot in a savepoint, loses that slot only. An update saves the columns its client
sent, changed or not (`Form`), and no others, so two updates of a slot may mix.

Students are seated in any order, so the random and the alphabetical one are both
covered; a combined hall gives each class to one of the slots asked for that it sits.
Bulk seatings and automatic assignments walk over several slots; their loops are
`SeatsForEach` and a fold of `StaffSlot`. A list of rooms may name one twice, and the code
does not look. A seating of one slot then fails at the unique seat when it gets that far; a
combined hall may seat students of different slots on one seat (finding 70), so `PlacesFilled` asks for
one student to a seat (`SeatedApart`) of a hall only when its rooms are distinct, and
for everything else (`SeatedWell`) of any list.

Little of what these requests promise holds when they overlap, and not all of it when
they do not (findings 61 to 69): rooms and seats are shared by mistake, and a teacher may
come to have two duties at once. `mixed` records that a request has committed that overlapped
another, and `txn[s].alone` that this one has met none so far. The properties say what
holds up to then, or of a request that is alone, whatever has happened before; only
`FeeBilledOnce` holds under every interleaving, by a constraint.

### 8.5 Run

`ExamHall` has three slots, one of them yet to be made, two classes of two students and
one, a room of one seat and one of two, lists of both rooms, of
one, and of one room twice, three windows of which two overlap in part, two
teachers, updates of a whole slot or of its time only, and slots that ask for one or two invigilators. Three requests are made, two of
them at a time: a slot is registered for and seated in a room it was moved to; two slots
share a hall and are seated together, or one again by itself; teachers are added, a slot
is moved, and all are assigned anew. Two at a time are enough for a race, as every
decision rests on rows that one other request can change. Deadlock is not checked, since
the requests are counted, and no fairness is assumed: nothing here has to happen.

### 8.6 Proofs (`ExamHall_proofs`)

For any slots, classes, rooms, windows, students and teachers, any number of requests
and any number in flight: `ScheduleStaysSound` and `FeesBilledOnce`, from the assumptions
of the module (a slot ends after it starts, asks for at least one invigilator, and the
first schedule has no class in two places).

`ScheduleSound` is not inductive: what a request commits was decided earlier. `IInv`
adds `AloneIsSound`: a request that is alone finds all others idle, and would leave a
sound schedule if it committed now (`After`). Each action has a lemma that its writes do
so when the schedule is sound (`CreateSound` ... `AutoSound`); `Begun` lifts it to
the invariant for all of them, `Committed` turns the promise into the fact. The number on
duty is a cardinality, so `Typed` and `DutyFinite` keep duties within a finite set.

`AutoStaffsAll` and `SeatingFillsPlaces` prove the two action properties. Both follow one
pattern: an invariant says of every request that is alone what its commit would leave,
now (`AutoCovers`, `SeatsPlanned`); the step that begins the request establishes it, the
beginning of another takes `alone` away, and the commit turns it into the fact.

- `AutoStaffsAll`: the guard of `AutoAssign` sees that every slot is manned; that nobody
  is on two duties at once is what the fold over the slots must bring about. `FoldLeft`
  is a `CHOOSE` of a function over sets of positions: `StaffingExists` and
  `StaffingsAgree`, by induction over subsets (`SetInduction`), show that there is one and
  that it is the fold slot by slot (`StaffingSteps`). `StaffOne` is the step: a slot's new
  invigilators clash with nobody who keeps a duty, and the slots already served stay free
  of clashes (`NoClash`). `NobodyTwice` climbs along the order, and `EachHasATurn` says
  the order reaches every live slot, so that duties left over from earlier count no more.
- `SeatingFillsPlaces`: `Joined` does for `FlattenSeq` what `StaffingSteps` does for the
  fold, `RowGrows` appends a room, and `PlacesInARow` says the row holds every place of
  the rooms once. Then a seating pairs the first students with the first places:
  `SeatedFills` shows that it has as many rows as students and as places it takes (two
  bijections), and that it stops at the end of one of the two. The assumptions are that
  students are finitely many and that a list of rooms is not empty. It may name a room
  twice: that no two share a seat follows from distinct rooms for a combined hall, and
  for the others from the unique seat, whatever the list.

## 9. Attendance

### 9.1 What the module says

`ClassRegister` has one class on one day: the session, the record of each student
(`mark`), the audits, the leave requests, the requests (`pc`, `req`), the cached board
and the screens that poll it.

| Code | Actions |
|---|---|
| opening, placeholders of the roster | `BeginOpen`, `CommitOpen` |
| `PATCH` of the session | `SetStatus` |
| `marking.py` | `BeginMark`, `FlushMark` (writes, drops the board), `CommitMark` |
| the class teacher's save | `SaveRecords` |
| `correction.py` | `BeginCorrect`, `FlushCorrect`, `CommitCorrect` |
| `leave.py` | `BeginApply`, `CommitApply`, `BeginReview`, `CommitReview` |
| `live_board.py` | `Count`, `Keep`, `Expire` |

- A record's id is the number of the request that made it. An audit names the id the
  request meant to insert; if somebody else inserted the record first, the reference
  dangles and the request fails at its commit (`Dangling`).
- A refusal (frozen year, holiday, a student of another class) leaves no trace and is no
  step.

### 9.2 Run

`ClassRegister`: 2 students, 3 requests in all, 1 screen, attendance by period, which has
every branch of attendance by day and the correction besides. Three requests are what a
race of two on an existing record takes. Deadlock is checked: a screen can always look.

Fairness (`FairSpec`): only that what is cached expires (`CACHE_TTL_SECONDS = 30`).
Nobody has to end a request or look at the board; `BoardCatchesUp` holds all the same.

### 9.3 Proofs (`ClassRegister_proofs`)

For any finite class, any number of requests and screens, by period or by day: `Types`
and `AuditsAndMarksAgree`. The invariant adds `SeenStays`: what a marking, a correction or
a review saw when it began is still there when it commits, since nothing deletes a record
or a leave request.
`BoardCatchesUp` needs fairness and is left to TLC.

## 10. Gallery

### 10.1 What the module says

`Gallery` has the albums of one branch (`album`), the images (`image`), object storage
(`staging`, the objects clients sent, and `files`, what tasks made of them), the byte
counter (`usage`), the messages and the tasks that treat them (`task`), the requests
(`pc`, `req`), the purge and the audit. The history variable `upload` says of each
picture whether it was sent, and whether somebody gave it up.

| Code | Actions |
|---|---|
| `create_album`, `update_album` | `BeginTitle`, `CommitTitle` |
| `presign_uploads`; the client sends the picture | `Presign`; `Put` |
| `confirm_upload`; `retry_processing` | `Confirm`; `Retry` |
| `process_image_record` | `Take`, `Download`, `Check`, then `Refuse`, or `Upload`, `Unstage`, `Save`, `Count`, `Refresh` |
| its `except`, the retry of Celery; the worker dies | `Raise`; `Crash` |
| `bulk_delete_images` | `BeginDelete`, `Erase` for each image, `CommitDelete` |
| `delete_album` | `BeginDrop`, `Sweep` (rows and folder), `CommitDrop` |
| `move_images` | `BeginMove`, `Relocate` for each image, `CommitMove` |
| exception, rollback | `Rollback` |
| `purge_stale_gallery_staging` | `BeginPurge`, `PurgeObject`, `PurgeRow`; `PurgeStops` |
| `recompute_gallery_usage` | `Audit`, `SaveAudit` |

- Objects are written and deleted at once and stay so when a request rolls back, which
  is why `Erase`, `Sweep` and `Relocate` are steps of their own.
- A task runs outside any transaction: each call is an action, and it may raise or die
  between any two.
- A client sends a picture once, after it got the address. It may come before, during or
  after everything else.
- The purge treats the images it lists one after the other and each by itself, so one of
  them at a time is followed. Removing an object that is too old through the lifecycle
  rule of the bucket is `PurgeObject` followed by `PurgeStops`.
- Confirming with the task run inside the request (a setting for tests) is left out.

### 10.2 Run

`Gallery`: 3 writing requests, 2 tasks at a time, 1 retry, 2 albums, 3 slugs, 2 images of
one picture and 1 byte, a limit of 2. The school starts with one image, made by an earlier
task, so that deleting, dropping and moving are possible with few requests. The second
image is a duplicate of the first as long as they share an album, and is not once one of
them was moved, deleted or dropped. Three requests are a rename, another rename to the
slug that became free and a drop; or a move, a deletion and a retry. Two tasks at a time
can treat one image. Deadlock is checked: the audit can always run.

Fairness (`FairSpec`): the audit runs every week (`CELERY_BEAT_SCHEDULE`,
`config/settings/base.py:250`) and then saves what it counted. No request, no task and no
purge has to go on.

### 10.3 Proofs (`Gallery_proofs`)

For any albums, images, pictures, requests, tasks and retries: `UploadsAreKept` and
`ReadyIsStored`. `UploadsSurvive` is not inductive: what may delete the object a client
sent relies on a file being there. `MadeStored` says that it is: a picture that is kept
and *made*, because its row names a file, a task is past its upload or a request is
moving it, is in a file. `Unsent` says that what was not sent is nowhere, and so neither
made nor in the hands of a task. `RowsOK`, `TasksOK`, `ReqsOK` and `PurgeOK` say that rows,
tasks and requests name albums and images that are there, and files of the image they
belong to; so deleting or moving one image never takes the file of another, while
sweeping a folder takes whatever is in it, which `Sweep` counts as given up.
`StoreKept` reduces each action to what it does to storage, and the proof has one lemma
per action.

`UsageCatchesUp` needs fairness and a sum and is left to TLC.

## 11. Findings

Each is in `PROJECT.json`, in this order, with the line of the code and what it
disagrees with. They were met while translating, or as counterexamples of properties
stated too strongly at first; the models have the steps, and the properties the runs
check are stated so as to hold beside them.

Payments

1. A capture reads the invoice without a lock and writes `paid_paise` as an absolute
   value; a credit committed in between is lost on the invoice while the
   installments keep it.
2. Approving the automatic refund of an excess takes it off the invoice, where it
   never was.
3. The reconciliation job never polls; it fails every payment it lists.
4. It writes to rows it read earlier: a payment captured meanwhile becomes failed and
   keeps its receipt.
5. A webhook that comes after a full refund sets the payment to failed.
6. An order placed before carry-forward credits the carried invoice after it.
7. The balance to carry is summed before the invoices are marked; a capture in between
   is billed again.
8. `RefundStatus.REJECTED` does not exist, so approving a refund over HTTP fails.

Billing

9. Two generations of one batch at once bill everybody twice, and from then on every
   concession change of such a student fails.
10. Of two concession changes at once the later erases the discount of the earlier.
11. Two requests can grant one rule twice at once.
12. An edited amount is overwritten with the rule's.
13. Revoking a concession raises the total of the invoice and of no installment.
14. A concession change after a credit note puts back what the note took off.
15. An online capture, a refund and a write-off save a status computed from the total they
    read without a lock: beside a total that a concession has cut since, an invoice paid
    in full stays "partial".
16. A credit note that read the invoice while it was due lowers the total of one that was
    settled since, and saves it as due.
17. Verifying a payment compares neither the order nor the amount of the gateway payment
    the client names: a payment can be receipted with the money of another order.

Licences

18. A refresh that holds no lock erases what was enrolled or paid since it counted.
19. A licence payment can be refused for good: a graduated or reactivated student is
    converted although the counter does not count him, and it would fall below zero.
20. SKIP LOCKED makes the queue neither first-come nor exact.

Promotion

21. `lock_preparation` derives the token from, and restores, the snapshot of the
    validation before its own; after a blocked one the locked session cannot start.
22. `_batch_drift` raises on a destination that appeared or went.
23. A transfer after the lock is recorded in the fingerprint and never compared.
24. Reopening and unlocking read `execution_status` without a lock: one that began
    before a start clears the decisions the task is about to read.
25. The savepoints of the task do nothing: a student who fails halfway keeps what was
    written for him.
26. `resume_execution` sends a run again whatever its status; the second task meets the
    log row of the first and turns a finished run and its session to failed.
27. The message is sent before the commit; a worker that is quicker finds no run, and
    the session stays running for good.
28. The status "partial" is never written; a run with failures counts as succeeded as
    soon as one student was moved.

Examinations

29. A report card is stored before its transaction commits, under a key without the
    publication; after a rollback the store shows marks of no publication.
30. A mark submitted after the snapshot is locked, and is in no publication.
31. A bulk save compares no version: it changes a mark submitted in between.
32. `publish_in_progress` is set and cleared in one transaction: nobody sees it.
33. Computing the results of a published exam unpublishes it, and only a revision shows
    them again.
34. Grace marks can be written after a publication that commits in between.

Admissions

35. An application's status is written over what it has become: an enrolled one can
    be enrolled again.
36. Two clicks on enrol make two students of one application.
37. Closing the ranks can fail although the ranks it ends with are distinct.
38. Rejecting a waitlisted application leaves its entry, and promoting it accepts it.
39. The worker is told of an import before the job is committed.
40. A worker that dies leaves the import running for good.

Attendance

41. Opening a session writes placeholders over marks made meanwhile.
42. The board is dropped before the marking commits, and not at all by a teacher's save.
43. Correcting a record of a day-wise register always fails.
44. The audit of a correction keeps the status read at the start of the request.
45. An approval and a rejection of one leave at once both pass.
46. A marking and an approval that overlap leave the student absent on a day of leave.
47. A class teacher's save asks for, and records, less than marking does.

Gallery

48. A task deletes the object the client sent before the row names the files; when it
    dies in between, every retry fails and nothing reaches the files.
49. Two tasks for one image: the later finds the image itself as its duplicate and fails
    it.
50. The task saves every column it read at its start: a deleted image is back without
    files, a moved one in its old album.
51. What fails after the image was saved as ready makes it failed for ever.
52. Files are deleted or moved before the transaction commits; after a rollback the rows
    name files that are gone.
53. Retrying an image without a staging object leaves it pending, unseen, for ever.
54. Two deletions take the bytes of one image off twice, or after an audit left it out.
55. The audit overwrites what is counted while it sums.
56. A presigned upload reserves nothing: any number pass the check of the limit.
57. A renamed album leaves its files under its old slug, which another album may take and
    whose deletion sweeps them.
58. Two school albums made at once can share a slug.
59. Renaming writes back every column: a dropped album is active again.
60. Dropping an album leaves the staging objects of its images, and the purge passes
    over them.

The exam hall

61. A hall session moves its slots into a hall another slot has at that time.
62. Two slots made or moved at once find no clash with each other.
63. Seating one slot, or several, gives seats away that a combined hall has filled.
64. A slot that shares its hall clashes with the others at every update.
65. A slot that moves keeps the capacity of the room it was made for.
66. Two teachers added at once may be more than the slot asks for.
67. A slot that moves keeps its duties, which may overlap others, and one that changes
    class the seats of the old.
68. A teacher added while the slot is deleted stays on duty there, unseen, and is
    kept from other duties.
69. The race for a duty is resolved in a transaction that has already failed.
70. A combined hall that is asked for with one room twice may seat two students of
    different slots on one of its seats.

Where the code does go wrong whatever else is checked, the line is a finding and not
a hazard as well. Two behaviours no document decides are kept as the code has them: a refund after a write-off makes the invoice due again; a crash between the
gateway's refund and the commit lets a second approval pay back twice.

## 12. Mistaken variants

A definition such as `CounterFreeAlways` directly above `CounterFree` is the same
definition with a plausible bug. No action uses it. `PROJECT.json` ("mutants") pairs
each property with one of them: with the bug in place the run must report that
property violated, which shows that the property depends on the code.

## 13. Not modelled

Every part of the table in section 2 that is not bold: the plan has its place, or
it keeps no state whose order of change matters (reports, portals, notifications,
middleware, analytics). Files that are empty at this commit (integrations, several
`tasks.py`) have nothing to model. Of promotion: previews and reports, the class
mapping's data, the roll-over of the timetable, notifications; and the older rollover and
its undo, whose entry points only raise (`interactors/rollover.py:32`). Of examinations:
hall tickets, the holiday warning, the version a client may send along, slots of other
exams of the branch. Of
attendance: percentages, devices and their locations, calendars of holidays. Of
admissions: the parsing of files, contacts, parents and dashboards. Of the gallery: who may
see an album, covers and the order of images, the processing of a picture. The admin site, seeds
and migrations are outside the scope.
