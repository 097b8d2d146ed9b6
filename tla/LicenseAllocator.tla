--------------------------- MODULE LicenseAllocator ---------------------------
(***************************************************************************)
(* The licences of one school: enrolments consume them, payments of the    *)
(* platform owner add them and convert the students who wait, and one row  *)
(* of counters, TenantLicenseSummary, decides who gets one.                *)
(*                                                                         *)
(* Requests are transactions as in FeePayments: READ COMMITTED, writes     *)
(* visible at the commit, Abort at any step.  Three kinds of rows are      *)
(* locked: the summary, the pricing row that every refresh writes first,   *)
(* and the licence and user rows that a payment takes from its queue.      *)
(*                                                                         *)
(* Amounts are left out: each is a counter times the unit price.           *)
(* A definition above one whose name it extends is a mistaken variant of   *)
(* it, which no action uses.                                               *)
(***************************************************************************)
EXTENDS Integers, FiniteSets

CONSTANTS
    Session,        \* requests that may be in progress at once
    MaxStudent,     \* students who may ever enroll
    BranchOf,       \* the branch of a student
    Key,            \* payments; a retry carries the same idempotency key
    MaxGrant,       \* licences one payment may grant
    None,           \* no value
    MbPerLicence,   \* settings.STORAGE_MB_PER_LICENSED_STUDENT
    Ops             \* operations the instance includes

(* Students are numbered in the order of enrolled_at.                      *)
Student    == 1..MaxStudent
Operations == {"admit", "create", "pay", "reprice", "delete", "active", "status"}

ASSUME ConstantsAssumption ==
    /\ MaxStudent \in Nat /\ MaxGrant \in Nat /\ MbPerLicence \in Nat
    /\ DOMAIN BranchOf = Student
    /\ IsFiniteSet(Key)
    /\ None \notin Key /\ None \notin Student
    /\ \A n \in Student : BranchOf[n] # None
    /\ Ops \subseteq Operations

VARIABLES
    enrolled,       \* licence rows inserted so far, rolled back ones included
    licence,        \* StudentLicense.license_status
    payer,          \* StudentLicense.license_payment
    account,        \* the student's user row: is_active, or deleted
    studying,       \* StudentProfile.academic_status is ACTIVE
    granted,        \* LicensePayment.licenses_granted, 0 while there is no such row
    summary,        \* TenantLicenseSummary
    limit,          \* PlanSubscription.storage_limit_gb
    overwritten,    \* history: has a refresh saved counts it took without a lock?
    txn             \* requests in progress

people == <<account, studying>>
vars   == <<enrolled, licence, payer, people, granted, summary, limit, overwritten, txn>>

Summary == [purchased : Nat, consumed : Nat, unlicensed : Nat]

Transaction ==
    [pc    : {"idle", "allocate", "count", "refresh", "decrement", "unlink",
              "purchased", "consumed", "unlicensed", "save"},
     via   : {"admit", "create", "pay", "reprice", "delete"},
     n     : Student \cup {None},
     key   : Key \cup {None},
     grant : 0..MaxGrant,
     rows  : SUBSET Student,            \* licence rows it turns into licensed
     holds : BOOLEAN,                   \* it holds the summary row
     seen  : Summary]

Idle == [pc |-> "idle", via |-> "admit", n |-> None, key |-> None, grant |-> 0, rows |-> {},
         holds |-> FALSE, seen |-> [purchased |-> 0, consumed |-> 0, unlicensed |-> 0]]

Start(s, fields) == /\ txn[s] = Idle
                    /\ txn' = [txn EXCEPT ![s] = fields]
Finish(s)        == txn' = [txn EXCEPT ![s] = Idle]

-----------------------------------------------------------------------------
(* What the tables say.                                                    *)

Licensed(lic) == {n \in Student : lic[n] = "licensed"}

(* The licences bought: the j-th one of each payment.                      *)
Bought(grants) == {unit \in Key \X (1..MaxGrant) : unit[2] <= grants[unit[1]]}

(* Whom refresh_summary counts as unlicensed.                              *)
Owing(lic) == {n \in Student : /\ lic[n] = "unlicensed"
                               /\ account[n] = "active"
                               /\ studying[n]}

(* Whom a payment may convert: it does not ask for the academic status.    *)
Waiting(lic, branch) == {n \in Student : /\ lic[n] = "unlicensed"
                                         /\ account[n] = "active"
                                         /\ branch \in {None, BranchOf[n]}}

StorageGb(licences) == (licences * MbPerLicence + 999) \div 1000
Seats(sum) == IF sum.purchased >= sum.consumed THEN sum.purchased ELSE sum.consumed

(* Locks.                                                                  *)
SummaryFree == \A s \in Session : ~txn[s].holds
PricingFree == \A s \in Session : txn[s].via # "reprice"
RowFree(n)  == \A s \in Session : txn[s].via = "pay" => n \notin txn[s].rows

HasCapacityAtLimit == summary.consumed <= summary.purchased
HasCapacity == summary.consumed < summary.purchased

Init ==
    /\ enrolled = 0
    /\ licence = [n \in Student |-> "none"]
    /\ payer = [n \in Student |-> None]
    /\ account = [n \in Student |-> "active"]
    /\ studying = [n \in Student |-> TRUE]
    /\ granted = [k \in Key |-> 0]
    /\ summary = [purchased |-> 0, consumed |-> 0, unlicensed |-> 0]
    /\ limit = 0
    /\ overwritten = "never"
    /\ txn = [s \in Session |-> Idle]

-----------------------------------------------------------------------------
(* Enrolments, through admissions ("admit") or the user administration     *)
(* ("create").  The licence row is inserted before the summary is locked.  *)

Enroll(s, via) ==
    /\ via \in Ops
    /\ enrolled < MaxStudent
    /\ enrolled' = enrolled + 1
    /\ Start(s, [Idle EXCEPT !.pc = "allocate", !.via = via, !.n = enrolled + 1])
    /\ UNCHANGED <<licence, payer, people, granted, summary, limit, overwritten>>

AllocateAndCommit(s) ==
    LET n == txn[s].n IN
    /\ txn[s].pc = "allocate" /\ txn[s].via = "admit"
    /\ SummaryFree
    /\ licence' = [licence EXCEPT ![n] = IF HasCapacity THEN "licensed" ELSE "unlicensed"]
    /\ summary' = IF HasCapacity THEN [summary EXCEPT !.consumed = @ + 1]
                                 ELSE [summary EXCEPT !.unlicensed = @ + 1]
    /\ Finish(s)
    /\ UNCHANGED <<enrolled, payer, people, granted, limit, overwritten>>

(* create_user refreshes the billing before it commits; the refresh writes *)
(* every counter anew.                                                     *)
AllocateAndHold(s) ==
    /\ txn[s].pc = "allocate" /\ txn[s].via = "create"
    /\ SummaryFree
    /\ txn' = [txn EXCEPT ![s].pc = "refresh", ![s].holds = TRUE,
                          ![s].rows = IF HasCapacity THEN {txn[s].n} ELSE {}]
    /\ UNCHANGED <<enrolled, licence, payer, people, granted, summary, limit, overwritten>>

-----------------------------------------------------------------------------
(* Payments.  The queue is read FOR UPDATE SKIP LOCKED over the join of    *)
(* licence and user, so whoever's rows any other transaction uses (busy)   *)
(* is passed over.  An unknown branch is refused before anything is read.  *)

OldestAndNext(count, waiting) ==
    {n \in waiting : Cardinality({m \in waiting : m < n}) <= count}

Oldest(count, waiting) ==
    {n \in waiting : Cardinality({m \in waiting : m < n}) < count}

RecordPayment(s, k, grant, branch) == \E busy \in SUBSET Student :
    /\ "pay" \in Ops
    /\ granted[k] = 0
    /\ \A t \in Session : txn[t].key # k
    /\ Start(s, [Idle EXCEPT !.pc = "count", !.via = "pay", !.key = k, !.grant = grant,
                             !.rows = Oldest(grant, {n \in Waiting(licence, branch) \ busy : RowFree(n)})])
    /\ UNCHANGED <<enrolled, licence, payer, people, granted, summary, limit, overwritten>>

(* The summary is locked and written.  unlicensed_active_count is a        *)
(* PositiveIntegerField: below zero the database refuses the statement.    *)
CountPayment(s) ==
    /\ txn[s].pc = "count"
    /\ SummaryFree
    /\ Cardinality(txn[s].rows) <= summary.unlicensed
    /\ txn' = [txn EXCEPT ![s].pc = "refresh", ![s].holds = TRUE]
    /\ UNCHANGED <<enrolled, licence, payer, people, granted, summary, limit, overwritten>>

-----------------------------------------------------------------------------
(* refresh_tenant_billing at the end of a request that holds the summary:  *)
(* it sees what the request itself wrote.                                  *)

LicencesWritten(t) ==
    [n \in Student |-> IF n \in t.rows THEN "licensed"
                       ELSE IF n = t.n THEN "unlicensed" ELSE licence[n]]

GrantsWritten(t) ==
    [k \in Key |-> IF k = t.key THEN t.grant ELSE granted[k]]

ConsumedBefore(lic) == Cardinality(Licensed(licence))
ConsumedIn(lic)     == Cardinality(Licensed(lic))

PurchasedIn(grants) == Cardinality(Bought(grants))

Recount(lic, grants) ==
    [purchased  |-> PurchasedIn(grants),
     consumed   |-> ConsumedIn(lic),
     unlicensed |-> Cardinality(Owing(lic))]

LimitFor(sum) == StorageGb(Seats(sum))

RefreshAndCommit(s) ==
    LET t == txn[s] IN
    /\ t.pc = "refresh"
    /\ PricingFree
    /\ licence' = LicencesWritten(t)
    /\ granted' = GrantsWritten(t)
    /\ payer' = [n \in Student |-> IF n \in t.rows THEN t.key ELSE payer[n]]
    /\ summary' = Recount(licence', granted')
    /\ limit' = LimitFor(summary')
    /\ overwritten' = IF overwritten = "never" THEN "never" ELSE "repaired"
    /\ Finish(s)
    /\ UNCHANGED <<enrolled, people>>

-----------------------------------------------------------------------------
(* A change of discount or plan refreshes too, but takes the summary only  *)
(* when it saves: what it counted, one statement at a time, may be old.    *)

Reprice(s) ==
    /\ "reprice" \in Ops
    /\ PricingFree
    /\ Start(s, [Idle EXCEPT !.pc = "purchased", !.via = "reprice"])
    /\ UNCHANGED <<enrolled, licence, payer, people, granted, summary, limit, overwritten>>

Counted(s, pc, next, counted) ==
    /\ txn[s].pc = pc
    /\ txn' = [txn EXCEPT ![s].pc = next, ![s].seen = counted]
    /\ UNCHANGED <<enrolled, licence, payer, people, granted, summary, limit, overwritten>>

CountPurchased(s) ==
    Counted(s, "purchased", "consumed", [txn[s].seen EXCEPT !.purchased = PurchasedIn(granted)])
CountConsumed(s) ==
    Counted(s, "consumed", "unlicensed", [txn[s].seen EXCEPT !.consumed = ConsumedIn(licence)])
CountUnlicensed(s) ==
    Counted(s, "unlicensed", "save", [txn[s].seen EXCEPT !.unlicensed = Cardinality(Owing(licence))])

SaveCounts(s) ==
    /\ txn[s].pc = "save"
    /\ SummaryFree
    /\ summary' = txn[s].seen
    /\ limit' = LimitFor(summary')
    /\ overwritten' = "now"
    /\ Finish(s)
    /\ UNCHANGED <<enrolled, licence, payer, people, granted>>

-----------------------------------------------------------------------------
(* A student is deleted.  The licence row, read without a lock, stays with *)
(* no user; the count goes down if it was unlicensed then.  Deleting a     *)
(* user whom somebody else has just deleted is no error.                   *)

Delete(s, n) ==
    /\ "delete" \in Ops
    /\ licence[n] # "none" /\ account[n] # "gone"
    /\ Start(s, [Idle EXCEPT !.pc = IF licence[n] = "unlicensed" THEN "decrement" ELSE "unlink",
                             !.via = "delete", !.n = n])
    /\ UNCHANGED <<enrolled, licence, payer, people, granted, summary, limit, overwritten>>

Decrement(s) ==
    /\ txn[s].pc = "decrement"
    /\ SummaryFree
    /\ summary.unlicensed > 0
    /\ txn' = [txn EXCEPT ![s].pc = "unlink", ![s].holds = TRUE]
    /\ UNCHANGED <<enrolled, licence, payer, people, granted, summary, limit, overwritten>>

AfterDeleteAny(t) == [summary EXCEPT !.unlicensed = @ - 1]

AfterDelete(t) ==
    IF t.holds THEN [summary EXCEPT !.unlicensed = @ - 1] ELSE summary

Unlink(s) ==
    LET t == txn[s] IN
    /\ t.pc = "unlink"
    /\ RowFree(t.n)
    /\ account' = [account EXCEPT ![t.n] = "gone"]
    /\ summary' = AfterDelete(t)
    /\ Finish(s)
    /\ UNCHANGED <<enrolled, licence, payer, studying, granted, limit, overwritten>>

-----------------------------------------------------------------------------
(* Elsewhere in the system: an administrator switches an account off and   *)
(* on; a promotion ends a student's studies, its undo resumes them.        *)

SetActive(n) ==
    /\ "active" \in Ops
    /\ licence[n] # "none" /\ account[n] # "gone"
    /\ RowFree(n)
    /\ account' = [account EXCEPT ![n] = IF @ = "active" THEN "inactive" ELSE "active"]
    /\ UNCHANGED <<enrolled, licence, payer, studying, granted, summary, limit, overwritten, txn>>

SetStudying(n) ==
    /\ "status" \in Ops
    /\ licence[n] # "none" /\ account[n] # "gone"
    /\ studying' = [studying EXCEPT ![n] = ~@]
    /\ UNCHANGED <<enrolled, licence, payer, account, granted, summary, limit, overwritten, txn>>

Abort(s) ==
    /\ txn[s] # Idle
    /\ Finish(s)
    /\ UNCHANGED <<enrolled, licence, payer, people, granted, summary, limit, overwritten>>

Next ==
    \/ \E n \in Student : SetActive(n) \/ SetStudying(n)
    \/ \E s \in Session :
           \/ \E via \in {"admit", "create"} : Enroll(s, via)
           \/ AllocateAndCommit(s) \/ AllocateAndHold(s)
           \/ \E k \in Key, grant \in 1..MaxGrant,
                 branch \in {None} \cup {BranchOf[n] : n \in Student} : RecordPayment(s, k, grant, branch)
           \/ CountPayment(s) \/ RefreshAndCommit(s)
           \/ Reprice(s) \/ CountPurchased(s) \/ CountConsumed(s) \/ CountUnlicensed(s)
           \/ SaveCounts(s)
           \/ \E n \in Student : Delete(s, n)
           \/ Decrement(s) \/ Unlink(s)
           \/ Abort(s)

Spec == Init /\ [][Next]_vars

-----------------------------------------------------------------------------
(* Every table and every request in progress holds what its columns allow: *)
(* in particular no counter falls below zero.                              *)
TypeOK ==
    /\ enrolled \in 0..MaxStudent
    /\ licence \in [Student -> {"none", "unlicensed", "licensed"}]
    /\ payer \in [Student -> Key \cup {None}]
    /\ account \in [Student -> {"active", "inactive", "gone"}]
    /\ studying \in [Student -> BOOLEAN]
    /\ granted \in [Key -> 0..MaxGrant]
    /\ summary \in Summary
    /\ limit \in Nat
    /\ overwritten \in {"never", "now", "repaired"}
    /\ txn \in [Session -> Transaction]

(* The two counters that decide who gets a licence agree with the rows     *)
(* they count, however enrolments, payments and deletions overlap, unless  *)
(* a refresh without the summary row has just written over them: the next  *)
(* one that holds the row repairs them.                                    *)
CountersMatchRows ==
    overwritten # "now" =>
        /\ summary.consumed = ConsumedIn(licence)
        /\ summary.purchased = PurchasedIn(granted)

(* Unless the counters were ever written over, no school has more licensed *)
(* students than it has bought licences.                                   *)
NeverOversold ==
    overwritten = "never" => Cardinality(Licensed(licence)) <= Cardinality(Bought(granted))

(* A payment converts at most as many students as it grants licences.      *)
ConvertedWithinGrant ==
    \A k \in Key : Cardinality({n \in Student : payer[n] = k}) <= granted[k]

(* A licence is written once: the payment it came from never changes, even *)
(* if two payments read the queue at once.                                 *)
LicenceIsWriteOnce ==
    [][\A n \in Licensed(licence) : licence'[n] = "licensed" /\ payer'[n] = payer[n]]_vars

(* The storage limit follows the seats although an enrolment through       *)
(* admissions does not recompute it.                                       *)
StorageFollowsSeats == limit = StorageGb(Seats(summary))
=============================================================================
