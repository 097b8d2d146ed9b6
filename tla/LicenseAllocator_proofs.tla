----------------------- MODULE LicenseAllocator_proofs -----------------------
(***************************************************************************)
(* Theorems about LicenseAllocator, for any number of requests, students   *)
(* and payments and any grants.                                            *)
(***************************************************************************)
EXTENDS LicenseAllocator, FiniteSetTheorems, TLAPS

-----------------------------------------------------------------------------
(* What is counted is finite.                                              *)

LEMMA StudentsFinite ==
    /\ IsFiniteSet(Student)
    /\ \A S \in SUBSET Student : IsFiniteSet(S) /\ Cardinality(S) \in Nat
<1>1. IsFiniteSet(Student)
  BY FS_Interval, ConstantsAssumption DEF Student
<1>2. QED BY <1>1, FS_Subset, FS_CardinalityType

LEMMA BoughtFinite ==
    ASSUME NEW grants
    PROVE  IsFiniteSet(Bought(grants)) /\ Cardinality(Bought(grants)) \in Nat
<1>1. IsFiniteSet(Key \X (1..MaxGrant))
  <2>1. IsFiniteSet(1..MaxGrant)
    BY FS_Interval, ConstantsAssumption
  <2>2. IsFiniteSet(Key)
    BY ConstantsAssumption
  <2>3. QED BY <2>1, <2>2, FS_Product, Zenon
<1>2. Bought(grants) \in SUBSET (Key \X (1..MaxGrant))
  BY DEF Bought
<1>3. IsFiniteSet(Bought(grants))
  BY <1>1, <1>2, FS_Subset
<1>4. QED BY <1>3, FS_CardinalityType

LEMMA RecountType ==
    ASSUME NEW lic, NEW grants
    PROVE  Recount(lic, grants) \in Summary
<1>1. Licensed(lic) \in SUBSET Student /\ Owing(lic) \in SUBSET Student
  BY DEF Licensed, Owing
<1>2. /\ Cardinality(Licensed(lic)) \in Nat
      /\ Cardinality(Owing(lic)) \in Nat
      /\ Cardinality(Bought(grants)) \in Nat
  BY <1>1, StudentsFinite, BoughtFinite
<1>3. QED BY <1>2 DEF Recount, Summary, PurchasedIn, ConsumedIn

LEMMA LimitType ==
    ASSUME NEW sum \in Summary
    PROVE  LimitFor(sum) \in Nat
<1>1. Seats(sum) \in Nat
  BY DEF Seats, Summary
<1>2. Seats(sum) * MbPerLicence \in Nat
  BY <1>1, ConstantsAssumption
<1>3. \A n \in Nat : (n + 999) \div 1000 \in Nat
  OBVIOUS
<1>4. QED BY <1>2, <1>3 DEF LimitFor, StorageGb

-----------------------------------------------------------------------------
(* What a request under way has at hand.                                   *)

Paying(t)    == t.via = "pay"
Enrolling(t) == t.pc = "allocate" \/ (t.pc = "refresh" /\ t.via = "create")

RequestOK(t) ==
    /\ Paying(t) => /\ t.pc \in {"count", "refresh"}
                    /\ t.key \in Key /\ t.grant # 0
                    /\ t.n = None
                    /\ Cardinality(t.rows) <= t.grant
    /\ ~Paying(t) => t.key = None
    /\ t.pc = "allocate" => t.via \in {"admit", "create"} /\ t.rows = {}
    /\ t.pc = "count" => Paying(t)
    /\ t.pc = "refresh" => t.holds /\ t.via \in {"create", "pay"}
    /\ t.pc \in {"purchased", "consumed", "unlicensed", "save"} => t.via = "reprice"
    /\ Enrolling(t) => t.n \in Student /\ t.rows \subseteq {t.n}
    /\ t.pc \in {"decrement", "unlink"} => t.n \in Student
    /\ t.holds => t.pc \in {"refresh", "unlink"}

(* The summary row has one holder at a time, and one that will decrement   *)
(* the counter has seen it above zero.                                     *)
OneHolder ==
    \A s, x \in Session : txn[s].holds /\ txn[x].holds => s = x

Decrementable ==
    \A s \in Session : txn[s].pc = "unlink" /\ txn[s].holds => summary.unlicensed > 0

Typed ==
    /\ TypeOK
    /\ \A s \in Session : RequestOK(txn[s])
    /\ OneHolder
    /\ Decrementable

LEMMA IdleOK == Idle \in Transaction /\ RequestOK(Idle) /\ ~Idle.holds
BY ConstantsAssumption DEF Idle, Transaction, Summary, RequestOK, Paying, Enrolling

LEMMA TypedInit == Init => Typed
<1> SUFFICES ASSUME Init PROVE Typed
  OBVIOUS
<1>1. TypeOK
  BY IdleOK, ConstantsAssumption DEF Init, TypeOK, Summary
<1>2. \A s \in Session : txn[s] = Idle
  BY DEF Init
<1>3. QED BY <1>1, <1>2, IdleOK DEF Typed, OneHolder, Decrementable

(* A request goes on with fields of the right types and takes the summary  *)
(* only when it is free.                                                   *)
LEMMA ContinueTyped ==
    ASSUME Typed, NEW s \in Session, NEW t \in Transaction, RequestOK(t),
           txn' = [txn EXCEPT ![s] = t],
           t.holds => SummaryFree,
           t.pc = "unlink" /\ t.holds => summary.unlicensed > 0,
           UNCHANGED <<enrolled, licence, payer, people, granted, summary, limit, overwritten>>
    PROVE  Typed'
<1>1. TypeOK'
  BY DEF Typed, TypeOK, people
<1>2. \A x \in Session : txn'[x] = IF x = s THEN t ELSE txn[x]
  BY DEF Typed, TypeOK
<1>3. \A x \in Session : RequestOK(txn'[x])
  BY <1>2 DEF Typed
<1>4. OneHolder'
  BY <1>2 DEF Typed, OneHolder, SummaryFree
<1>5. Decrementable'
  BY <1>2 DEF Typed, Decrementable
<1>6. QED BY <1>1, <1>3, <1>4, <1>5 DEF Typed

(* A request ends, and if it wrote the summary nobody else holds it.       *)
LEMMA FinishTyped ==
    ASSUME Typed, NEW s \in Session, Finish(s),
           summary' = summary \/ txn[s].holds \/ SummaryFree
    PROVE  /\ txn' \in [Session -> Transaction]
           /\ \A x \in Session : RequestOK(txn'[x])
           /\ OneHolder' /\ Decrementable'
<1>1. txn' \in [Session -> Transaction]
  BY IdleOK DEF Typed, TypeOK, Finish
<1>2. \A x \in Session : txn'[x] = IF x = s THEN Idle ELSE txn[x]
  BY DEF Typed, TypeOK, Finish
<1>3. \A x \in Session : RequestOK(txn'[x])
  BY <1>2, IdleOK DEF Typed
<1>4. OneHolder'
  BY <1>2, IdleOK DEF Typed, OneHolder
<1>5. Decrementable'
  BY <1>2, IdleOK DEF Typed, Decrementable, OneHolder, SummaryFree
<1>6. QED BY <1>1, <1>3, <1>4, <1>5

-----------------------------------------------------------------------------
(* The queue: a payment takes no more students than it grants licences.    *)

(* Counting who comes earlier numbers the oldest below count, each with a  *)
(* number of his own.                                                      *)
LEMMA OldestBounded ==
    ASSUME NEW W \in SUBSET Student, NEW count \in Nat
    PROVE  Cardinality(Oldest(count, W)) <= count
<1> DEFINE Before(n) == {m \in W : m < n}
           O     == Oldest(count, W)
           place == [n \in O |-> Cardinality(Before(n))]
<1>1. O \subseteq W /\ W \subseteq Student /\ Student \subseteq Nat
  BY DEF Oldest, Student
<1>2. \A n \in O : Cardinality(Before(n)) < count
  BY DEF Oldest
<1>3. \A n \in O : IsFiniteSet(Before(n)) /\ Cardinality(Before(n)) \in Nat
  BY <1>1, StudentsFinite
<1>4. \A n, m \in O : n < m => Cardinality(Before(n)) < Cardinality(Before(m))
  <2> SUFFICES ASSUME NEW n \in O, NEW m \in O, n < m
               PROVE  Cardinality(Before(n)) < Cardinality(Before(m))
    OBVIOUS
  <2> HIDE DEF O
  <2>1. n \in Before(m) /\ n \notin Before(n)
    BY <1>1
  <2>2. Before(n) \in SUBSET Before(m)
    <3>1. n \in Nat /\ m \in Nat /\ \A x \in W : x \in Nat
      BY <1>1
    <3>2. \A x \in W : x < n => x < m
      BY <3>1
    <3>3. QED BY <3>2
  <2>3. Before(n) # Before(m)
    BY <2>1
  <2>4. /\ Cardinality(Before(n)) <= Cardinality(Before(m))
        /\ Cardinality(Before(n)) # Cardinality(Before(m))
    <3> HIDE DEF Before, O
    <3>1. QED BY <1>3, <2>2, <2>3, FS_Subset
  <2> HIDE DEF Before, O
  <2>5. QED BY <1>3, <2>4
<1>5. \A n \in O : n \in Nat
  BY <1>1
<1> HIDE DEF Before, O
<1>6. place \in Injection(O, 0..(count - 1))
  <2>1. place \in [O -> 0..(count - 1)]
    BY <1>2, <1>3
  <2>2. \A n, m \in O : place[n] = place[m] => n = m
    BY <1>3, <1>4, <1>5
  <2> HIDE DEF place
  <2>3. QED BY <2>1, <2>2 DEF Injection, IsInjective
<1>7. IsFiniteSet(0..(count - 1)) /\ Cardinality(0..(count - 1)) = count
  BY FS_Interval
<1> HIDE DEF place
<1>8. Cardinality(O) <= Cardinality(0..(count - 1))
  BY <1>6, <1>7, FS_Injection
<1>9. QED BY <1>7, <1>8 DEF O

-----------------------------------------------------------------------------
(* Every step keeps the types.                                             *)

LEMMA BeginTyped ==
    ASSUME Typed, NEW s \in Session,
           \/ \E via \in {"admit", "create"} : Enroll(s, via)
           \/ \E k \in Key, grant \in 1..MaxGrant,
                 branch \in {None} \cup {BranchOf[n] : n \in Student} : RecordPayment(s, k, grant, branch)
           \/ Reprice(s)
           \/ \E n \in Student : Delete(s, n)
    PROVE  Typed'
<1> USE ConstantsAssumption
<1>1. CASE \E via \in {"admit", "create"} : Enroll(s, via)
  <2>1. PICK via \in {"admit", "create"} : Enroll(s, via)
    BY <1>1
  <2> DEFINE t == [Idle EXCEPT !.pc = "allocate", !.via = via, !.n = enrolled + 1]
  <2>2. enrolled \in Nat /\ enrolled < MaxStudent /\ enrolled' = enrolled + 1
    BY <2>1 DEF Enroll, Typed, TypeOK
  <2>3. enrolled + 1 \in Student /\ enrolled' \in 0..MaxStudent
    BY <2>2 DEF Student
  <2>4. t \in Transaction /\ RequestOK(t) /\ ~t.holds
    BY <2>3, IdleOK DEF Idle, Transaction, RequestOK, Paying, Enrolling
  <2>5. txn' = [txn EXCEPT ![s] = t]
    BY <2>1 DEF Enroll, Start
  <2> HIDE DEF t
  <2>6. TypeOK'
    BY <2>1, <2>3, <2>4, <2>5 DEF Enroll, Typed, TypeOK, people
  <2>7. \A x \in Session : txn'[x] = IF x = s THEN t ELSE txn[x]
    BY <2>5 DEF Typed, TypeOK
  <2>8. summary' = summary
    BY <2>1 DEF Enroll
  <2>9. OneHolder' /\ Decrementable'
    BY <2>4, <2>7, <2>8 DEF Typed, OneHolder, Decrementable
  <2>10. QED BY <2>4, <2>6, <2>7, <2>9 DEF Typed
<1>2. CASE \E k \in Key, grant \in 1..MaxGrant,
              branch \in {None} \cup {BranchOf[n] : n \in Student} : RecordPayment(s, k, grant, branch)
  <2>1. PICK k \in Key, grant \in 1..MaxGrant,
             branch \in {None} \cup {BranchOf[n] : n \in Student} : RecordPayment(s, k, grant, branch)
    BY <1>2
  <2>2. PICK W \in SUBSET Student :
          Start(s, [Idle EXCEPT !.pc = "count", !.via = "pay", !.key = k, !.grant = grant,
                                !.rows = Oldest(grant, W)])
    <3>1. PICK busy \in SUBSET Student :
            Start(s, [Idle EXCEPT !.pc = "count", !.via = "pay", !.key = k, !.grant = grant,
                      !.rows = Oldest(grant, {n \in Waiting(licence, branch) \ busy : RowFree(n)})])
      BY <2>1 DEF RecordPayment
    <3>2. {n \in Waiting(licence, branch) \ busy : RowFree(n)} \in SUBSET Student
      BY DEF Waiting
    <3>3. QED BY <3>1, <3>2
  <2> DEFINE rows == Oldest(grant, W)
             t    == [Idle EXCEPT !.pc = "count", !.via = "pay", !.key = k, !.grant = grant,
                                  !.rows = rows]
  <2>3. rows \in SUBSET Student /\ Cardinality(rows) <= grant
    <3>1. grant \in Nat
      OBVIOUS
    <3>2. Cardinality(rows) <= grant
      BY <3>1, OldestBounded
    <3>3. QED BY <3>2 DEF Oldest
  <2>4. txn' = [txn EXCEPT ![s] = t]
    BY <2>2 DEF Start
  <2> HIDE DEF rows
  <2>5. t \in Transaction /\ RequestOK(t) /\ ~t.holds
    <3>1. grant \in 0..MaxGrant /\ grant # 0
      OBVIOUS
    <3>2. t \in Transaction
      BY <2>3, <3>1, IdleOK DEF Idle, Transaction
    <3>3. /\ t.pc = "count" /\ t.via = "pay" /\ t.n = None /\ ~t.holds
          /\ t.key = k /\ t.grant = grant /\ t.rows = rows
      BY DEF Idle
    <3> HIDE DEF t
    <3>4. QED BY <2>3, <3>1, <3>2, <3>3 DEF RequestOK, Paying, Enrolling
  <2> HIDE DEF t
  <2>6. QED BY <2>1, <2>4, <2>5, ContinueTyped DEF RecordPayment
<1>3. CASE Reprice(s)
  <2> DEFINE t == [Idle EXCEPT !.pc = "purchased", !.via = "reprice"]
  <2>1. t \in Transaction /\ RequestOK(t) /\ ~t.holds
    BY IdleOK DEF Idle, Transaction, RequestOK, Paying, Enrolling
  <2>2. txn' = [txn EXCEPT ![s] = t]
    BY <1>3 DEF Reprice, Start
  <2> HIDE DEF t
  <2>3. QED BY <1>3, <2>1, <2>2, ContinueTyped DEF Reprice
<1>4. CASE \E n \in Student : Delete(s, n)
  <2>1. PICK n \in Student : Delete(s, n)
    BY <1>4
  <2> DEFINE t == [Idle EXCEPT !.pc = IF licence[n] = "unlicensed" THEN "decrement" ELSE "unlink",
                               !.via = "delete", !.n = n]
  <2>2. t \in Transaction /\ RequestOK(t) /\ ~t.holds
    BY IdleOK DEF Idle, Transaction, RequestOK, Paying, Enrolling
  <2>3. txn' = [txn EXCEPT ![s] = t]
    BY <2>1 DEF Delete, Start
  <2> HIDE DEF t
  <2>4. QED BY <2>1, <2>2, <2>3, ContinueTyped DEF Delete
<1>5. QED BY <1>1, <1>2, <1>3, <1>4

LEMMA MiddleTyped ==
    ASSUME Typed, NEW s \in Session,
           \/ AllocateAndHold(s) \/ CountPayment(s) \/ Decrement(s)
           \/ CountPurchased(s) \/ CountConsumed(s) \/ CountUnlicensed(s)
    PROVE  Typed'
<1> DEFINE t == txn[s]
<1>1. t \in Transaction /\ RequestOK(t) /\ txn \in [Session -> Transaction]
  BY DEF Typed, TypeOK
<1>2. CASE AllocateAndHold(s)
  <2> DEFINE rows == IF HasCapacity THEN {t.n} ELSE {}
             u == [t EXCEPT !.pc = "refresh", !.holds = TRUE, !.rows = rows]
  <2>1. t.pc = "allocate" /\ t.via = "create" /\ SummaryFree
    BY <1>2 DEF AllocateAndHold
  <2>2. t.n \in Student /\ rows \in SUBSET Student /\ rows \subseteq {t.n}
    BY <1>1, <2>1 DEF RequestOK, Enrolling
  <2>3. txn' = [txn EXCEPT ![s] = u]
    BY <1>1, <1>2 DEF AllocateAndHold
  <2> HIDE DEF rows
  <2>4. u \in Transaction /\ RequestOK(u) /\ u.pc = "refresh"
    BY <1>1, <2>1, <2>2 DEF Transaction, RequestOK, Paying, Enrolling
  <2> HIDE DEF u
  <2>5. QED BY <1>2, <2>1, <2>3, <2>4, ContinueTyped DEF AllocateAndHold
<1>3. CASE CountPayment(s)
  <2> DEFINE u == [t EXCEPT !.pc = "refresh", !.holds = TRUE]
  <2>1. t.pc = "count" /\ SummaryFree
    BY <1>3 DEF CountPayment
  <2>2. txn' = [txn EXCEPT ![s] = u]
    BY <1>1, <1>3 DEF CountPayment
  <2>3. u \in Transaction /\ RequestOK(u) /\ u.pc = "refresh"
    BY <1>1, <2>1 DEF Transaction, RequestOK, Paying, Enrolling
  <2> HIDE DEF u
  <2>4. QED BY <1>3, <2>1, <2>2, <2>3, ContinueTyped DEF CountPayment
<1>4. CASE Decrement(s)
  <2> DEFINE u == [t EXCEPT !.pc = "unlink", !.holds = TRUE]
  <2>1. t.pc = "decrement" /\ SummaryFree /\ summary.unlicensed > 0
    BY <1>4 DEF Decrement
  <2>2. txn' = [txn EXCEPT ![s] = u]
    BY <1>1, <1>4 DEF Decrement
  <2>3. u \in Transaction /\ RequestOK(u)
    BY <1>1, <2>1 DEF Transaction, RequestOK, Paying, Enrolling
  <2> HIDE DEF u
  <2>4. QED BY <1>4, <2>1, <2>2, <2>3, ContinueTyped DEF Decrement
<1>5. ASSUME NEW pc \in {"purchased", "consumed", "unlicensed"},
             NEW next \in {"consumed", "unlicensed", "save"},
             NEW counted \in Summary,
             Counted(s, pc, next, counted)
      PROVE  Typed'
  <2> DEFINE u == [t EXCEPT !.pc = next, !.seen = counted]
  <2>1. t.pc = pc
    BY <1>5 DEF Counted
  <2>2. txn' = [txn EXCEPT ![s] = u]
    BY <1>1, <1>5 DEF Counted
  <2>3. u \in Transaction /\ RequestOK(u) /\ ~u.holds
    BY <1>1, <2>1 DEF Transaction, RequestOK, Paying, Enrolling
  <2> HIDE DEF u
  <2>4. QED BY <1>5, <2>2, <2>3, ContinueTyped DEF Counted
<1>6. /\ PurchasedIn(granted) \in Nat
      /\ ConsumedIn(licence) \in Nat
      /\ Cardinality(Owing(licence)) \in Nat
  BY RecountType DEF Recount, Summary
<1>7. t.seen \in Summary
  BY <1>1 DEF Transaction
<1>8. /\ [t.seen EXCEPT !.purchased = PurchasedIn(granted)] \in Summary
      /\ [t.seen EXCEPT !.consumed = ConsumedIn(licence)] \in Summary
      /\ [t.seen EXCEPT !.unlicensed = Cardinality(Owing(licence))] \in Summary
  BY <1>6, <1>7 DEF Summary
<1>9. CASE CountPurchased(s)
  BY <1>5, <1>8, <1>9 DEF CountPurchased
<1>10. CASE CountConsumed(s)
  BY <1>5, <1>8, <1>10 DEF CountConsumed
<1>11. CASE CountUnlicensed(s)
  BY <1>5, <1>8, <1>11 DEF CountUnlicensed
<1>12. QED BY <1>2, <1>3, <1>4, <1>9, <1>10, <1>11

LEMMA EndTyped ==
    ASSUME Typed, NEW s \in Session,
           \/ AllocateAndCommit(s) \/ RefreshAndCommit(s) \/ SaveCounts(s)
           \/ Unlink(s) \/ Abort(s)
    PROVE  Typed'
<1> DEFINE t == txn[s]
<1>1. t \in Transaction /\ RequestOK(t) /\ TypeOK
  BY DEF Typed, TypeOK
<1>2. CASE AllocateAndCommit(s)
  <2>1. SummaryFree /\ Finish(s) /\ t.pc = "allocate"
    BY <1>2 DEF AllocateAndCommit
  <2>2. /\ txn' \in [Session -> Transaction]
        /\ \A x \in Session : RequestOK(txn'[x])
        /\ OneHolder' /\ Decrementable'
    BY <2>1, FinishTyped
  <2>3. summary' \in Summary
    BY <1>1, <1>2 DEF AllocateAndCommit, TypeOK, Summary
  <2>4. licence' \in [Student -> {"none", "unlicensed", "licensed"}]
    BY <1>1, <1>2 DEF AllocateAndCommit, TypeOK
  <2>5. TypeOK'
    BY <1>1, <1>2, <2>2, <2>3, <2>4 DEF AllocateAndCommit, TypeOK, people
  <2>6. QED BY <2>2, <2>5 DEF Typed
<1>3. CASE RefreshAndCommit(s)
  <2>1. t.holds /\ Finish(s)
    BY <1>1, <1>3 DEF RefreshAndCommit, RequestOK
  <2>2. /\ txn' \in [Session -> Transaction]
        /\ \A x \in Session : RequestOK(txn'[x])
        /\ OneHolder' /\ Decrementable'
    BY <2>1, FinishTyped
  <2>3. summary' \in Summary /\ limit' \in Nat
    BY <1>3, RecountType, LimitType DEF RefreshAndCommit
  <2>4. licence' \in [Student -> {"none", "unlicensed", "licensed"}]
    BY <1>1, <1>3 DEF RefreshAndCommit, LicencesWritten, TypeOK
  <2>5. granted' \in [Key -> 0..MaxGrant]
    BY <1>1, <1>3 DEF RefreshAndCommit, GrantsWritten, TypeOK, Transaction
  <2>6. payer' \in [Student -> Key \cup {None}]
    BY <1>1, <1>3 DEF RefreshAndCommit, TypeOK, Transaction
  <2>7. TypeOK'
    BY <1>1, <1>3, <2>2, <2>3, <2>4, <2>5, <2>6 DEF RefreshAndCommit, TypeOK, people
  <2>8. QED BY <2>2, <2>7 DEF Typed
<1>4. CASE SaveCounts(s)
  <2>1. SummaryFree /\ Finish(s)
    BY <1>4 DEF SaveCounts
  <2>2. /\ txn' \in [Session -> Transaction]
        /\ \A x \in Session : RequestOK(txn'[x])
        /\ OneHolder' /\ Decrementable'
    BY <2>1, FinishTyped
  <2>3. summary' \in Summary /\ limit' \in Nat
    BY <1>1, <1>4, LimitType DEF SaveCounts, Transaction
  <2>4. TypeOK'
    BY <1>1, <1>4, <2>2, <2>3 DEF SaveCounts, TypeOK, people
  <2>5. QED BY <2>2, <2>4 DEF Typed
<1>5. CASE Unlink(s)
  <2>1. Finish(s) /\ t.pc = "unlink" /\ summary' = AfterDelete(t)
    BY <1>5 DEF Unlink
  <2>2. summary' = summary \/ t.holds
    BY <2>1 DEF AfterDelete
  <2>3. /\ txn' \in [Session -> Transaction]
        /\ \A x \in Session : RequestOK(txn'[x])
        /\ OneHolder' /\ Decrementable'
    BY <2>1, <2>2, FinishTyped
  <2>4. t.holds => summary.unlicensed > 0
    BY <2>1 DEF Typed, Decrementable
  <2>5. summary' \in Summary
    BY <1>1, <2>1, <2>4 DEF AfterDelete, TypeOK, Summary
  <2>6. account' \in [Student -> {"active", "inactive", "gone"}]
    BY <1>1, <1>5 DEF Unlink, TypeOK
  <2>7. TypeOK'
    BY <1>1, <1>5, <2>3, <2>5, <2>6 DEF Unlink, TypeOK
  <2>8. QED BY <2>3, <2>7 DEF Typed
<1>6. CASE Abort(s)
  <2>1. Finish(s) /\ summary' = summary
    BY <1>6 DEF Abort
  <2>2. /\ txn' \in [Session -> Transaction]
        /\ \A x \in Session : RequestOK(txn'[x])
        /\ OneHolder' /\ Decrementable'
    BY <2>1, FinishTyped
  <2>3. TypeOK'
    BY <1>1, <1>6, <2>2 DEF Abort, TypeOK, people
  <2>4. QED BY <2>2, <2>3 DEF Typed
<1>7. QED BY <1>2, <1>3, <1>4, <1>5, <1>6

LEMMA PeopleTyped ==
    ASSUME Typed, NEW n \in Student, SetActive(n) \/ SetStudying(n)
    PROVE  Typed'
<1>1. TypeOK'
  <2>1. CASE SetActive(n)
    <3>1. account' \in [Student -> {"active", "inactive", "gone"}]
      BY <2>1 DEF SetActive, Typed, TypeOK
    <3>2. QED BY <2>1, <3>1 DEF SetActive, Typed, TypeOK
  <2>2. CASE SetStudying(n)
    <3>1. studying' \in [Student -> BOOLEAN]
      BY <2>2, Zenon DEF SetStudying, Typed, TypeOK
    <3>2. QED BY <2>2, <3>1 DEF SetStudying, Typed, TypeOK
  <2>3. QED BY <2>1, <2>2
<1>2. UNCHANGED <<summary, txn>>
  BY DEF SetActive, SetStudying
<1>3. OneHolder' /\ Decrementable' /\ \A s \in Session : RequestOK(txn'[s])
  BY <1>2 DEF Typed, OneHolder, Decrementable
<1>4. QED BY <1>1, <1>3 DEF Typed

LEMMA TypedStep == Typed /\ [Next]_vars => Typed'
<1> SUFFICES ASSUME Typed, [Next]_vars PROVE Typed'
  OBVIOUS
<1>1. CASE Next
  BY <1>1, BeginTyped, MiddleTyped, EndTyped, PeopleTyped DEF Next
<1>2. CASE UNCHANGED vars
  BY <1>2 DEF vars, people, Typed, TypeOK, OneHolder, Decrementable
<1>3. QED BY <1>1, <1>2

(* Every table and every request in progress keep to their types, and no   *)
(* counter falls below zero, whatever the operations of the school.        *)
THEOREM TypedAlways == Spec => []Typed
BY TypedInit, TypedStep, PTL DEF Spec

THEOREM TypeCorrect == Spec => []TypeOK
<1>1. Typed => TypeOK
  BY DEF Typed
<1>2. QED BY <1>1, TypedAlways, PTL

-----------------------------------------------------------------------------
(* The storage limit.                                                      *)

LEMMA StorageStep ==
    TypeOK /\ StorageFollowsSeats /\ [Next]_vars => StorageFollowsSeats'
<1> SUFFICES ASSUME TypeOK, StorageFollowsSeats, [Next]_vars
             PROVE  limit' = StorageGb(Seats(summary'))
  BY DEF StorageFollowsSeats
<1> DEFINE Same == Seats(summary') = Seats(summary) /\ limit' = limit
<1>1. ASSUME Same PROVE limit' = StorageGb(Seats(summary'))
  BY <1>1 DEF StorageFollowsSeats
<1>2. CASE UNCHANGED <<summary, limit>>
  BY <1>1, <1>2
<1>3. ASSUME NEW s \in Session, AllocateAndCommit(s) PROVE Same
  BY <1>3 DEF AllocateAndCommit, HasCapacity, Seats, TypeOK, Summary
<1>4. ASSUME NEW s \in Session, Unlink(s) PROVE Same
  BY <1>4 DEF Unlink, AfterDelete, Seats, TypeOK, Summary
<1>5. ASSUME NEW s \in Session, RefreshAndCommit(s) \/ SaveCounts(s)
      PROVE  limit' = StorageGb(Seats(summary'))
  BY <1>5 DEF RefreshAndCommit, SaveCounts, LimitFor
<1>6. ASSUME NEW s \in Session,
             \/ \E via \in {"admit", "create"} : Enroll(s, via)
             \/ AllocateAndHold(s)
             \/ \E k \in Key, grant \in 1..MaxGrant,
                   branch \in {None} \cup {BranchOf[n] : n \in Student} : RecordPayment(s, k, grant, branch)
             \/ CountPayment(s)
             \/ Reprice(s) \/ CountPurchased(s) \/ CountConsumed(s) \/ CountUnlicensed(s)
             \/ \E n \in Student : Delete(s, n)
             \/ Decrement(s) \/ Abort(s)
      PROVE  UNCHANGED <<summary, limit>>
  BY <1>6 DEF Enroll, AllocateAndHold, RecordPayment, CountPayment, Reprice, CountPurchased,
              CountConsumed, CountUnlicensed, Counted, Delete, Decrement, Abort
<1>7. ASSUME NEW n \in Student, SetActive(n) \/ SetStudying(n)
      PROVE  UNCHANGED <<summary, limit>>
  BY <1>7 DEF SetActive, SetStudying
<1>8. CASE UNCHANGED vars
  BY <1>2, <1>8 DEF vars
<1> HIDE DEF Same
<1>9. CASE Next
  BY <1>1, <1>2, <1>3, <1>4, <1>5, <1>6, <1>7, <1>9 DEF Next
<1>10. QED BY <1>8, <1>9

(* The storage limit is that of the seats after every step, also the steps *)
(* that change a counter and do not compute the limit.                     *)
THEOREM StorageFollows == Spec => []StorageFollowsSeats
<1>1. Init => StorageFollowsSeats
  <2> SUFFICES ASSUME Init PROVE StorageFollowsSeats
    OBVIOUS
  <2>1. Seats(summary) = 0
    BY DEF Init, Seats
  <2>2. 0 * MbPerLicence = 0 /\ (0 + 999) \div 1000 = 0
    BY ConstantsAssumption
  <2>3. QED BY <2>1, <2>2 DEF Init, StorageFollowsSeats, StorageGb
<1>2. QED BY <1>1, StorageStep, TypeCorrect, PTL DEF Spec

-----------------------------------------------------------------------------
(* Whose licence rows and keys are whose.                                  *)

(* Nobody but the request that enrolls him knows of a student who has no   *)
(* licence row yet.                                                        *)
Newcomers ==
    /\ \A n \in Student : n > enrolled => licence[n] = "none"
    /\ \A s \in Session : Enrolling(txn[s]) => /\ txn[s].n <= enrolled
                                               /\ licence[txn[s].n] = "none"
    /\ \A s, x \in Session : /\ Enrolling(txn[s]) /\ Enrolling(txn[x])
                             /\ txn[s].n = txn[x].n
                             => s = x

(* The rows a payment has taken stay unlicensed and are its own.           *)
Queued ==
    /\ \A s \in Session : Paying(txn[s]) => \A n \in txn[s].rows : licence[n] = "unlicensed"
    /\ \A s, x \in Session : /\ Paying(txn[s]) /\ Paying(txn[x])
                             /\ txn[s].rows \cap txn[x].rows # {}
                             => s = x

(* A payment in progress is not recorded yet, and nobody else records it.  *)
Keys ==
    /\ \A s \in Session : Paying(txn[s]) => granted[txn[s].key] = 0
    /\ \A s, x \in Session : /\ Paying(txn[s]) /\ Paying(txn[x])
                             /\ txn[s].key = txn[x].key
                             => s = x

Separate == Newcomers /\ Queued /\ Keys

(* A request that has found room for its student still has it.             *)
Capacity ==
    \A s \in Session : /\ Enrolling(txn[s]) /\ txn[s].rows # {}
                       => summary.consumed < summary.purchased

Matching == /\ summary.consumed = ConsumedIn(licence)
            /\ summary.purchased = PurchasedIn(granted)
Covered  == Cardinality(Licensed(licence)) <= Cardinality(Bought(granted))
Balanced == Matching /\ Covered /\ Capacity

-----------------------------------------------------------------------------
(* A request that goes on as what it was, or ends, without writing the     *)
(* licences or the payments.                                               *)
LEMMA ContinueSeparate ==
    ASSUME Typed, Separate, NEW s \in Session, NEW t,
           txn' = [txn EXCEPT ![s] = t],
           UNCHANGED <<enrolled, licence, granted>>,
           Enrolling(t) => Enrolling(txn[s]) /\ t.n = txn[s].n,
           Paying(t) => Paying(txn[s]) /\ t.rows = txn[s].rows /\ t.key = txn[s].key
    PROVE  Separate'
<1>1. \A x \in Session : txn'[x] = IF x = s THEN t ELSE txn[x]
  BY DEF Typed, TypeOK
<1>2. Newcomers'
  BY <1>1 DEF Separate, Newcomers
<1>3. Queued'
  BY <1>1 DEF Separate, Queued
<1>4. Keys'
  BY <1>1 DEF Separate, Keys
<1>5. QED BY <1>2, <1>3, <1>4 DEF Separate

LEMMA IdleIsNeither == ~Enrolling(Idle) /\ ~Paying(Idle)
BY DEF Idle, Enrolling, Paying

LEMMA RequestSeparate ==
    ASSUME Typed, Separate, NEW s \in Session,
           \/ AllocateAndHold(s) \/ CountPayment(s)
           \/ Reprice(s) \/ CountPurchased(s) \/ CountConsumed(s) \/ CountUnlicensed(s)
           \/ SaveCounts(s)
           \/ \E n \in Student : Delete(s, n)
           \/ Decrement(s) \/ Unlink(s) \/ Abort(s)
    PROVE  Separate'
<1> DEFINE t == txn[s]
<1>1. t \in Transaction /\ RequestOK(t) /\ txn \in [Session -> Transaction]
  BY DEF Typed, TypeOK
<1>2. CASE AllocateAndHold(s)
  <2> DEFINE u == [t EXCEPT !.pc = "refresh", !.holds = TRUE,
                            !.rows = IF HasCapacity THEN {t.n} ELSE {}]
  <2>1. txn' = [txn EXCEPT ![s] = u] /\ t.pc = "allocate" /\ t.via = "create"
    BY <1>1, <1>2 DEF AllocateAndHold
  <2>2. Enrolling(t) /\ u.n = t.n /\ ~Paying(u)
    BY <1>1, <2>1 DEF Enrolling, Paying, Transaction
  <2> HIDE DEF u
  <2>3. QED BY <1>2, <2>1, <2>2, ContinueSeparate DEF AllocateAndHold
<1>3. CASE CountPayment(s)
  <2> DEFINE u == [t EXCEPT !.pc = "refresh", !.holds = TRUE]
  <2>1. txn' = [txn EXCEPT ![s] = u] /\ t.pc = "count"
    BY <1>1, <1>3 DEF CountPayment
  <2>2. Paying(t) /\ ~Enrolling(u) /\ u.rows = t.rows /\ u.key = t.key
    BY <1>1, <2>1 DEF RequestOK, Enrolling, Paying, Transaction
  <2> HIDE DEF u
  <2>3. QED BY <1>3, <2>1, <2>2, ContinueSeparate DEF CountPayment
<1>4. CASE Decrement(s)
  <2> DEFINE u == [t EXCEPT !.pc = "unlink", !.holds = TRUE]
  <2>1. txn' = [txn EXCEPT ![s] = u] /\ t.pc = "decrement"
    BY <1>1, <1>4 DEF Decrement
  <2>2. ~Enrolling(u) /\ ~Paying(u)
    BY <1>1, <2>1 DEF RequestOK, Enrolling, Paying, Transaction
  <2> HIDE DEF u
  <2>3. QED BY <1>4, <2>1, <2>2, ContinueSeparate DEF Decrement
<1>5. ASSUME NEW pc \in {"purchased", "consumed", "unlicensed"},
             NEW next \in {"consumed", "unlicensed", "save"}, NEW counted,
             Counted(s, pc, next, counted)
      PROVE  Separate'
  <2> DEFINE u == [t EXCEPT !.pc = next, !.seen = counted]
  <2>1. txn' = [txn EXCEPT ![s] = u] /\ t.pc = pc
    BY <1>1, <1>5 DEF Counted
  <2>2. ~Enrolling(u) /\ ~Paying(u)
    BY <1>1, <2>1 DEF RequestOK, Enrolling, Paying, Transaction
  <2> HIDE DEF u
  <2>3. QED BY <1>5, <2>1, <2>2, ContinueSeparate DEF Counted
<1>6. CASE CountPurchased(s) \/ CountConsumed(s) \/ CountUnlicensed(s)
  BY <1>5, <1>6 DEF CountPurchased, CountConsumed, CountUnlicensed
<1>7. CASE Reprice(s)
  <2> DEFINE u == [Idle EXCEPT !.pc = "purchased", !.via = "reprice"]
  <2>1. ~Enrolling(u) /\ ~Paying(u)
    BY DEF Idle, Enrolling, Paying
  <2>2. txn' = [txn EXCEPT ![s] = u]
    BY <1>7 DEF Reprice, Start
  <2> HIDE DEF u
  <2>3. QED BY <1>7, <2>1, <2>2, ContinueSeparate DEF Reprice
<1>8. CASE \E n \in Student : Delete(s, n)
  <2>1. PICK n \in Student : Delete(s, n)
    BY <1>8
  <2> DEFINE u == [Idle EXCEPT !.pc = IF licence[n] = "unlicensed" THEN "decrement" ELSE "unlink",
                               !.via = "delete", !.n = n]
  <2>2. ~Enrolling(u) /\ ~Paying(u)
    BY DEF Idle, Enrolling, Paying
  <2>3. txn' = [txn EXCEPT ![s] = u]
    BY <2>1 DEF Delete, Start
  <2> HIDE DEF u
  <2>4. QED BY <2>1, <2>2, <2>3, ContinueSeparate DEF Delete
<1>9. CASE SaveCounts(s) \/ Unlink(s) \/ Abort(s)
  <2>1. Finish(s) /\ UNCHANGED <<enrolled, licence, granted>>
    BY <1>9 DEF SaveCounts, Unlink, Abort
  <2>2. txn' = [txn EXCEPT ![s] = Idle]
    BY <2>1 DEF Finish
  <2>3. QED BY <2>1, <2>2, IdleIsNeither, ContinueSeparate
<1>10. QED BY <1>2, <1>3, <1>4, <1>6, <1>7, <1>8, <1>9

LEMMA BeginSeparate ==
    ASSUME Typed, Separate, NEW s \in Session,
           \/ \E via \in {"admit", "create"} : Enroll(s, via)
           \/ \E k \in Key, grant \in 1..MaxGrant,
                 branch \in {None} \cup {BranchOf[n] : n \in Student} : RecordPayment(s, k, grant, branch)
    PROVE  Separate'
<1>1. CASE \E via \in {"admit", "create"} : Enroll(s, via)
  <2>1. PICK via \in {"admit", "create"} : Enroll(s, via)
    BY <1>1
  <2> DEFINE t == [Idle EXCEPT !.pc = "allocate", !.via = via, !.n = enrolled + 1]
  <2>2. /\ enrolled \in Nat /\ enrolled < MaxStudent /\ enrolled' = enrolled + 1
        /\ UNCHANGED <<licence, granted>>
    BY <2>1 DEF Enroll, Typed, TypeOK
  <2>3. \A x \in Session : txn'[x] = IF x = s THEN t ELSE txn[x]
    BY <2>1 DEF Enroll, Start, Typed, TypeOK
  <2>4. Enrolling(t) /\ ~Paying(t) /\ t.n = enrolled + 1
    BY DEF Idle, Enrolling, Paying
  <2> HIDE DEF t
  <2>5. enrolled + 1 \in Student /\ \A n \in Student : n \in Nat
    BY <2>2, ConstantsAssumption DEF Student
  <2>6. \A x \in Session : Enrolling(txn[x]) => txn[x].n \in Student
    BY DEF Typed, RequestOK
  <2>7. Newcomers'
    <3>1. \A n \in Student : n > enrolled' => licence'[n] = "none"
      BY <2>2, <2>5 DEF Separate, Newcomers
    <3>2. \A x \in Session : Enrolling(txn'[x]) => /\ txn'[x].n <= enrolled'
                                                   /\ licence'[txn'[x].n] = "none"
      BY <2>2, <2>3, <2>4, <2>5, <2>6 DEF Separate, Newcomers
    <3>3. \A x \in Session : Enrolling(txn[x]) => txn[x].n # enrolled + 1
      BY <2>2, <2>5, <2>6 DEF Separate, Newcomers
    <3>4. \A x, y \in Session : /\ Enrolling(txn'[x]) /\ Enrolling(txn'[y])
                                /\ txn'[x].n = txn'[y].n
                                => x = y
      BY <2>3, <2>4, <3>3 DEF Separate, Newcomers
    <3>5. QED BY <3>1, <3>2, <3>4 DEF Newcomers
  <2>8. Queued' /\ Keys'
    BY <2>2, <2>3, <2>4 DEF Separate, Queued, Keys
  <2>9. QED BY <2>7, <2>8 DEF Separate
<1>2. CASE \E k \in Key, grant \in 1..MaxGrant,
              branch \in {None} \cup {BranchOf[n] : n \in Student} : RecordPayment(s, k, grant, branch)
  <2>1. PICK k \in Key, grant \in 1..MaxGrant,
             branch \in {None} \cup {BranchOf[n] : n \in Student} : RecordPayment(s, k, grant, branch)
    BY <1>2
  <2>2. PICK busy \in SUBSET Student :
          Start(s, [Idle EXCEPT !.pc = "count", !.via = "pay", !.key = k, !.grant = grant,
                    !.rows = Oldest(grant, {n \in Waiting(licence, branch) \ busy : RowFree(n)})])
    BY <2>1 DEF RecordPayment
  <2> DEFINE rows == Oldest(grant, {n \in Waiting(licence, branch) \ busy : RowFree(n)})
             t    == [Idle EXCEPT !.pc = "count", !.via = "pay", !.key = k, !.grant = grant,
                                  !.rows = rows]
  <2>3. \A n \in rows : licence[n] = "unlicensed" /\ RowFree(n)
    BY DEF Oldest, Waiting
  <2>4. \A x \in Session : txn'[x] = IF x = s THEN t ELSE txn[x]
    BY <2>2 DEF Start, Typed, TypeOK
  <2> HIDE DEF rows
  <2>5. ~Enrolling(t) /\ t.rows = rows /\ t.key = k
    BY DEF Idle, Enrolling
  <2> HIDE DEF t
  <2>6. /\ UNCHANGED <<enrolled, licence, granted>>
        /\ granted[k] = 0
        /\ \A x \in Session : txn[x].key # k
    BY <2>1 DEF RecordPayment
  <2>7. Newcomers'
    BY <2>4, <2>5, <2>6 DEF Separate, Newcomers
  <2>8. \A x \in Session : Paying(txn[x]) => txn[x].rows \cap rows = {}
    BY <2>3 DEF RowFree, Paying
  <2>9. Queued'
    BY <2>3, <2>4, <2>5, <2>6, <2>8 DEF Separate, Queued
  <2>10. Keys'
    BY <2>4, <2>5, <2>6 DEF Separate, Keys
  <2>11. QED BY <2>7, <2>9, <2>10 DEF Separate
<1>3. QED BY <1>1, <1>2

(* What a refresh writes: the rows its payment took from the queue, or the *)
(* row of the student it enrolls.                                          *)
LEMMA Written ==
    ASSUME Typed, Separate, NEW s \in Session, txn[s].pc = "refresh", NEW n \in Student
    PROVE  LET t == txn[s]  new == LicencesWritten(t)[n] IN
           \/ /\ Paying(t) /\ t.key \in Key /\ ~Enrolling(t)
              /\ n \in t.rows /\ licence[n] = "unlicensed" /\ new = "licensed"
           \/ /\ ~Paying(t) /\ t.key = None /\ Enrolling(t)
              /\ n = t.n /\ licence[n] = "none"
              /\ new = IF n \in t.rows THEN "licensed" ELSE "unlicensed"
           \/ n \notin t.rows /\ n # t.n /\ new = licence[n]
<1> DEFINE t == txn[s]
           new == LicencesWritten(t)[n]
<1>1. RequestOK(t) /\ t.pc = "refresh"
  BY DEF Typed
<1>2. new = IF n \in t.rows THEN "licensed" ELSE IF n = t.n THEN "unlicensed" ELSE licence[n]
  BY DEF LicencesWritten
<1>3. CASE Paying(t)
  <2>1. t.key \in Key /\ t.n = None /\ ~Enrolling(t)
    BY <1>1, <1>3 DEF RequestOK, Paying, Enrolling
  <2>2. n # t.n
    BY <2>1, ConstantsAssumption
  <2>3. n \in t.rows => licence[n] = "unlicensed"
    BY <1>3 DEF Separate, Queued
  <2>4. QED BY <1>2, <1>3, <2>1, <2>2, <2>3
<1>4. CASE ~Paying(t)
  <2>1. t.key = None /\ Enrolling(t) /\ t.rows \subseteq {t.n}
    BY <1>1, <1>4 DEF RequestOK, Paying, Enrolling
  <2>2. licence[t.n] = "none"
    BY <2>1 DEF Separate, Newcomers
  <2>3. QED BY <1>2, <1>4, <2>1, <2>2
<1>5. QED BY <1>3, <1>4

LEMMA EndSeparate ==
    ASSUME Typed, Separate, NEW s \in Session,
           AllocateAndCommit(s) \/ RefreshAndCommit(s)
    PROVE  Separate'
<1> DEFINE t == txn[s]
<1>1. t \in Transaction /\ RequestOK(t) /\ TypeOK
  BY DEF Typed, TypeOK
<1>2. /\ \A x \in Session : txn'[x] = IF x = s THEN Idle ELSE txn[x]
      /\ enrolled' = enrolled
  BY <1>1 DEF AllocateAndCommit, RefreshAndCommit, Finish, TypeOK
<1>3. \A x \in Session : Enrolling(txn[x]) => txn[x].n \in Student
  BY DEF Typed, RequestOK
<1>4. \A x \in Session : Paying(txn[x]) => txn[x].rows \in SUBSET Student /\ txn[x].key \in Key
  BY DEF Typed, TypeOK, RequestOK, Transaction
<1>5. CASE AllocateAndCommit(s)
  <2>1. Enrolling(t) /\ granted' = granted
    BY <1>5 DEF AllocateAndCommit, Enrolling
  <2>2. \A n \in Student : n # t.n => licence'[n] = licence[n]
    BY <1>1, <1>5 DEF AllocateAndCommit, TypeOK
  <2>3. licence[t.n] = "none" /\ t.n <= enrolled /\ t.n \in Student
    BY <1>3, <2>1 DEF Separate, Newcomers
  <2>4. Newcomers'
    <3>1. \A n \in Student : n > enrolled' => licence'[n] = "none"
      <4>1. \A n \in Student : n > enrolled => n # t.n
        BY <1>1, <2>3, ConstantsAssumption DEF TypeOK, Student
      <4>2. QED BY <1>2, <2>2, <4>1 DEF Separate, Newcomers
    <3>2. \A x \in Session : Enrolling(txn'[x]) => /\ txn'[x].n <= enrolled'
                                                   /\ licence'[txn'[x].n] = "none"
      BY <1>2, <1>3, <2>1, <2>2, IdleIsNeither DEF Separate, Newcomers
    <3>3. \A x, y \in Session : /\ Enrolling(txn'[x]) /\ Enrolling(txn'[y])
                                /\ txn'[x].n = txn'[y].n
                                => x = y
      BY <1>2, IdleIsNeither DEF Separate, Newcomers
    <3>4. QED BY <3>1, <3>2, <3>3 DEF Newcomers
  <2>5. Queued'
    BY <1>2, <1>4, <2>2, <2>3, IdleIsNeither DEF Separate, Queued
  <2>6. Keys'
    BY <1>2, <2>1, IdleIsNeither DEF Separate, Keys
  <2>7. QED BY <2>4, <2>5, <2>6 DEF Separate
<1>6. CASE RefreshAndCommit(s)
  <2>1. /\ t.pc = "refresh"
        /\ licence' = LicencesWritten(t)
        /\ granted' = GrantsWritten(t)
    BY <1>6 DEF RefreshAndCommit
  <2>2. Enrolling(t) => t.n <= enrolled
    BY DEF Separate, Newcomers
  <2>3. Newcomers'
    <3>1. \A n \in Student : n > enrolled' => licence'[n] = "none"
      <4> SUFFICES ASSUME NEW n \in Student, n > enrolled PROVE licence'[n] = "none"
        BY <1>2
      <4>1. licence[n] = "none"
        BY DEF Separate, Newcomers
      <4>2. Enrolling(t) => n # t.n
        BY <1>1, <1>3, <2>2, ConstantsAssumption DEF TypeOK, Student
      <4>3. QED BY <2>1, <4>1, <4>2, Written
    <3>2. \A x \in Session : Enrolling(txn'[x]) => /\ txn'[x].n <= enrolled'
                                                   /\ licence'[txn'[x].n] = "none"
      <4> SUFFICES ASSUME NEW x \in Session, Enrolling(txn[x]), x # s
                   PROVE  txn[x].n <= enrolled /\ licence'[txn[x].n] = "none"
        BY <1>2, IdleIsNeither
      <4>1. /\ txn[x].n \in Student /\ txn[x].n <= enrolled
            /\ licence[txn[x].n] = "none"
        BY <1>3 DEF Separate, Newcomers
      <4>2. Enrolling(t) => txn[x].n # t.n
        BY DEF Separate, Newcomers
      <4>3. QED BY <2>1, <4>1, <4>2, Written
    <3>3. \A x, y \in Session : /\ Enrolling(txn'[x]) /\ Enrolling(txn'[y])
                                /\ txn'[x].n = txn'[y].n
                                => x = y
      BY <1>2, IdleIsNeither DEF Separate, Newcomers
    <3>4. QED BY <3>1, <3>2, <3>3 DEF Newcomers
  <2>4. Queued'
    <3>1. ASSUME NEW x \in Session, Paying(txn[x]), x # s, NEW n \in txn[x].rows
          PROVE  licence'[n] = "unlicensed"
      <4>1. n \in Student /\ licence[n] = "unlicensed"
        BY <1>4, <3>1 DEF Separate, Queued
      <4>2. Paying(t) => n \notin t.rows
        BY <3>1 DEF Separate, Queued
      <4>3. QED BY <2>1, <4>1, <4>2, Written
    <3>2. QED BY <1>2, <3>1, IdleIsNeither DEF Separate, Queued
  <2>5. Keys'
    <3>1. ASSUME NEW x \in Session, Paying(txn[x]), x # s
          PROVE  granted'[txn[x].key] = 0
      <4>1. txn[x].key \in Key /\ granted[txn[x].key] = 0
        BY <1>4, <3>1 DEF Separate, Keys
      <4>2. txn[x].key # t.key
        <5>1. CASE Paying(t)
          BY <3>1, <5>1 DEF Separate, Keys
        <5>2. CASE ~Paying(t)
          BY <1>1, <4>1, <5>2, ConstantsAssumption DEF RequestOK
        <5>3. QED BY <5>1, <5>2
      <4>3. QED BY <2>1, <4>1, <4>2 DEF GrantsWritten
    <3>2. QED BY <1>2, <3>1, IdleIsNeither DEF Separate, Keys
  <2>6. QED BY <2>3, <2>4, <2>5 DEF Separate
<1>7. QED BY <1>5, <1>6

LEMMA SeparateStep == Typed /\ Separate /\ [Next]_vars => Separate'
<1> SUFFICES ASSUME Typed, Separate, [Next]_vars PROVE Separate'
  OBVIOUS
<1>1. ASSUME UNCHANGED <<enrolled, licence, granted, txn>> PROVE Separate'
  BY <1>1 DEF Separate, Newcomers, Queued, Keys
<1>2. ASSUME NEW n \in Student, SetActive(n) \/ SetStudying(n) PROVE Separate'
  BY <1>1, <1>2 DEF SetActive, SetStudying
<1>3. CASE UNCHANGED vars
  BY <1>1, <1>3 DEF vars
<1>4. CASE Next
  BY <1>2, <1>4, BeginSeparate, RequestSeparate, EndSeparate DEF Next
<1>5. QED BY <1>3, <1>4

LEMMA SeparateInit == Init => Separate
BY IdleIsNeither, ConstantsAssumption DEF Init, Separate, Newcomers, Queued, Keys

THEOREM SeparateAlways == Spec => []Separate
BY SeparateInit, SeparateStep, TypedAlways, PTL DEF Spec

-----------------------------------------------------------------------------
(* What follows for the licences.                                          *)

(* The steps that write neither licences nor payments.                     *)
LEMMA OtherSteps ==
    ASSUME [Next]_vars,
           \A s \in Session : ~AllocateAndCommit(s) /\ ~RefreshAndCommit(s)
    PROVE  UNCHANGED <<licence, payer, granted>>
<1>1. ASSUME NEW s \in Session,
             \/ \E via \in {"admit", "create"} : Enroll(s, via)
             \/ AllocateAndHold(s)
             \/ \E k \in Key, grant \in 1..MaxGrant,
                   branch \in {None} \cup {BranchOf[n] : n \in Student} : RecordPayment(s, k, grant, branch)
             \/ CountPayment(s)
             \/ Reprice(s) \/ CountPurchased(s) \/ CountConsumed(s) \/ CountUnlicensed(s)
             \/ SaveCounts(s)
             \/ \E n \in Student : Delete(s, n)
             \/ Decrement(s) \/ Unlink(s) \/ Abort(s)
      PROVE  UNCHANGED <<licence, payer, granted>>
  BY <1>1 DEF Enroll, AllocateAndHold, RecordPayment, CountPayment, Reprice, CountPurchased,
              CountConsumed, CountUnlicensed, Counted, SaveCounts, Delete, Decrement, Unlink, Abort
<1>2. ASSUME NEW n \in Student, SetActive(n) \/ SetStudying(n)
      PROVE  UNCHANGED <<licence, payer, granted>>
  BY <1>2 DEF SetActive, SetStudying
<1>3. CASE UNCHANGED vars
  BY <1>3 DEF vars
<1>4. CASE Next
  BY <1>1, <1>2, <1>4 DEF Next
<1>5. QED BY <1>3, <1>4

LEMMA WriteOnceStep ==
    Typed /\ Separate /\ [Next]_vars =>
        [\A n \in Licensed(licence) : licence'[n] = "licensed" /\ payer'[n] = payer[n]]_vars
<1> SUFFICES ASSUME Typed, Separate, [Next]_vars, NEW n \in Licensed(licence)
             PROVE  licence'[n] = "licensed" /\ payer'[n] = payer[n]
  OBVIOUS
<1>1. n \in Student /\ licence[n] = "licensed"
  BY DEF Licensed
<1>2. ASSUME NEW s \in Session, AllocateAndCommit(s)
      PROVE  licence'[n] = "licensed" /\ payer'[n] = payer[n]
  <2>1. Enrolling(txn[s])
    BY <1>2 DEF AllocateAndCommit, Enrolling
  <2>2. licence[txn[s].n] = "none"
    BY <2>1 DEF Separate, Newcomers
  <2>3. n # txn[s].n
    BY <1>1, <2>2
  <2>4. licence'[n] = licence[n] /\ payer' = payer
    BY <1>1, <1>2, <2>3 DEF AllocateAndCommit, Typed, TypeOK
  <2>5. QED BY <1>1, <2>4
<1>3. ASSUME NEW s \in Session, RefreshAndCommit(s)
      PROVE  licence'[n] = "licensed" /\ payer'[n] = payer[n]
  <2>1. txn[s].pc = "refresh" /\ licence' = LicencesWritten(txn[s])
    BY <1>3 DEF RefreshAndCommit
  <2>2. n \notin txn[s].rows /\ licence'[n] = licence[n]
    BY <1>1, <2>1, Written
  <2>3. payer'[n] = payer[n]
    BY <1>1, <1>3, <2>2 DEF RefreshAndCommit
  <2>4. QED BY <1>1, <2>2, <2>3
<1>4. CASE \A s \in Session : ~AllocateAndCommit(s) /\ ~RefreshAndCommit(s)
  BY <1>1, <1>4, OtherSteps
<1>5. QED BY <1>2, <1>3, <1>4

(* No step changes a licence that a student has, nor the payment it came   *)
(* from: neither a second payment nor an enrolment under way.              *)
THEOREM LicenceWrittenOnce == Spec => LicenceIsWriteOnce
BY WriteOnceStep, TypedAlways, SeparateAlways, PTL DEF Spec, LicenceIsWriteOnce

-----------------------------------------------------------------------------
Converted(k) == {n \in Student : payer[n] = k}

LEMMA ConvertedInit == Init => ConvertedWithinGrant
<1> SUFFICES ASSUME Init, NEW k \in Key
             PROVE  Cardinality({n \in Student : payer[n] = k}) <= granted[k]
  BY DEF ConvertedWithinGrant
<1>1. {n \in Student : payer[n] = k} = {}
  BY ConstantsAssumption DEF Init
<1>2. QED BY <1>1, FS_EmptySet DEF Init

LEMMA ConvertedStep ==
    Typed /\ Separate /\ ConvertedWithinGrant /\ [Next]_vars => ConvertedWithinGrant'
<1> SUFFICES ASSUME Typed, Separate, ConvertedWithinGrant, [Next]_vars, NEW k \in Key
             PROVE  Cardinality(Converted(k)') <= granted'[k]
  BY DEF ConvertedWithinGrant, Converted
<1>1. Cardinality(Converted(k)) <= granted[k] /\ granted[k] \in Nat
  BY DEF ConvertedWithinGrant, Converted, Typed, TypeOK
<1>2. Converted(k) \in SUBSET Student /\ Converted(k)' \in SUBSET Student
  BY DEF Converted
<1>3. CASE UNCHANGED <<payer, granted>>
  BY <1>1, <1>3 DEF Converted
<1>4. ASSUME NEW s \in Session, RefreshAndCommit(s)
      PROVE  Cardinality(Converted(k)') <= granted'[k]
  <2> DEFINE t == txn[s]
  <2>1. /\ t.pc = "refresh"
        /\ payer' = [n \in Student |-> IF n \in t.rows THEN t.key ELSE payer[n]]
        /\ granted' = GrantsWritten(t)
    BY <1>4 DEF RefreshAndCommit
  <2>2. t \in Transaction /\ RequestOK(t)
    BY DEF Typed, TypeOK
  <2>3. CASE t.key = k
    <3>1. Paying(t)
      BY <2>2, <2>3, ConstantsAssumption DEF RequestOK
    <3>2. granted[k] = 0 /\ granted'[k] = t.grant /\ Cardinality(t.rows) <= t.grant
      BY <2>1, <2>2, <2>3, <3>1 DEF Separate, Keys, GrantsWritten, RequestOK
    <3>3. Cardinality(Converted(k)) \in Nat
      BY <1>2, StudentsFinite
    <3>4. Cardinality(Converted(k)) = 0
      BY <1>1, <3>2, <3>3
    <3>5. Converted(k) = {}
      BY <1>2, <3>4, StudentsFinite, FS_EmptySet
    <3>6. Converted(k)' = t.rows
      <4>1. t.rows \in SUBSET Student
        BY <2>2 DEF Transaction
      <4>2. \A n \in Student : payer[n] # k
        BY <3>5 DEF Converted
      <4>3. \A n \in Student : payer'[n] = k <=> n \in t.rows
        BY <2>1, <2>3, <4>2
      <4>4. QED BY <4>1, <4>3 DEF Converted
    <3>7. QED BY <3>2, <3>6
  <2>4. CASE t.key # k
    <3>1. granted'[k] = granted[k]
      BY <2>1, <2>4 DEF GrantsWritten
    <3>2. Converted(k)' \in SUBSET Converted(k)
      BY <2>1, <2>4 DEF Converted
    <3>3. /\ Cardinality(Converted(k)') <= Cardinality(Converted(k))
          /\ Cardinality(Converted(k)) \in Nat /\ Cardinality(Converted(k)') \in Nat
      BY <1>2, <3>2, StudentsFinite, FS_Subset
    <3>4. QED BY <1>1, <3>1, <3>3
  <2>5. QED BY <2>3, <2>4
<1>5. CASE \E s \in Session : AllocateAndCommit(s)
  BY <1>3, <1>5 DEF AllocateAndCommit
<1>6. QED BY <1>3, <1>4, <1>5, OtherSteps

(* However requests overlap, a payment converts at most as many students   *)
(* as it grants licences.                                                  *)
THEOREM ConvertedWithin == Spec => []ConvertedWithinGrant
BY ConvertedInit, ConvertedStep, TypedAlways, SeparateAlways, PTL DEF Spec

-----------------------------------------------------------------------------
(* The counters, as long as nobody wrote over them.                        *)

(* The licensed students and the bought licences after a step.             *)
LEMMA LicensedAfterEnrolment ==
    ASSUME TypeOK, NEW n \in Student, licence[n] = "none",
           licence' = [licence EXCEPT ![n] = "licensed"]
    PROVE  Cardinality(Licensed(licence')) = Cardinality(Licensed(licence)) + 1
<1>1. Licensed(licence') = Licensed(licence) \cup {n}
  BY DEF Licensed, TypeOK
<1>2. n \notin Licensed(licence)
  BY DEF Licensed
<1>3. IsFiniteSet(Licensed(licence))
  BY StudentsFinite DEF Licensed
<1>4. QED BY <1>1, <1>2, <1>3, FS_AddElement

(* Each payment recorded adds the licences it grants.                      *)
LEMMA BoughtAfterPayment ==
    ASSUME TypeOK, NEW k \in Key, NEW grant \in 1..MaxGrant, granted[k] = 0,
           NEW after, after = [x \in Key |-> IF x = k THEN grant ELSE granted[x]]
    PROVE  Cardinality(Bought(after)) = Cardinality(Bought(granted)) + grant
<1> DEFINE Units == {k} \X (1..grant)
<1>1. granted \in [Key -> 0..MaxGrant] /\ grant \in Nat /\ grant <= MaxGrant /\ MaxGrant \in Nat
  BY ConstantsAssumption DEF TypeOK
<1>2. Bought(after) = Bought(granted) \cup Units
  <2>1. ASSUME NEW x \in Key, NEW j \in 1..MaxGrant
        PROVE  <<x, j>> \in Bought(after) <=> <<x, j>> \in Bought(granted) \cup Units
    <3>1. <<x, j>> \in Bought(after) <=> j <= after[x]
      BY DEF Bought
    <3>2. <<x, j>> \in Bought(granted) <=> j <= granted[x]
      BY DEF Bought
    <3>3. <<x, j>> \in Units <=> x = k /\ j \in 1..grant
      OBVIOUS
    <3>4. j \in Nat /\ j >= 1
      BY <1>1
    <3>5. CASE x = k
      <4>1. after[x] = grant /\ granted[x] = 0
        BY <3>5
      <4> HIDE DEF Units
      <4>2. QED BY <1>1, <3>1, <3>2, <3>3, <3>4, <3>5, <4>1
    <3>6. CASE x # k
      <4>1. after[x] = granted[x]
        BY <3>6
      <4> HIDE DEF Units
      <4>2. QED BY <3>1, <3>2, <3>3, <3>6, <4>1
    <3>7. QED BY <3>5, <3>6
  <2>2. /\ Bought(after) \subseteq Key \X (1..MaxGrant)
        /\ Bought(granted) \subseteq Key \X (1..MaxGrant)
    BY DEF Bought
  <2>3. Units \subseteq Key \X (1..MaxGrant)
    BY <1>1
  <2> HIDE DEF Units
  <2>4. QED BY <2>1, <2>2, <2>3
<1>3. Bought(granted) \cap Units = {}
  <2>1. \A j \in 1..MaxGrant : ~(j <= granted[k])
    BY <1>1
  <2>2. \A u \in Bought(granted) : u[1] # k
    BY <2>1 DEF Bought
  <2>3. QED BY <2>2
<1>4. IsFiniteSet(Units) /\ Cardinality(Units) = grant
  <2>1. IsFiniteSet({k}) /\ Cardinality({k}) = 1
    BY FS_Singleton
  <2>2. IsFiniteSet(1..grant) /\ Cardinality(1..grant) = grant
    BY <1>1, FS_Interval
  <2>3. IsFiniteSet(Units) /\ Cardinality(Units) = Cardinality({k}) * Cardinality(1..grant)
    BY <2>1, <2>2, FS_Product
  <2>4. QED BY <1>1, <2>1, <2>2, <2>3
<1> HIDE DEF Units
<1>5. Cardinality(Bought(granted) \cup Units)
        = Cardinality(Bought(granted)) + Cardinality(Units) - Cardinality(Bought(granted) \cap Units)
  BY <1>4, BoughtFinite, FS_Union
<1>6. Cardinality(Bought(granted) \cap Units) = 0
  BY <1>3, FS_EmptySet
<1>7. Cardinality(Bought(granted)) \in Nat
  BY BoughtFinite
<1>8. Cardinality(Bought(granted) \cup Units) = Cardinality(Bought(granted)) + grant
  <2>1. Cardinality(Bought(granted) \cup Units) = Cardinality(Bought(granted)) + grant - 0
    BY <1>4, <1>5, <1>6, Zenon
  <2>2. QED BY <1>1, <1>7, <2>1
<1>9. QED BY <1>2, <1>8, Zenon

LEMMA BalancedInit == Init => Balanced
<1> SUFFICES ASSUME Init PROVE Balanced
  OBVIOUS
<1>1. Licensed(licence) = {} /\ Bought(granted) = {}
  BY ConstantsAssumption DEF Init, Licensed, Bought
<1>2. Cardinality(Licensed(licence)) = 0 /\ Cardinality(Bought(granted)) = 0
  BY <1>1, FS_EmptySet
<1>3. Capacity
  BY IdleIsNeither DEF Init, Capacity
<1>4. QED BY <1>2, <1>3 DEF Init, Balanced, Matching, Covered, ConsumedIn, PurchasedIn

LEMMA BalancedStep ==
    Typed /\ Separate /\ Balanced /\ [Next]_vars => Balanced' \/ overwritten' = "now"
<1> SUFFICES ASSUME Typed, Separate, Balanced, [Next]_vars, overwritten' # "now"
             PROVE  Balanced'
  OBVIOUS
<1>1. /\ summary.consumed = Cardinality(Licensed(licence))
      /\ summary.purchased = Cardinality(Bought(granted))
      /\ Cardinality(Licensed(licence)) <= Cardinality(Bought(granted))
      /\ Cardinality(Licensed(licence)) \in Nat /\ Cardinality(Bought(granted)) \in Nat
  <2>1. Licensed(licence) \in SUBSET Student
    BY DEF Licensed
  <2>2. QED
    BY <2>1, StudentsFinite, BoughtFinite
       DEF Balanced, Matching, Covered, ConsumedIn, PurchasedIn
<1>2. txn \in [Session -> Transaction] /\ summary \in Summary
  BY DEF Typed, TypeOK
<1>3. \A x \in Session : Enrolling(txn[x]) /\ txn[x].rows # {} => txn[x].holds
  BY DEF Typed, RequestOK, Enrolling
<1>4. ASSUME UNCHANGED <<licence, granted>>,
             summary'.consumed = summary.consumed,
             summary'.purchased = summary.purchased
      PROVE  (Matching /\ Covered)'
  BY <1>1, <1>4 DEF Matching, Covered, ConsumedIn, PurchasedIn
<1>5. ASSUME NEW s \in Session, Finish(s),
             \/ txn[s].holds \/ SummaryFree
             \/ summary'.consumed = summary.consumed /\ summary'.purchased = summary.purchased
      PROVE  Capacity'
  <2>1. \A x \in Session : txn'[x] = IF x = s THEN Idle ELSE txn[x]
    BY <1>2, <1>5 DEF Finish
  <2>2. QED
    BY <1>3, <1>5, <2>1, IdleIsNeither
       DEF Balanced, Capacity, Typed, OneHolder, SummaryFree
<1>6. ASSUME NEW s \in Session, AllocateAndCommit(s) PROVE Balanced'
  <2> DEFINE n == txn[s].n
  <2>1. /\ SummaryFree /\ Finish(s) /\ granted' = granted
        /\ licence' = [licence EXCEPT ![n] = IF HasCapacity THEN "licensed" ELSE "unlicensed"]
        /\ summary' = IF HasCapacity THEN [summary EXCEPT !.consumed = @ + 1]
                                     ELSE [summary EXCEPT !.unlicensed = @ + 1]
    BY <1>6 DEF AllocateAndCommit
  <2>2. Enrolling(txn[s])
    BY <1>6 DEF AllocateAndCommit, Enrolling
  <2>3. n \in Student /\ licence[n] = "none"
    BY <2>2 DEF Typed, RequestOK, Separate, Newcomers
  <2> HIDE DEF n
  <2>4. (Matching /\ Covered)'
    <3>1. CASE HasCapacity
      <4>1. /\ summary'.consumed = summary.consumed + 1
            /\ summary'.purchased = summary.purchased
            /\ summary.consumed < summary.purchased
        BY <1>2, <2>1, <3>1 DEF HasCapacity, Summary
      <4>2. Cardinality(Licensed(licence')) = Cardinality(Licensed(licence)) + 1
        BY <2>1, <2>3, <3>1, LicensedAfterEnrolment DEF Typed
      <4>3. QED
        BY <1>1, <2>1, <4>1, <4>2 DEF Matching, Covered, ConsumedIn, PurchasedIn
    <3>2. CASE ~HasCapacity
      <4>1. /\ summary'.consumed = summary.consumed
            /\ summary'.purchased = summary.purchased
        BY <1>2, <2>1, <3>2 DEF Summary
      <4>2. Licensed(licence') = Licensed(licence)
        BY <2>1, <2>3, <3>2 DEF Licensed, Typed, TypeOK
      <4>3. QED
        BY <1>1, <2>1, <4>1, <4>2 DEF Matching, Covered, ConsumedIn, PurchasedIn
    <3>3. QED BY <3>1, <3>2
  <2>5. QED BY <1>5, <2>1, <2>4 DEF Balanced
<1>7. ASSUME NEW s \in Session, RefreshAndCommit(s) PROVE Balanced'
  <2> DEFINE t == txn[s]
  <2>1. /\ t.pc = "refresh" /\ Finish(s)
        /\ licence' = LicencesWritten(t)
        /\ granted' = GrantsWritten(t)
        /\ summary' = Recount(licence', granted')
    BY <1>7 DEF RefreshAndCommit
  <2>2. t \in Transaction /\ RequestOK(t) /\ t.holds
    BY <1>2, <2>1 DEF Typed, RequestOK
  <2>3. Matching'
    BY <2>1 DEF Recount, Matching
  <2>4. Licensed(licence') = Licensed(licence) \cup t.rows
    <3>1. t.rows \in SUBSET Student
      BY <2>2 DEF Transaction
    <3>2. \A n \in Student : licence'[n] = "licensed" <=> licence[n] = "licensed" \/ n \in t.rows
      BY <2>1, Written
    <3>3. QED BY <3>1, <3>2 DEF Licensed
  <2>5. Covered'
    <3>1. CASE Paying(t)
      <4>1. /\ t.key \in Key /\ t.grant \in 1..MaxGrant
            /\ Cardinality(t.rows) <= t.grant
        BY <2>2, <3>1, ConstantsAssumption DEF RequestOK, Transaction
      <4>2. granted[t.key] = 0
        BY <3>1 DEF Separate, Keys
      <4>3. Cardinality(Bought(granted')) = Cardinality(Bought(granted)) + t.grant
        BY <2>1, <4>1, <4>2, BoughtAfterPayment DEF Typed, GrantsWritten
      <4>4. IsFiniteSet(Licensed(licence)) /\ IsFiniteSet(t.rows) /\ Cardinality(t.rows) \in Nat
        BY <2>2, StudentsFinite DEF Licensed, Transaction
      <4>5. Cardinality(Licensed(licence')) <= Cardinality(Licensed(licence)) + Cardinality(t.rows)
        <5>1. Cardinality(Licensed(licence'))
                = Cardinality(Licensed(licence)) + Cardinality(t.rows)
                    - Cardinality(Licensed(licence) \cap t.rows)
          BY <2>4, <4>4, FS_Union
        <5>2. Cardinality(Licensed(licence) \cap t.rows) \in Nat
          BY <4>4, FS_Intersection, FS_CardinalityType
        <5> HIDE DEF t
        <5>3. QED BY <1>1, <4>4, <5>1, <5>2
      <4>6. t.grant \in Nat /\ Cardinality(Licensed(licence')) \in Nat
        BY <4>1, StudentsFinite DEF Licensed
      <4> HIDE DEF t
      <4>7. QED BY <1>1, <4>1, <4>3, <4>4, <4>5, <4>6 DEF Covered
    <3>2. CASE ~Paying(t)
      <4>1. granted' = granted
        <5>1. t.key = None
          BY <2>2, <3>2 DEF RequestOK
        <5>2. QED BY <2>1, <5>1, ConstantsAssumption DEF GrantsWritten, Typed, TypeOK
      <4>2. Enrolling(t) /\ t.rows \subseteq {t.n}
        BY <2>1, <2>2, <3>2 DEF RequestOK, Enrolling, Paying
      <4>3. CASE t.rows = {}
        BY <1>1, <2>4, <4>1, <4>3 DEF Covered
      <4>4. CASE t.rows # {}
        <5>1. summary.consumed < summary.purchased
          BY <4>2, <4>4 DEF Balanced, Capacity
        <5>2. Licensed(licence') = Licensed(licence) \cup {t.n}
          BY <2>4, <4>2, <4>4
        <5>3. IsFiniteSet(Licensed(licence))
          BY StudentsFinite DEF Licensed
        <5>4. Cardinality(Licensed(licence')) <= Cardinality(Licensed(licence)) + 1
          <6>1. Cardinality(Licensed(licence) \cup {t.n}) =
                  IF t.n \in Licensed(licence) THEN Cardinality(Licensed(licence))
                  ELSE Cardinality(Licensed(licence)) + 1
            BY <5>3, FS_AddElement
          <6>2. QED BY <1>1, <5>2, <6>1
        <5>5. Cardinality(Licensed(licence')) \in Nat
          BY StudentsFinite DEF Licensed
        <5>6. QED BY <1>1, <4>1, <5>1, <5>4, <5>5 DEF Covered
      <4>5. QED BY <4>3, <4>4
    <3>3. QED BY <3>1, <3>2
  <2>6. QED BY <1>5, <2>1, <2>2, <2>3, <2>5 DEF Balanced
<1>8. ASSUME NEW s \in Session, SaveCounts(s) PROVE FALSE
  BY <1>8 DEF SaveCounts
<1>9. ASSUME NEW s \in Session, Unlink(s) PROVE Balanced'
  <2>1. /\ Finish(s) /\ UNCHANGED <<licence, granted>>
        /\ summary'.consumed = summary.consumed
        /\ summary'.purchased = summary.purchased
    BY <1>2, <1>9 DEF Unlink, AfterDelete, Summary
  <2>2. QED BY <1>4, <1>5, <2>1 DEF Balanced
<1>10. ASSUME NEW s \in Session, Abort(s) PROVE Balanced'
  BY <1>4, <1>5, <1>10 DEF Abort, Balanced
<1>11. ASSUME NEW s \in Session, NEW u, txn' = [txn EXCEPT ![s] = u],
              UNCHANGED <<licence, granted, summary>>,
              Enrolling(u) /\ u.rows # {} => HasCapacity
       PROVE  Balanced'
  <2>1. \A x \in Session : txn'[x] = IF x = s THEN u ELSE txn[x]
    BY <1>2, <1>11
  <2>2. Capacity'
    BY <1>11, <2>1 DEF Balanced, Capacity, HasCapacity
  <2>3. QED BY <1>4, <1>11, <2>2 DEF Balanced
<1>12. ASSUME NEW s \in Session,
              \/ \E via \in {"admit", "create"} : Enroll(s, via)
              \/ Reprice(s)
              \/ \E n \in Student : Delete(s, n)
       PROVE  Balanced'
  <2>1. UNCHANGED <<licence, granted, summary>>
    BY <1>12 DEF Enroll, Reprice, Delete
  <2>2. ASSUME NEW fields, Start(s, fields), fields.rows = {} PROVE Balanced'
    BY <1>11, <2>1, <2>2 DEF Start
  <2>3. QED BY <1>12, <2>2 DEF Enroll, Reprice, Delete, Idle
<1>13. ASSUME NEW s \in Session, NEW k \in Key, NEW grant \in 1..MaxGrant,
              NEW branch \in {None} \cup {BranchOf[n] : n \in Student},
              RecordPayment(s, k, grant, branch)
       PROVE  Balanced'
  <2>1. PICK u : /\ txn' = [txn EXCEPT ![s] = u] /\ u.pc = "count"
                 /\ UNCHANGED <<licence, granted, summary>>
    BY <1>13 DEF RecordPayment, Start, Idle
  <2>2. QED BY <1>11, <2>1 DEF Enrolling
<1>14. ASSUME NEW s \in Session, AllocateAndHold(s) PROVE Balanced'
  <2> DEFINE u == [txn[s] EXCEPT !.pc = "refresh", !.holds = TRUE,
                                 !.rows = IF HasCapacity THEN {txn[s].n} ELSE {}]
  <2>1. txn' = [txn EXCEPT ![s] = u] /\ UNCHANGED <<licence, granted, summary>>
    BY <1>2, <1>14 DEF AllocateAndHold
  <2>2. u.rows # {} => HasCapacity
    BY <1>2 DEF Transaction
  <2> HIDE DEF u
  <2>3. QED BY <1>11, <2>1, <2>2
<1>15. ASSUME NEW s \in Session, CountPayment(s) \/ Decrement(s) PROVE Balanced'
  <2> DEFINE u == [txn[s] EXCEPT !.pc = IF txn[s].pc = "count" THEN "refresh" ELSE "unlink",
                                 !.holds = TRUE]
  <2>1. txn' = [txn EXCEPT ![s] = u] /\ UNCHANGED <<licence, granted, summary>>
    BY <1>2, <1>15 DEF CountPayment, Decrement
  <2>2. ~Enrolling(u)
    <3>1. txn[s].pc = "count" => Paying(txn[s])
      BY DEF Typed, RequestOK
    <3>2. QED BY <1>2, <3>1 DEF Enrolling, Paying, Transaction
  <2> HIDE DEF u
  <2>3. QED BY <1>11, <2>1, <2>2
<1>16. ASSUME NEW s \in Session, CountPurchased(s) \/ CountConsumed(s) \/ CountUnlicensed(s)
       PROVE  Balanced'
  <2>1. \A x \in Session : /\ txn'[x].via = txn[x].via /\ txn'[x].rows = txn[x].rows
                           /\ txn'[x].pc = txn[x].pc \/ ~Enrolling(txn'[x])
    <3>1. txn[s].via = "reprice"
      BY <1>16 DEF CountPurchased, CountConsumed, CountUnlicensed, Counted, Typed, RequestOK
    <3>2. QED
      BY <1>2, <1>16, <3>1
         DEF CountPurchased, CountConsumed, CountUnlicensed, Counted, Transaction, Enrolling
  <2>2. UNCHANGED <<licence, granted, summary>>
    BY <1>16 DEF CountPurchased, CountConsumed, CountUnlicensed, Counted
  <2>3. Capacity'
    BY <2>1, <2>2 DEF Balanced, Capacity, Enrolling
  <2>4. QED BY <1>4, <2>2, <2>3 DEF Balanced
<1>17. ASSUME UNCHANGED <<licence, granted, summary, txn>> PROVE Balanced'
  BY <1>4, <1>17 DEF Balanced, Capacity
<1>18. ASSUME NEW n \in Student, SetActive(n) \/ SetStudying(n) PROVE Balanced'
  BY <1>17, <1>18 DEF SetActive, SetStudying
<1>19. CASE UNCHANGED vars
  BY <1>17, <1>19 DEF vars
<1>20. CASE Next
  BY <1>6, <1>7, <1>8, <1>9, <1>10, <1>12, <1>13, <1>14, <1>15, <1>16, <1>18, <1>20 DEF Next
<1>21. QED BY <1>19, <1>20

(* What a step does to the counters, whoever wrote over them before.       *)
LEMMA MatchingStep ==
    Typed /\ Separate /\ CountersMatchRows /\ [Next]_vars => CountersMatchRows'
<1> SUFFICES ASSUME Typed, Separate, CountersMatchRows, [Next]_vars, overwritten' # "now"
             PROVE  Matching'
  BY DEF CountersMatchRows, Matching
<1>1. ASSUME UNCHANGED <<licence, granted, overwritten>>,
             summary'.consumed = summary.consumed,
             summary'.purchased = summary.purchased
      PROVE  Matching'
  BY <1>1 DEF CountersMatchRows, Matching, ConsumedIn, PurchasedIn
<1>2. summary \in Summary
  BY DEF Typed, TypeOK
<1>3. ASSUME NEW s \in Session, AllocateAndCommit(s) PROVE Matching'
  <2> DEFINE n == txn[s].n
  <2>1. /\ granted' = granted /\ overwritten' = overwritten
        /\ licence' = [licence EXCEPT ![n] = IF HasCapacity THEN "licensed" ELSE "unlicensed"]
        /\ summary' = IF HasCapacity THEN [summary EXCEPT !.consumed = @ + 1]
                                     ELSE [summary EXCEPT !.unlicensed = @ + 1]
    BY <1>3 DEF AllocateAndCommit
  <2>2. Enrolling(txn[s])
    BY <1>3 DEF AllocateAndCommit, Enrolling
  <2>3. n \in Student /\ licence[n] = "none"
    BY <2>2 DEF Typed, RequestOK, Separate, Newcomers
  <2>4. Matching
    BY <2>1 DEF CountersMatchRows, Matching
  <2> HIDE DEF n
  <2>5. CASE HasCapacity
    <3>1. /\ summary'.consumed = summary.consumed + 1
          /\ summary'.purchased = summary.purchased
      BY <1>2, <2>1, <2>5 DEF Summary
    <3>2. Cardinality(Licensed(licence')) = Cardinality(Licensed(licence)) + 1
      BY <2>1, <2>3, <2>5, LicensedAfterEnrolment DEF Typed
    <3>3. QED BY <2>1, <2>4, <3>1, <3>2 DEF Matching, ConsumedIn, PurchasedIn
  <2>6. CASE ~HasCapacity
    <3>1. /\ summary'.consumed = summary.consumed
          /\ summary'.purchased = summary.purchased
      BY <1>2, <2>1, <2>6 DEF Summary
    <3>2. Licensed(licence') = Licensed(licence)
      BY <2>1, <2>3, <2>6 DEF Licensed, Typed, TypeOK
    <3>3. QED BY <2>1, <2>4, <3>1, <3>2 DEF Matching, ConsumedIn, PurchasedIn
  <2>7. QED BY <2>5, <2>6
<1>4. ASSUME NEW s \in Session, RefreshAndCommit(s) PROVE Matching'
  BY <1>4 DEF RefreshAndCommit, Recount, Matching
<1>5. ASSUME NEW s \in Session, SaveCounts(s) PROVE FALSE
  BY <1>5 DEF SaveCounts
<1>6. ASSUME NEW s \in Session, Unlink(s) PROVE Matching'
  BY <1>1, <1>2, <1>6 DEF Unlink, AfterDelete, Summary
<1>7. CASE UNCHANGED <<licence, granted, summary, overwritten>>
  BY <1>1, <1>7
<1>8. ASSUME NEW s \in Session,
             \/ \E via \in {"admit", "create"} : Enroll(s, via)
             \/ AllocateAndHold(s) \/ CountPayment(s) \/ Reprice(s)
             \/ CountPurchased(s) \/ CountConsumed(s) \/ CountUnlicensed(s)
             \/ \E n \in Student : Delete(s, n)
             \/ Decrement(s) \/ Abort(s)
      PROVE  UNCHANGED <<licence, granted, summary, overwritten>>
  BY <1>8 DEF Enroll, AllocateAndHold, CountPayment, Reprice, CountPurchased, CountConsumed,
              CountUnlicensed, Counted, Delete, Decrement, Abort
<1>9. ASSUME NEW s \in Session, NEW k \in Key, NEW grant \in 1..MaxGrant,
             NEW branch \in {None} \cup {BranchOf[n] : n \in Student},
             RecordPayment(s, k, grant, branch)
      PROVE  UNCHANGED <<licence, granted, summary, overwritten>>
  BY <1>9 DEF RecordPayment
<1>10. ASSUME NEW n \in Student, SetActive(n) \/ SetStudying(n)
       PROVE  UNCHANGED <<licence, granted, summary, overwritten>>
  BY <1>10 DEF SetActive, SetStudying
<1>11. CASE UNCHANGED vars
  BY <1>7, <1>11 DEF vars
<1>12. CASE Next
  BY <1>3, <1>4, <1>5, <1>6, <1>7, <1>8, <1>9, <1>10, <1>12 DEF Next
<1>13. QED BY <1>11, <1>12

(* The counters that decide agree with the rows they count in every state, *)
(* but between a refresh that did not hold the row and the next that does. *)
THEOREM CountersMatch == Spec => []CountersMatchRows
<1>1. Init => CountersMatchRows
  BY BalancedInit DEF Balanced, Matching, CountersMatchRows
<1>2. QED BY <1>1, MatchingStep, TypedAlways, SeparateAlways, PTL DEF Spec

(* Once written over, the counters were written over for good.             *)
LEMMA NeverBefore == Typed /\ [Next]_vars /\ overwritten' = "never" => overwritten = "never"
BY DEF Next, vars, Enroll, AllocateAndCommit, AllocateAndHold, RecordPayment, CountPayment,
       RefreshAndCommit, Reprice, CountPurchased, CountConsumed, CountUnlicensed, Counted,
       SaveCounts, Delete, Decrement, Unlink, SetActive, SetStudying, Abort

(* And as long as nobody has written over them, no school has more         *)
(* licensed students than licences it bought.                              *)
THEOREM NoOverselling == Spec => []NeverOversold
<1> DEFINE Inv == overwritten = "never" => Balanced
<1>1. Init => Inv
  BY BalancedInit
<1>2. Typed /\ Separate /\ Inv /\ [Next]_vars => Inv'
  BY BalancedStep, NeverBefore
<1>3. Inv => NeverOversold
  BY DEF Balanced, Covered, NeverOversold
<1>4. QED BY <1>1, <1>2, <1>3, TypedAlways, SeparateAlways, PTL DEF Spec
=============================================================================
