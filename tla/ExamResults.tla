---------------------------- MODULE ExamResults ----------------------------
(***************************************************************************)
(* The results of one exam (apps/examinations): marks are entered and      *)
(* submitted, the results are computed and confirmed with a token,         *)
(* published, and revised.                                                 *)
(*                                                                         *)
(* A request is a database transaction at READ COMMITTED: what it writes   *)
(* is seen when it commits, what it reads is what has been committed.      *)
(* Publishing locks the exam's row; every other request reads without a    *)
(* lock and writes later.  The confirmation token is in the cache and the  *)
(* report cards are in the object store: both are written at once, and     *)
(* stay when the transaction rolls back.                                   *)
(*                                                                         *)
(* A student stands for a student in a subject, a mark for what is entered *)
(* (absence included); totals, percentages and grades are functions of     *)
(* the marks and are left out.                                             *)
(*                                                                         *)
(* A definition above one whose name it extends is a mistaken variant of   *)
(* it, which no action uses.                                               *)
(***************************************************************************)
EXTENDS Naturals, Sequences, FiniteSets

CONSTANTS
    Student,        \* registered students
    Mark,           \* the marks that may be entered
    Grace,          \* the grace marks that may be granted, 0 among them
    Request,        \* slots for requests under way
    MaxVersion,     \* bound: versions an edit may start from
    MaxRevisions,   \* bound: publications of the exam
    Ops             \* the optional operations and faults to explore

ASSUME GraceAssumption == Grace \subseteq Nat /\ 0 \in Grace
ASSUME StudentAssumption == IsFiniteSet(Student)
ASSUME BoundAssumption == MaxVersion \in Nat /\ MaxRevisions \in Nat
ASSUME RequestAssumption == {"nobody", "client"} \cap Request = {}

VARIABLES
    marks,      \* MarksEntry, by student
    exam,       \* Exam: is_published and result_status
    pubs,       \* ResultPublication, in the order of creation
    result,     \* StudentResult, by student
    card,       \* the report card or mark sheet in the store, by student
    token,      \* the confirmation in the cache
    txn         \* requests under way

vars == <<marks, exam, pubs, result, card, token, txn>>

-----------------------------------------------------------------------------
NoEntry  == [status |-> "none"]
NoResult == [pub |-> 0]
NoCard   == [stored |-> FALSE]
NoToken  == [by |-> "nobody"]
Idle     == [pc |-> "idle"]

Init ==
    /\ marks = [s \in Student |-> NoEntry]
    /\ exam = [published |-> FALSE, status |-> "provisional"]
    /\ pubs = <<>>
    /\ result = [s \in Student |-> NoResult]
    /\ card = [s \in Student |-> NoCard]
    /\ token = NoToken
    /\ txn = [r \in Request |-> Idle]

Drafts    == {s \in Student : marks[s].status = "draft"}
Submitted == {s \in Student : marks[s].status \in {"submitted", "locked"}}

(* _marks_snapshot_rows: what the hash of a snapshot depends on.           *)
Snapshot == [s \in Submitted |-> [mark   |-> marks[s].mark,
                                  grace  |-> marks[s].grace,
                                  status |-> marks[s].status]]

(* _final_marks, as far as it depends on the entry.                        *)
Final(row) == [mark |-> row.mark, grace |-> row.grace]

CurrentPubs == {i \in 1..Len(pubs) : pubs[i].current}

(* Publishing holds the exam's row from the SELECT FOR UPDATE on.  A       *)
(* publication that is inserted and not committed holds up any other: the  *)
(* unique index cannot tell yet.                                           *)
ExamFree(r) ==
    \A q \in Request \ {r} : txn[q].pc \notin
        {"publish_read", "publish_insert", "publish_store"}
IndexFree(r) ==
    \A q \in Request \ {r} : txn[q].pc \notin {"publish_store", "revise_store"}

Step(r, local) == txn' = [txn EXCEPT ![r] = local]
End(r) == Step(r, Idle)
Allowed(r, op) == txn[r] = Idle /\ op \in Ops

-----------------------------------------------------------------------------
(* Entering marks.  A save writes what it has read, with the new mark and  *)
(* the next version; the status is not among the fields it writes.  An     *)
(* entry that is no longer a draft is edited only by an administrator who  *)
(* overrides.  When two requests create the entry, the second one finds    *)
(* the first one's, and changes it only if it is a draft.  Creating one    *)
(* waits at the commit for the exam's row, which its key refers to.        *)
BeginSave(r) ==
    /\ Allowed(r, "save")
    /\ \E s \in Student, m \in Mark, override \in BOOLEAN :
        /\ \/ marks[s].status \in {"none", "draft"}
           \/ override /\ "override" \in Ops
        /\ marks[s] # NoEntry => marks[s].version < MaxVersion
        /\ Step(r, [pc |-> "save", s |-> s, mark |-> m, read |-> marks[s]])
    /\ UNCHANGED <<marks, exam, pubs, result, card, token>>

Edited(e, mark, version)   == [e EXCEPT !.mark = mark, !.version = version]
Granted(e, grace, version) == [e EXCEPT !.grace = grace, !.version = version]
Moved(e, status)           == [e EXCEPT !.status = status, !.version = @ + 1]

SavedAllFields(r) ==
    LET t == txn[r] IN Edited(t.read, t.mark, t.read.version + 1)

Saved(r) ==
    LET t == txn[r] IN Edited(marks[t.s], t.mark, t.read.version + 1)

Create(r) ==
    LET t == txn[r]
    IN  /\ t.read = NoEntry
        /\ IF marks[t.s] = NoEntry
           THEN /\ ExamFree(r)
                /\ marks' = [marks EXCEPT ![t.s] =
                       [mark |-> t.mark, grace |-> 0, status |-> "draft", version |-> 1]]
           ELSE IF marks[t.s].status = "draft"
           THEN marks' = [marks EXCEPT ![t.s] =
                       Edited(marks[t.s], t.mark, marks[t.s].version + 1)]
           ELSE UNCHANGED marks

CommitSave(r) ==
    /\ txn[r].pc = "save"
    /\ \/ Create(r)
       \/ /\ txn[r].read # NoEntry
          /\ marks' = [marks EXCEPT ![txn[r].s] = Saved(r)]
    /\ End(r)
    /\ UNCHANGED <<exam, pubs, result, card, token>>

(* patch_marks_entry: the client sends the version it has seen, and the    *)
(* UPDATE applies to a draft with that version only.                       *)
BeginPatch(r) ==
    /\ Allowed(r, "patch")
    /\ \E s \in Drafts, m \in Mark :
        /\ marks[s].version < MaxVersion
        /\ Step(r, [pc |-> "patch", s |-> s, mark |-> m, read |-> marks[s]])
    /\ UNCHANGED <<marks, exam, pubs, result, card, token>>

CommitPatch(r) ==
    LET t == txn[r]
    IN  /\ t.pc = "patch"
        /\ marks' = IF marks[t.s].status = "draft" /\ marks[t.s].version = t.read.version
                    THEN [marks EXCEPT ![t.s] =
                              Edited(marks[t.s], t.mark, marks[t.s].version + 1)]
                    ELSE marks
        /\ End(r)
        /\ UNCHANGED <<exam, pubs, result, card, token>>

(* submit_slot_marks: one UPDATE of the drafts of the slot.                *)
Submit ==
    /\ Drafts # {}
    /\ marks' = [s \in Student |->
                    IF s \in Drafts THEN Moved(marks[s], "submitted") ELSE marks[s]]
    /\ UNCHANGED <<exam, pubs, result, card, token, txn>>

(* apply_grace_marks: the exam is read first, then the entry.              *)
BeginGrace(r) ==
    /\ Allowed(r, "grace")
    /\ ~exam.published
    /\ Step(r, [pc |-> "grace_read"])
    /\ UNCHANGED <<marks, exam, pubs, result, card, token>>

ReadGrace(r) ==
    /\ txn[r].pc = "grace_read"
    /\ \E s \in Student, g \in Grace :
        /\ marks[s] # NoEntry
        /\ marks[s].version < MaxVersion
        /\ Step(r, [pc |-> "grace", s |-> s, grace |-> g, version |-> marks[s].version + 1])
    /\ UNCHANGED <<marks, exam, pubs, result, card, token>>

CommitGrace(r) ==
    LET t == txn[r]
    IN  /\ t.pc = "grace"
        /\ marks' = [marks EXCEPT ![t.s] = Granted(marks[t.s], t.grace, t.version)]
        /\ End(r)
        /\ UNCHANGED <<exam, pubs, result, card, token>>

-----------------------------------------------------------------------------
(* compute_results: the drafts are counted, the marks read, the token put  *)
(* in the cache, and the exam saved.  The client learns the token from the *)
(* answer, after the commit.                                               *)
BeginCompute(r) ==
    /\ Allowed(r, "compute")
    /\ Drafts = {}
    /\ Step(r, [pc |-> "compute_read"])
    /\ UNCHANGED <<marks, exam, pubs, result, card, token>>

ComputeRead(r) ==
    /\ txn[r].pc = "compute_read"
    /\ IF Submitted = {} THEN End(r)
       ELSE Step(r, [pc |-> "compute_cache", snap |-> Snapshot])
    /\ UNCHANGED <<marks, exam, pubs, result, card, token>>

ComputeCache(r) ==
    /\ txn[r].pc = "compute_cache"
    /\ token' = [by |-> r, snap |-> txn[r].snap]
    /\ Step(r, [pc |-> "compute_save"])
    /\ UNCHANGED <<marks, exam, pubs, result, card>>

CommitCompute(r) ==
    /\ txn[r].pc = "compute_save"
    /\ ExamFree(r)
    /\ exam' = [published |-> FALSE, status |-> "provisional"]
    /\ token' = IF token.by = r THEN [token EXCEPT !.by = "client"] ELSE token
    /\ End(r)
    /\ UNCHANGED <<marks, pubs, result, card>>

(* The token's time runs out.                                              *)
Expire ==
    /\ "expire" \in Ops
    /\ token.by = "client"
    /\ token' = NoToken
    /\ UNCHANGED <<marks, exam, pubs, result, card, txn>>

-----------------------------------------------------------------------------
(* publish_results.  publish_in_progress is set and cleared in the same    *)
(* transaction, under the row lock: no other request ever sees it set.     *)
BeginPublish(r) ==
    /\ Allowed(r, "publish")
    /\ token.by = "client"
    /\ Step(r, [pc |-> "publish_lock", snap |-> token.snap])
    /\ UNCHANGED <<marks, exam, pubs, result, card, token>>

PublishLock(r) ==
    /\ txn[r].pc = "publish_lock"
    /\ ExamFree(r)
    /\ Step(r, [txn[r] EXCEPT !.pc = "publish_read"])
    /\ UNCHANGED <<marks, exam, pubs, result, card, token>>

PublishRead(r) ==
    /\ txn[r].pc = "publish_read"
    /\ IF Snapshot = txn[r].snap
       THEN Step(r, [txn[r] EXCEPT !.pc = "publish_insert"])
       ELSE End(r)
    /\ UNCHANGED <<marks, exam, pubs, result, card, token>>

Insertable == CurrentPubs = {}

PublishInsert(r) ==
    /\ txn[r].pc = "publish_insert"
    /\ IndexFree(r)
    /\ Len(pubs) < MaxRevisions
    /\ IF Insertable
       THEN Step(r, [pc |-> "publish_store", snap |-> txn[r].snap,
                     todo |-> DOMAIN txn[r].snap])
       ELSE End(r)
    /\ UNCHANGED <<marks, exam, pubs, result, card, token>>

(* _persist_student_results: a card is stored before its result is saved.  *)
StoreCard(r) ==
    /\ txn[r].pc \in {"publish_store", "revise_store"}
    /\ \E s \in txn[r].todo :
        /\ card' = [card EXCEPT ![s] = Final(txn[r].snap[s])]
        /\ Step(r, [txn[r] EXCEPT !.todo = @ \ {s}])
    /\ UNCHANGED <<marks, exam, pubs, result, token>>

ResultsOfKept(snap, n) ==
    [s \in Student |-> IF s \in DOMAIN snap /\ result[s] = NoResult
                       THEN [pub |-> n, shown |-> Final(snap[s])]
                       ELSE result[s]]

ResultsOf(snap, n) ==
    [s \in Student |-> IF s \in DOMAIN snap
                       THEN [pub |-> n, shown |-> Final(snap[s])]
                       ELSE result[s]]

(* lock_marks_for_exam and the rest of the request.                        *)
CommitPublish(r) ==
    LET t == txn[r]
    IN  /\ t.pc = "publish_store"
        /\ t.todo = {}
        /\ pubs' = Append(pubs, [no |-> 1, parent |-> 0, current |-> TRUE, snap |-> t.snap])
        /\ result' = ResultsOf(t.snap, Len(pubs) + 1)
        /\ marks' = [s \in Student |->
                        IF marks[s].status = "submitted"
                        THEN Moved(marks[s], "locked") ELSE marks[s]]
        /\ exam' = [published |-> TRUE, status |-> "published"]
        /\ token' = NoToken
        /\ End(r)
        /\ UNCHANGED card

-----------------------------------------------------------------------------
(* revise_results: the current publication is read, then the marks; the    *)
(* UPDATE that supersedes it and the INSERT wait for another revision, and *)
(* the INSERT fails when that one has committed.                           *)
BeginRevise(r) ==
    /\ Allowed(r, "revise")
    /\ \E i \in CurrentPubs : Step(r, [pc |-> "revise_read", base |-> i])
    /\ UNCHANGED <<marks, exam, pubs, result, card, token>>

ReviseRead(r) ==
    /\ txn[r].pc = "revise_read"
    /\ Len(pubs) < MaxRevisions
    /\ Step(r, [pc |-> "revise_insert", base |-> txn[r].base, snap |-> Snapshot])
    /\ UNCHANGED <<marks, exam, pubs, result, card, token>>

ReviseInsertAlways(r) ==
    /\ txn[r].pc = "revise_insert"
    /\ Step(r, [pc |-> "revise_store", base |-> txn[r].base, snap |-> txn[r].snap,
                todo |-> DOMAIN txn[r].snap])
    /\ UNCHANGED <<marks, exam, pubs, result, card, token>>

ReviseInsert(r) ==
    /\ txn[r].pc = "revise_insert"
    /\ IndexFree(r)
    /\ IF CurrentPubs \subseteq {txn[r].base}
       THEN Step(r, [pc |-> "revise_store", base |-> txn[r].base, snap |-> txn[r].snap,
                     todo |-> DOMAIN txn[r].snap])
       ELSE End(r)
    /\ UNCHANGED <<marks, exam, pubs, result, card, token>>

CommitRevise(r) ==
    LET t == txn[r]
    IN  /\ t.pc = "revise_store"
        /\ t.todo = {}
        /\ ExamFree(r)
        /\ pubs' = Append([pubs EXCEPT ![t.base].current = FALSE],
                          [no |-> pubs[t.base].no + 1, parent |-> t.base,
                           current |-> TRUE, snap |-> t.snap])
        /\ result' = ResultsOf(t.snap, Len(pubs) + 1)
        /\ exam' = [published |-> TRUE, status |-> "revised"]
        /\ End(r)
        /\ UNCHANGED <<marks, card, token>>

-----------------------------------------------------------------------------
(* A publisher that holds the exam waits for the index, the revision that  *)
(* holds the index waits for the exam: the database ends one of them.      *)
Deadlock(r) ==
    /\ \E p, q \in Request :
        /\ r \in {p, q}
        /\ txn[p].pc = "publish_insert"
        /\ txn[q].pc = "revise_store" /\ txn[q].todo = {}
    /\ End(r)
    /\ UNCHANGED <<marks, exam, pubs, result, card, token>>

(* A request fails or its server dies: the transaction is rolled back.     *)
(* Nobody was told the token of a computation that failed.                 *)
Fail(r) ==
    /\ "fail" \in Ops
    /\ txn[r] # Idle
    /\ token' = IF token.by = r THEN NoToken ELSE token
    /\ End(r)
    /\ UNCHANGED <<marks, exam, pubs, result, card>>

Next ==
    \/ Submit
    \/ Expire
    \/ \E r \in Request :
        \/ BeginSave(r)    \/ CommitSave(r)
        \/ BeginPatch(r)   \/ CommitPatch(r)
        \/ BeginGrace(r)   \/ ReadGrace(r)     \/ CommitGrace(r)
        \/ BeginCompute(r) \/ ComputeRead(r)   \/ ComputeCache(r)  \/ CommitCompute(r)
        \/ BeginPublish(r) \/ PublishLock(r)   \/ PublishRead(r)
        \/ PublishInsert(r) \/ StoreCard(r)    \/ CommitPublish(r)
        \/ BeginRevise(r)  \/ ReviseRead(r)    \/ ReviseInsert(r)  \/ CommitRevise(r)
        \/ Deadlock(r)     \/ Fail(r)

Spec == Init /\ [][Next]_vars

-----------------------------------------------------------------------------
Entry == [mark : Mark, grace : Grace, status : {"draft", "submitted", "locked"},
          version : Nat \ {0}]
Row   == [mark : Mark, grace : Grace, status : {"submitted", "locked"}]
Shown == [mark : Mark, grace : Grace]
Snap  == UNION {[D -> Row] : D \in SUBSET Student}
Pub   == [no : 1..MaxRevisions, parent : 0..MaxRevisions, current : BOOLEAN, snap : Snap]
Local ==
         [pc : {"idle", "compute_read", "compute_save", "grace_read"}]
    \cup [pc : {"save", "patch"}, s : Student, mark : Mark, read : Entry \cup {NoEntry}]
    \cup [pc : {"grace"}, s : Student, grace : Grace, version : Nat \ {0}]
    \cup [pc : {"compute_cache", "publish_lock", "publish_read", "publish_insert"},
          snap : Snap]
    \cup [pc : {"publish_store"}, snap : Snap, todo : SUBSET Student]
    \cup [pc : {"revise_read"}, base : 1..MaxRevisions]
    \cup [pc : {"revise_insert"}, base : 1..MaxRevisions, snap : Snap]
    \cup [pc : {"revise_store"}, base : 1..MaxRevisions, snap : Snap,
          todo : SUBSET Student]

(* The shape of the state; a version is positive, however stale the save   *)
(* that wrote it.                                                          *)
TypeOK ==
    /\ marks \in [Student -> Entry \cup {NoEntry}]
    /\ exam \in [published : BOOLEAN, status : {"provisional", "published", "revised"}]
    /\ pubs \in Seq(Pub) /\ Len(pubs) <= MaxRevisions
    /\ result \in [Student -> [pub : 1..MaxRevisions, shown : Shown] \cup {NoResult}]
    /\ card \in [Student -> Shown \cup {NoCard}]
    /\ token \in [by : Request \cup {"client"}, snap : Snap] \cup {NoToken}
    /\ txn \in [Request -> Local]

(* The publications of an exam are one chain: numbered from one, each the  *)
(* child of the one before, and only the last one current, although        *)
(* publishers and revisers read the current one without a lock and a       *)
(* confirmation may be computed for an exam that is published already.     *)
RevisionsLinear ==
    \A i \in 1..Len(pubs) :
        /\ pubs[i].no = i
        /\ pubs[i].parent = i - 1
        /\ pubs[i].current <=> i = Len(pubs)

(* What a student is shown is what the current publication says, row by    *)
(* row: no result is left over from an earlier revision, none is missing,  *)
(* and no marks entered since show through.                                *)
ResultsOfCurrent ==
    \A s \in Student :
        result[s] = IF pubs # <<>> /\ s \in DOMAIN pubs[Len(pubs)].snap
                    THEN [pub |-> Len(pubs), shown |-> Final(pubs[Len(pubs)].snap[s])]
                    ELSE NoResult

Rank(status) == CASE status = "none" -> 0 [] status = "draft" -> 1
                  [] status = "submitted" -> 2 [] status = "locked" -> 3

(* A mark that has been submitted or locked never becomes a draft again,   *)
(* whatever stale copies of the entry are still being saved.               *)
MarksGoForward ==
    [][\A s \in Student : Rank(marks[s].status) <= Rank(marks'[s].status)]_vars
=============================================================================
