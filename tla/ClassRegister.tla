--------------------------- MODULE ClassRegister ---------------------------
(***************************************************************************)
(* The attendance register of one class on one day (apps/attendance): the  *)
(* session is opened, its roster filled with placeholders, marked from a   *)
(* device or by the class teacher, corrected by an administrator, and      *)
(* turned to leave when a leave request is approved.  A live board counts  *)
(* who is present and keeps the answer in a cache for a while.             *)
(*                                                                         *)
(* A request is a database transaction at READ COMMITTED: it reads what it *)
(* decides on, without a lock, and its writes show when it commits.  What  *)
(* it writes is locked until then; marking and correcting also drop the    *)
(* cached board, before they commit.                                       *)
(*                                                                         *)
(* A refusal leaves no trace, so it is no step: a frozen year, a holiday,  *)
(* a student of another class.  The notice of an absence, which marking    *)
(* inserts for the family, is left out.  `present' stands for the statuses *)
(* that count as present, `leave' for those that count as excused.  A      *)
(* definition above one whose name it extends is a mistaken variant of it, *)
(* which no action uses.                                                   *)
(***************************************************************************)
EXTENDS Naturals, FiniteSets

CONSTANTS
    Student,        \* the active enrolments of the class
    Requests,       \* bound: how many requests write
    Poller,         \* the screens that show the board
    SessionMode,    \* is attendance taken by period?  Else by day
    Wanted,         \* the statuses devices and teachers send
    None            \* no record, no cached board

ASSUME StudentAssumption == IsFiniteSet(Student)
ASSUME RequestAssumption == Requests \in Nat
ASSUME ModeAssumption    == SessionMode \in BOOLEAN
ASSUME WantedAssumption  == Wanted \subseteq {"present", "absent", "leave"}

VARIABLES
    session,    \* AttendanceSession.status, "none" before it is opened
    mark,       \* AttendanceRecord by student
    audit,      \* AttendanceAudit: of which record, and why
    leave,      \* LeaveRequest by the request that applied for it
    pc,         \* where each request is
    req,        \* what it has read and decided
    board,      \* the cached snapshot
    poll        \* the snapshots about to be cached

vars == <<session, mark, audit, leave, pc, req, board, poll>>

-----------------------------------------------------------------------------
(* Requests are numbered as they begin.                                    *)
Request       == 1..Requests
Status        == {"present", "absent", "flagged", "leave"}
SessionStatus == {"scheduled", "in_progress", "completed", "cancelled"}

(* A record: its id is the request that made it; `out' says that its       *)
(* coordinates are outside the fence.                                      *)
Record       == [id : Request, status : Status, late : BOOLEAN, out : BOOLEAN]
LeaveRequest == [student : Student, status : {"pending", "approved", "rejected"}]
Board        == [listed : BOOLEAN, present : 0..Cardinality(Student)]

ASSUME NoneAssumption == None \notin Record \cup LeaveRequest \cup Board

Entry(i, status, late, out) ==
    [id |-> i, status |-> status, late |-> late, out |-> out]

Nothing == [op |-> "nothing"]

Init ==
    /\ session = "none"
    /\ mark = [e \in Student |-> None]
    /\ audit = {}
    /\ leave = [r \in Request |-> None]
    /\ pc = [r \in Request |-> "idle"]
    /\ req = [r \in Request |-> Nothing]
    /\ board = None
    /\ poll = [p \in Poller |-> None]

New(r) == pc[r] = "idle" /\ \A q \in Request : q < r => pc[q] # "idle"
Move(r, to, t) ==
    /\ pc' = [pc EXCEPT ![r] = to]
    /\ req' = [req EXCEPT ![r] = t]
Load(r, t)     == New(r) /\ Move(r, "begun", t)
Flush(r)       == Move(r, "flushed", req[r])
End(r)         == Move(r, "done", Nothing)
At(r, op)      == pc[r] = "begun" /\ req[r].op = op
Flushed(r, op) == pc[r] = "flushed" /\ req[r].op = op

Recorded == {e \in Student : mark[e] # None}

(* The rows that statements under way have written: others wait for them.  *)
Held == UNION {req[r].rows : r \in {q \in Request : pc[q] = "flushed"}}

(* The id of a student's record for a request that inserts or updates it.  *)
IdFor(r, e) == IF mark[e] = None THEN r ELSE mark[e].id

(* Writing the records of some students, the others keep theirs.           *)
Put(entry) == mark' = [e \in Student |-> IF e \in DOMAIN entry THEN entry[e] ELSE mark[e]]

(* An error, a lost connection, a deadlock: the transaction leaves nothing. *)
Fail(r) ==
    /\ pc[r] \in {"begun", "flushed"}
    /\ End(r)
    /\ UNCHANGED <<session, mark, audit, leave, board, poll>>

-----------------------------------------------------------------------------
(* Opening the session, and for a roster the placeholders: it looks for    *)
(* the session and for the students without a record.                      *)
BeginOpen(r) ==
    /\ \E fill \in {{}, Student \ Recorded} :
        /\ session = "none" \/ fill # {}
        /\ Load(r, [op |-> "open", fresh |-> session = "none", fill |-> fill])
    /\ UNCHANGED <<session, mark, audit, leave, board, poll>>

(* One session per class and day or period: a second one is an error.  A   *)
(* placeholder goes over a record that has been made in between.           *)
CommitOpen(r) ==
    /\ At(r, "open")
    /\ req[r].fresh => session = "none"
    /\ req[r].fill \cap Held = {}
    /\ session' = IF req[r].fresh THEN "in_progress" ELSE session
    /\ Put([e \in req[r].fill |-> Entry(IdFor(r, e), "absent", FALSE, FALSE)])
    /\ End(r)
    /\ UNCHANGED <<audit, leave, board, poll>>

(* The session's status is set by hand.                                    *)
SetStatus(r) ==
    /\ New(r) /\ session # "none"
    /\ \E s \in SessionStatus : s # session /\ session' = s
    /\ End(r)
    /\ \A q \in Request : ~Flushed(q, "mark")
    /\ UNCHANGED <<mark, audit, leave, board, poll>>

-----------------------------------------------------------------------------
OnLeave(e) == \E l \in Request :
    leave[l] # None /\ leave[l].student = e /\ leave[l].status = "approved"

(* Marking a session: a student outside the fence is flagged, one on leave *)
(* is on leave whatever the device says.  Late is late for the period.     *)
BeginMark(r) ==
    /\ session # "none"
    /\ \E rows \in (SUBSET Student) \ {{}} :
        \E want \in [rows -> Wanted], out \in SUBSET rows, late \in {FALSE, SessionMode} :
            Load(r, [op |-> "mark", rows |-> rows, late |-> late, out |-> out,
                     seen |-> rows \cap Recorded,
                     to |-> [e \in rows |-> IF e \in out THEN "flagged"
                                            ELSE IF OnLeave(e) THEN "leave" ELSE want[e]]])
    /\ UNCHANGED <<session, mark, audit, leave, board, poll>>

(* Records and session are written, the board is dropped.                  *)
FlushMark(r) ==
    /\ At(r, "mark")
    /\ req[r].rows \cap Held = {}
    /\ \A q \in Request : ~Flushed(q, "mark")
    /\ Flush(r)
    /\ board' = None
    /\ UNCHANGED <<session, mark, audit, leave, poll>>

(* The audits name the record that was there when the request began, or    *)
(* else the one it meant to insert.  If somebody else has inserted it, the *)
(* upsert updates that one, and the audit refers to no record.             *)
Audited(t) == IF t.late THEN t.rows ELSE t.out
Dangling(t) == \E e \in Audited(t) : e \notin t.seen /\ mark[e] # None

AuditsOfNew(r, t) ==
    {[student |-> e, record |-> r, type |-> "late"] : e \in (IF t.late THEN t.rows ELSE {}) \ t.seen}
    \cup {[student |-> e, record |-> r, type |-> "geo"] : e \in t.out \ t.seen}
Audits(r, t) ==
    LET Id(e) == IF e \in t.seen THEN mark[e].id ELSE r IN
    {[student |-> e, record |-> Id(e), type |-> "late"] : e \in IF t.late THEN t.rows ELSE {}}
    \cup {[student |-> e, record |-> Id(e), type |-> "geo"] : e \in t.out}

CommitMark(r) ==
    /\ Flushed(r, "mark")
    /\ ~Dangling(req[r])
    /\ Put([e \in req[r].rows |->
                Entry(IdFor(r, e), req[r].to[e], req[r].late, e \in req[r].out)])
    /\ audit' = audit \cup Audits(r, req[r])
    /\ session' = "completed"
    /\ End(r)
    /\ UNCHANGED <<leave, board, poll>>

(* The class teacher saves statuses of records: no audit, no look at leave, *)
(* and the board is left alone.                                            *)
SaveRecords(r) ==
    /\ New(r)
    /\ \E rows \in (SUBSET Recorded) \ {{}} : \E to \in [rows -> Wanted] :
        /\ rows \cap Held = {}
        /\ Put([e \in rows |-> Entry(mark[e].id, to[e], FALSE, FALSE)])
    /\ End(r)
    /\ UNCHANGED <<session, audit, leave, board, poll>>

-----------------------------------------------------------------------------
(* Correcting a record: it is read, its status written, and the board      *)
(* dropped.  Without a subject, in a register by day, it is an error.      *)
BeginCorrect(r) ==
    /\ SessionMode
    /\ \E e \in Recorded, to \in Status :
        /\ mark[e].status # to
        /\ Load(r, [op |-> "correct", rows |-> {e}, to |-> to])
    /\ UNCHANGED <<session, mark, audit, leave, board, poll>>

FlushCorrect(r) ==
    /\ At(r, "correct")
    /\ req[r].rows \cap Held = {}
    /\ Flush(r)
    /\ board' = None
    /\ UNCHANGED <<session, mark, audit, leave, poll>>

CommitCorrect(r) ==
    /\ Flushed(r, "correct")
    /\ Put([e \in req[r].rows |-> Entry(mark[e].id, req[r].to, mark[e].late, mark[e].out)])
    /\ audit' = audit \cup {[student |-> e, record |-> mark[e].id, type |-> "edit"] :
                               e \in req[r].rows}
    /\ End(r)
    /\ UNCHANGED <<session, leave, board, poll>>

-----------------------------------------------------------------------------
(* A leave for the day is applied for when none is pending or approved.    *)
BeginApply(r) ==
    /\ \E e \in Student :
        /\ \A l \in Request : leave[l] # None /\ leave[l].student = e
                                  => leave[l].status = "rejected"
        /\ Load(r, [op |-> "apply", student |-> e])
    /\ UNCHANGED <<session, mark, audit, leave, board, poll>>

CommitApply(r) ==
    /\ At(r, "apply")
    /\ leave' = [leave EXCEPT ![r] = [student |-> req[r].student, status |-> "pending"]]
    /\ End(r)
    /\ UNCHANGED <<session, mark, audit, board, poll>>

BeginReview(r) ==
    /\ \E l \in Request, to \in {"approved", "rejected"} :
        /\ leave[l] # None /\ leave[l].status = "pending"
        /\ Load(r, [op |-> "review", leave |-> l, to |-> to])
    /\ UNCHANGED <<session, mark, audit, leave, board, poll>>

(* An approval turns the absences recorded so far into leave.              *)
CommitReview(r) ==
    LET l == req[r].leave
        turned == {e \in Recorded : /\ req[r].to = "approved"
                                    /\ e = leave[l].student /\ mark[e].status = "absent"} IN
    /\ At(r, "review")
    /\ turned \cap Held = {}
    /\ leave' = [leave EXCEPT ![l] = [student |-> leave[l].student, status |-> req[r].to]]
    /\ Put([e \in turned |-> Entry(mark[e].id, "leave", mark[e].late, mark[e].out)])
    /\ End(r)
    /\ UNCHANGED <<session, audit, board, poll>>

-----------------------------------------------------------------------------
(* The board: nothing cached, so the register is counted; later the answer *)
(* is cached, and it expires after its time.                               *)
Snapshot == [listed  |-> session # "none",
             present |-> Cardinality({e \in Recorded : mark[e].status = "present"})]

Count(p) ==
    /\ board = None /\ poll[p] = None
    /\ poll' = [poll EXCEPT ![p] = Snapshot]
    /\ UNCHANGED <<session, mark, audit, leave, pc, req, board>>

Keep(p) ==
    /\ poll[p] # None
    /\ board' = poll[p]
    /\ poll' = [poll EXCEPT ![p] = None]
    /\ UNCHANGED <<session, mark, audit, leave, pc, req>>

NoExpiry == FALSE /\ UNCHANGED vars
Expire ==
    /\ board # None
    /\ board' = None
    /\ UNCHANGED <<session, mark, audit, leave, pc, req, poll>>

-----------------------------------------------------------------------------
Commit(r)   == \/ CommitOpen(r) \/ CommitMark(r) \/ CommitCorrect(r)
               \/ CommitApply(r) \/ CommitReview(r)
Flushing(r) == FlushMark(r) \/ FlushCorrect(r)
Begin(r)    == \/ BeginOpen(r) \/ BeginMark(r) \/ BeginCorrect(r) \/ BeginApply(r) \/ BeginReview(r)
               \/ SetStatus(r) \/ SaveRecords(r)

Next ==
    \/ \E r \in Request : Begin(r) \/ Flushing(r) \/ Commit(r) \/ Fail(r)
    \/ \E p \in Poller : Count(p) \/ Keep(p)
    \/ Expire

Spec == Init /\ [][Next]_vars

(* What is cached expires after CACHE_TTL_SECONDS; nobody has to make or to *)
(* end a request, or to look at the board.                                  *)
Fairness == WF_vars(Expire)

FairSpec == Spec /\ Fairness

-----------------------------------------------------------------------------
(* What a request has read and decided, by its operation.                  *)
Opening       == [op : {"open"}, fresh : BOOLEAN, fill : SUBSET Student]
Marking(rows) == [op : {"mark"}, rows : {rows}, late : BOOLEAN,
                  out : SUBSET rows, seen : SUBSET rows, to : [rows -> Status]]
Markings      == UNION {Marking(rows) : rows \in SUBSET Student}
Correction    == [op : {"correct"}, rows : SUBSET Student, to : Status]
Application   == [op : {"apply"}, student : Student]
Review        == [op : {"review"}, leave : Request, to : {"approved", "rejected"}]
Under         == {Nothing} \cup Opening \cup Markings \cup Correction \cup Application \cup Review

TypeOK ==
    /\ session \in SessionStatus \cup {"none"}
    /\ mark \in [Student -> Record \cup {None}]
    /\ audit \subseteq [student : Student, record : Request, type : {"late", "geo", "edit"}]
    /\ leave \in [Request -> LeaveRequest \cup {None}]
    /\ pc \in [Request -> {"idle", "begun", "flushed", "done"}]
    /\ req \in [Request -> Under]
    /\ board \in Board \cup {None}
    /\ poll \in [Poller -> Board \cup {None}]

(* A record that was marked late or from outside the fence has the audit   *)
(* that says so, and every audit has its record: also when two devices     *)
(* make the first mark of a student at once.                               *)
MarksAreAudited ==
    /\ \A e \in Recorded :
        /\ mark[e].late => [student |-> e, record |-> mark[e].id, type |-> "late"] \in audit
        /\ mark[e].out  => [student |-> e, record |-> mark[e].id, type |-> "geo"] \in audit
    /\ \A a \in audit : mark[a.student] # None /\ mark[a.student].id = a.record

(* When nobody writes any more the board comes to show the register,       *)
(* although teachers' saves and approvals do not drop it and a marking     *)
(* drops it before it commits, when a poll may cache the old count again.  *)
BoardCatchesUp == <>[](board # None => board = Snapshot)
=============================================================================
