----------------------------- MODULE Admissions -----------------------------
(***************************************************************************)
(* From an enquiry to an enrolled student (apps/admissions): applications  *)
(* move through a pipeline and over a waitlist, accepted ones are enrolled, *)
(* students are transferred, and imported from a file by a background job. *)
(* Enrolling without an application is what the rows of a file do.         *)
(*                                                                         *)
(* A request is a database transaction at READ COMMITTED in two steps: it  *)
(* loads what it decides on, without a lock; later its writes reach the    *)
(* database and commit, or a constraint stops them and all of it is rolled *)
(* back.  The job is a message: its worker has no transaction of its own,  *)
(* every row of the file commits alone.                                    *)
(*                                                                         *)
(* One course and its waitlist.  Names, contacts, parents and fees are     *)
(* left out: they are written in the transaction that enrols, and can only *)
(* make it fail.  A definition above one whose name it extends is a        *)
(* mistaken variant of it, which no action uses.                           *)
(***************************************************************************)
EXTENDS Naturals, FiniteSets, Sequences

CONSTANTS
    Application,    \* the enquiries of the course, with their applications
    Number,         \* admission numbers
    Year,           \* academic years
    File,           \* files to import: sequences of numbers without repetition
    ImportYear,     \* the year a file is imported into
    Request,        \* slots for requests under way
    None,           \* no application
    FormNumber,     \* bound: the numbers applications are enrolled with,
    FormYear,       \* bound: and the years
    MaxRank,        \* bound: ranks an administrator gives
    Ops             \* the operations and faults to explore

ASSUME FileAssumption ==
    File \subseteq {f \in Seq(Number) : \A i, j \in DOMAIN f : f[i] = f[j] => i = j}
ASSUME FormAssumption == FormNumber \subseteq Number /\ FormYear \subseteq Year
ASSUME YearAssumption == ImportYear \in Year
ASSUME RankAssumption == MaxRank \in Nat
ASSUME NoneAssumption == None \notin Application

VARIABLES
    status,     \* Application.status, "none" before there is an application
    rank,       \* Waitlist.rank by application, 0 without an entry
    student,    \* student accounts: number, and what each was made from
    place,      \* the active enrolments: StudentEnrollment with is_active
    req,        \* requests under way
    job,        \* the StudentImportJob
    worker      \* the task that runs the job, and its message

vars == <<status, rank, student, place, req, job, worker>>

-----------------------------------------------------------------------------
Status   == {"none", "submitted", "under_review", "accepted", "rejected",
             "waitlisted", "enrolled"}
Pipeline == {<<"submitted", "under_review">>, <<"under_review", "accepted">>}

NoJob == [status |-> "none"]
Idle  == [op |-> "idle"]
Off   == [pc |-> "off"]

Init ==
    /\ status = [a \in Application |-> "none"]
    /\ rank = [a \in Application |-> 0]
    /\ student = {}
    /\ place = {}
    /\ req = [r \in Request |-> Idle]
    /\ job = NoJob
    /\ worker = Off

Step(r, t) == req' = [req EXCEPT ![r] = t]
End(r)     == Step(r, Idle)
Allowed(r, op) == req[r] = Idle /\ op \in Ops

(* The unique constraints on custom_login_id, on the entry's rank in the   *)
(* course, and on the active enrolments of a student and a year.           *)
Taken(n)          == \E s \in student : s.number = n
Distinct(ranks)   == \A a, b \in Application :
                         a # b /\ ranks[a] # 0 => ranks[a] # ranks[b]
VacantIgnored(rows, s, y) == TRUE
Vacant(rows, s, y) == \A p \in rows : ~(p.student = s /\ p.year = y)

-----------------------------------------------------------------------------
(* What a request loads: an enquiry without application to be converted;   *)
(* an application to be moved along the pipeline, rejected, or put on the  *)
(* waitlist at a rank; a waitlist entry; an accepted application and a     *)
(* free admission number; an active enrolment; a file.                     *)
Load(r) ==
    /\ \E a \in Application :
        \/ /\ Allowed(r, "convert") /\ status[a] = "none"
           /\ Step(r, [op |-> "convert", app |-> a])
        \/ /\ Allowed(r, "advance")
           /\ \E to \in Status :
               /\ <<status[a], to>> \in Pipeline
               /\ Step(r, [op |-> "advance", app |-> a, to |-> to])
        \/ /\ Allowed(r, "reject") /\ status[a] \notin {"none", "enrolled"}
           /\ Step(r, [op |-> "reject", app |-> a])
        \/ /\ Allowed(r, "list") /\ status[a] \notin {"none", "enrolled"}
           /\ \E k \in 1..MaxRank : Step(r, [op |-> "list", app |-> a, rank |-> k])
        \/ /\ Allowed(r, "promote") /\ rank[a] # 0
           /\ Step(r, [op |-> "promote", app |-> a, rank |-> rank[a], live |-> TRUE])
    /\ UNCHANGED <<status, rank, student, place, job, worker>>

LoadEnrol(r) ==
    /\ Allowed(r, "enrol")
    /\ \E a \in Application, n \in FormNumber, y \in FormYear :
        /\ status[a] = "accepted"
        /\ ~Taken(n)
        /\ Step(r, [op |-> "enrol", app |-> a, number |-> n, year |-> y])
    /\ UNCHANGED <<status, rank, student, place, job, worker>>

LoadTransfer(r) ==
    /\ Allowed(r, "transfer")
    /\ \E p \in place, y \in Year :
        Step(r, [op |-> "transfer", place |-> p, year |-> y, live |-> TRUE])
    /\ UNCHANGED <<status, rank, student, place, job, worker>>

(* Something fails, and nothing of the request remains: but the message    *)
(* for the worker has been sent.                                           *)
Rollback(r) ==
    /\ req[r] # Idle
    /\ job' = IF req[r].op = "posted" THEN NoJob ELSE job
    /\ End(r)
    /\ UNCHANGED <<status, rank, student, place, worker>>

-----------------------------------------------------------------------------
(* An application belongs to one enquiry: a second conversion fails.       *)
Convert(r) ==
    /\ req[r].op = "convert"
    /\ status[req[r].app] = "none"
    /\ status' = [status EXCEPT ![req[r].app] = "submitted"]
    /\ End(r)
    /\ UNCHANGED <<rank, student, place, job, worker>>

(* The status is written whatever it has become since it was loaded.       *)
Decide(r) ==
    /\ \/ /\ req[r].op = "advance"
          /\ status' = [status EXCEPT ![req[r].app] = req[r].to]
       \/ /\ req[r].op = "reject"
          /\ status' = [status EXCEPT ![req[r].app] = "rejected"]
    /\ End(r)
    /\ UNCHANGED <<rank, student, place, job, worker>>

(* The entry is made, or moved to the new rank; the rank may be taken.     *)
ListNoRollback(r) ==
    LET t == req[r]
        ranks == [rank EXCEPT ![t.app] = t.rank]
    IN  /\ t.op = "list"
        /\ status' = [status EXCEPT ![t.app] = "waitlisted"]
        /\ rank' = IF Distinct(ranks) THEN ranks ELSE rank
        /\ End(r)
        /\ UNCHANGED <<student, place, job, worker>>

List(r) ==
    LET t == req[r]
        ranks == [rank EXCEPT ![t.app] = t.rank]
    IN  /\ t.op = "list"
        /\ Distinct(ranks)
        /\ status' = [status EXCEPT ![t.app] = "waitlisted"]
        /\ rank' = ranks
        /\ End(r)
        /\ UNCHANGED <<student, place, job, worker>>

(* The entry that was loaded is deleted, unless another request has        *)
(* deleted it already; every entry behind the rank that was loaded moves   *)
(* up.  Two entries must not meet on one rank, not even while the rows are *)
(* updated one by one.                                                     *)
Closed(a, k, live) ==
    [b \in Application |-> IF b = a /\ live THEN 0
                           ELSE IF rank[b] > k THEN rank[b] - 1 ELSE rank[b]]

(* A request ends; what it removed is gone for others that have loaded it. *)
Lost(t) == IF t.op = "promote"
           THEN [op |-> "promote", app |-> t.app, rank |-> t.rank, live |-> FALSE]
           ELSE [op |-> "transfer", place |-> t.place, year |-> t.year, live |-> FALSE]

SameRow(t, u) ==
    /\ t.op = u.op /\ t.live /\ u.live
    /\ t.op = "promote" => t.app = u.app
    /\ t.op = "transfer" => t.place = u.place

EndRemoving(r) ==
    req' = [q \in Request |-> IF q = r THEN Idle
                              ELSE IF req[q].op = req[r].op /\ SameRow(req[q], req[r])
                              THEN Lost(req[q]) ELSE req[q]]

PromoteUnchecked(r) ==
    LET t == req[r]
    IN  /\ t.op = "promote"
        /\ status' = [status EXCEPT ![t.app] = "accepted"]
        /\ rank' = Closed(t.app, t.rank, t.live)
        /\ EndRemoving(r)
        /\ UNCHANGED <<student, place, job, worker>>

Promote(r) ==
    LET t == req[r]
    IN  /\ t.op = "promote"
        /\ Distinct(Closed(t.app, t.rank, t.live))
        /\ status' = [status EXCEPT ![t.app] = "accepted"]
        /\ rank' = Closed(t.app, t.rank, t.live)
        /\ EndRemoving(r)
        /\ UNCHANGED <<student, place, job, worker>>

-----------------------------------------------------------------------------
(* A student's account, and the enrolment of a student for a year next to  *)
(* the enrolments that stay.                                               *)
Account(n, a, i) == [number |-> n, application |-> a, row |-> i]

(* Tells the enrolments of one student in one year apart.                  *)
Nth(rows, s, y) == Cardinality({p \in rows : p.student = s /\ p.year = y}) + 1

Place(stay, s, y) ==
    /\ Vacant(stay, s, y)
    /\ place' = stay \cup {[student |-> s, year |-> y, row |-> Nth(stay, s, y)]}

EnrolUnchecked(r) ==
    LET t == req[r]
        s == Account(t.number, t.app, 0)
    IN  /\ t.op = "enrol"
        /\ student' = student \cup {s}
        /\ Place(place, s, t.year)
        /\ status' = [status EXCEPT ![t.app] = "enrolled"]
        /\ End(r)
        /\ UNCHANGED <<rank, job, worker>>

Enrol(r) ==
    LET t == req[r]
        s == Account(t.number, t.app, 0)
    IN  /\ t.op = "enrol"
        /\ ~Taken(t.number)
        /\ student' = student \cup {s}
        /\ Place(place, s, t.year)
        /\ status' = [status EXCEPT ![t.app] = "enrolled"]
        /\ End(r)
        /\ UNCHANGED <<rank, job, worker>>

(* The enrolment that was loaded is archived, and one is made at the new   *)
(* branch, for the year the administrator has chosen.                      *)
Transfer(r) ==
    LET t == req[r]
        stay == IF t.live THEN place \ {t.place} ELSE place
    IN  /\ t.op = "transfer"
        /\ Place(stay, t.place.student, t.year)
        /\ EndRemoving(r)
        /\ UNCHANGED <<status, rank, student, job, worker>>

-----------------------------------------------------------------------------
(* The file is validated against the accounts there are; the rows that may *)
(* be imported are posted later, in a request of their own, and the worker *)
(* is told before that request has committed.                              *)
Validate(r) ==
    /\ Allowed(r, "import")
    /\ job = NoJob
    /\ \E f \in File :
        Step(r, [op |-> "import", rows |-> [i \in DOMAIN f |->
            [number |-> f[i], action |-> IF Taken(f[i]) THEN "update" ELSE "create"]]])
    /\ UNCHANGED <<status, rank, student, place, job, worker>>

Post(r) ==
    /\ req[r].op = "import"
    /\ job = NoJob /\ worker = Off
    /\ job' = [status |-> "posted", rows |-> req[r].rows, failed |-> {}]
    /\ worker' = [pc |-> "told"]
    /\ Step(r, [op |-> "posted"])
    /\ UNCHANGED <<status, rank, student, place>>

JobIs(st, failed) == [status |-> st, rows |-> job.rows, failed |-> failed]

CommitPost(r) ==
    /\ req[r].op = "posted"
    /\ job' = JobIs("queued", {})
    /\ End(r)
    /\ UNCHANGED <<status, rank, student, place, worker>>

(* A worker that does not find the job gives up: there is no retry.        *)
Begin ==
    /\ worker.pc = "told"
    /\ \/ /\ job.status = "queued"
          /\ job' = JobIs("running", {})
          /\ worker' = [pc |-> "rows", at |-> 1, failed |-> {}]
       \/ /\ job.status # "queued"
          /\ worker' = Off
          /\ UNCHANGED job
    /\ UNCHANGED <<status, rank, student, place, req>>

AtRow(action) ==
    /\ worker.pc = "rows"
    /\ worker.at \in DOMAIN job.rows
    /\ action = job.rows[worker.at].action

Goes(failed) == worker' = [pc |-> "rows", at |-> worker.at + 1, failed |-> failed]

CreateRow ==
    LET n == job.rows[worker.at].number
        s == Account(n, None, worker.at)
    IN  /\ AtRow("create")
        /\ ~Taken(n)
        /\ student' = student \cup {s}
        /\ Place(place, s, ImportYear)
        /\ Goes(worker.failed)
        /\ UNCHANGED <<status, rank, req, job>>

(* The student of the number gets an enrolment for the year, when there is *)
(* none and the row names a class.                                         *)
UpdateRow ==
    /\ AtRow("update")
    /\ \E s \in student :
        /\ s.number = job.rows[worker.at].number
        /\ \/ Place(place, s, ImportYear)
           \/ UNCHANGED place
    /\ Goes(worker.failed)
    /\ UNCHANGED <<status, rank, student, req, job>>

(* An exception in a row: the row is rolled back and reported.             *)
FailRowKept ==
    /\ \E action \in {"create", "update"} : AtRow(action)
    /\ Goes(worker.failed \cup {worker.at})
    /\ student' = student \cup {Account(job.rows[worker.at].number, None, worker.at)}
    /\ UNCHANGED <<status, rank, place, req, job>>

FailRow ==
    /\ \E action \in {"create", "update"} : AtRow(action)
    /\ Goes(worker.failed \cup {worker.at})
    /\ UNCHANGED <<status, rank, student, place, req, job>>

Finish ==
    /\ worker.pc = "rows"
    /\ worker.at \notin DOMAIN job.rows
    /\ job' = JobIs("completed", worker.failed)
    /\ worker' = Off
    /\ UNCHANGED <<status, rank, student, place, req>>

(* The message was acknowledged when the task began: a worker that dies    *)
(* leaves the job as it is.                                                *)
Crash ==
    /\ "crash" \in Ops
    /\ worker.pc # "off"
    /\ worker' = Off
    /\ UNCHANGED <<status, rank, student, place, req, job>>

-----------------------------------------------------------------------------
Next ==
    \/ \E r \in Request :
        \/ Load(r) \/ LoadEnrol(r) \/ LoadTransfer(r) \/ Rollback(r)
        \/ Convert(r) \/ Decide(r) \/ List(r) \/ Promote(r)
        \/ Enrol(r) \/ Transfer(r)
        \/ Validate(r) \/ Post(r) \/ CommitPost(r)
    \/ Begin \/ CreateRow \/ UpdateRow \/ FailRow \/ Finish \/ Crash

Spec == Init /\ [][Next]_vars

-----------------------------------------------------------------------------
Student == [number : Number, application : Application \cup {None}, row : Nat]
Enrolment == [student : Student, year : Year, row : {1}]
Row == [number : Number, action : {"create", "update"}]

Loaded ==
    {Idle} \cup [op : {"posted"}]
    \cup [op : {"convert", "reject"}, app : Application]
    \cup [op : {"advance"}, app : Application, to : {"under_review", "accepted"}]
    \cup [op : {"list"}, app : Application, rank : 1..MaxRank]
    \cup [op : {"promote"}, app : Application, rank : 1..MaxRank, live : BOOLEAN]
    \cup [op : {"enrol"}, app : Application, number : Number, year : Year]
    \cup [op : {"transfer"}, place : Enrolment, year : Year, live : BOOLEAN]
    \cup [op : {"import"}, rows : Seq(Row)]

(* The types; a worker at the rows has a job that is running.              *)
TypeOK ==
    /\ status \in [Application -> Status]
    /\ rank \in [Application -> 0..MaxRank]
    /\ student \subseteq Student
    /\ place \subseteq Enrolment
    /\ req \in [Request -> Loaded]
    /\ job \in {NoJob} \cup
           [status : {"posted", "queued", "running", "completed"},
            rows : Seq(Row), failed : SUBSET Nat]
    /\ worker \in {Off} \cup [pc : {"told"}] \cup
           [pc : {"rows"}, at : Nat \ {0}, failed : SUBSET Nat]
    /\ worker.pc = "rows" => job.status = "running"

(* An admission number is one student's, however enrolments and the rows   *)
(* of an import interleave: both look first and insert later.              *)
OneStudentPerNumber ==
    \A s, t \in student : s.number = t.number => s = t

(* A student always has an active enrolment, and never two in a year:      *)
(* whatever transfers of one enrolment, made by administrators of several  *)
(* branches at once, and imports do.                                       *)
PlacedOnceAYear ==
    /\ \A s \in student : \E p \in place : p.student = s
    /\ \A p, q \in place : p.student = q.student /\ p.year = q.year => p = q

(* Who is shown as waiting has a place on the list: the status and the     *)
(* entry are two rows, written by requests that do not lock either.        *)
WaitlistedIsListed ==
    \A a \in Application : status[a] = "waitlisted" => rank[a] # 0

(* Nobody on the waitlist is overtaken, nor drawn level with, by a         *)
(* promotion: two entries change their order only when an administrator    *)
(* gives one of them a new rank.                                           *)
ReRanked(a) ==
    \E r \in Request : req[r].op = "list" /\ req[r].app = a /\ req'[r] # req[r]

NoOvertaking ==
    [][\A a, b \in Application :
          /\ rank[a] # 0 /\ rank[b] # 0 /\ rank[a] < rank[b]
          /\ rank'[a] # 0 /\ rank'[b] # 0
          /\ ~ReRanked(a) /\ ~ReRanked(b)
          => rank'[a] < rank'[b]]_vars

(* The error report of a finished import names exactly the rows that made  *)
(* no student, so that sending the others again would only be refused.     *)
ReportExact ==
    job.status = "completed" =>
        \A i \in DOMAIN job.rows :
            job.rows[i].action = "create" =>
                (i \in job.failed <=> \A s \in student : s.row # i)
=============================================================================
