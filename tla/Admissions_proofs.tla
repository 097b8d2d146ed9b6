------------------------- MODULE Admissions_proofs -------------------------
(***************************************************************************)
(* Proofs about Admissions, for any applications, numbers, years, files    *)
(* and requests: numbers belong to one student, a student is placed once a *)
(* year, who waits is listed and not overtaken, and the report of an       *)
(* import is exact.                                                        *)
(***************************************************************************)
EXTENDS Admissions, FiniteSetTheorems, SequenceTheorems, TLAPS

(* The request that has posted the job is alone, and the worker has not    *)
(* seen the job yet.                                                       *)
PostedAlone ==
    \A r \in Request : req[r].op = "posted" =>
        /\ job.status = "posted"
        /\ \A q \in Request : req[q].op = "posted" => q = r

(* No student was made from a row the worker has not come to; of the rows  *)
(* behind it, those that failed are the ones without a student.            *)
NotBegun ==
    job.status \in {"none", "posted", "queued"} => \A s \in student : s.row = 0

Progress ==
    worker.pc = "rows" =>
        /\ worker.failed \subseteq 1..(worker.at - 1)
        /\ \A i \in DOMAIN job.rows :
            /\ i >= worker.at => \A s \in student : s.row # i
            /\ i < worker.at /\ job.rows[i].action = "create" =>
                   (i \in worker.failed <=> \A s \in student : s.row # i)

Report == NotBegun /\ Progress /\ ReportExact
Rest == OneStudentPerNumber /\ PlacedOnceAYear /\ WaitlistedIsListed /\ PostedAlone /\ Report
IInv == TypeOK /\ Rest

-----------------------------------------------------------------------------
(* What a request has loaded, by its operation.                            *)
LEMMA LoadedShape ==
    ASSUME NEW t \in Loaded
    PROVE  /\ t.op \in {"convert", "reject", "advance", "list", "promote", "enrol"} =>
                  t.app \in Application
           /\ t.op = "advance" => t.to \in {"under_review", "accepted"}
           /\ t.op \in {"list", "promote"} => t.rank \in 1..MaxRank
           /\ t.op \in {"promote", "transfer"} => t.live \in BOOLEAN
           /\ t.op = "enrol" => t.number \in Number /\ t.year \in Year
           /\ t.op = "transfer" => t.place \in Enrolment /\ t.year \in Year
           /\ t.op = "import" => t.rows \in Seq(Row)
  BY DEF Loaded, Idle

LEMMA IdleLoaded == Idle \in Loaded /\ Idle.op = "idle"
  BY DEF Loaded, Idle

LEMMA StepLoaded ==
    ASSUME TypeOK, NEW r \in Request, NEW t \in Loaded, Step(r, t)
    PROVE  /\ req' \in [Request -> Loaded]
           /\ req'[r] = t
           /\ \A q \in Request \ {r} : req'[q] = req[q]
  BY DEF TypeOK, Step

(* What is lost to a request changes neither its type nor its operation.   *)
LEMMA LostLoaded ==
    ASSUME NEW t \in Loaded, t.op \in {"promote", "transfer"}
    PROVE  Lost(t) \in Loaded /\ Lost(t).op = t.op
  BY LoadedShape DEF Lost, Loaded

LEMMA EndRemovingLoaded ==
    ASSUME TypeOK, NEW r \in Request, EndRemoving(r), req[r].op \in {"promote", "transfer"}
    PROVE  /\ req' \in [Request -> Loaded]
           /\ req'[r] = Idle
           /\ \A q \in Request \ {r} : req'[q].op = req[q].op
  <1>1. \A q \in Request : req[q] \in Loaded
    BY DEF TypeOK
  <1>2. \A q \in Request \ {r} : req'[q] \in {req[q], Lost(req[q])}
                                 /\ (req'[q] # req[q] => req[q].op = req[r].op)
    BY DEF EndRemoving
  <1>3. req'[r] = Idle
    BY DEF EndRemoving
  <1>4. \A q \in Request \ {r} : req'[q] \in Loaded /\ req'[q].op = req[q].op
    <2> SUFFICES ASSUME NEW q \in Request \ {r}
                 PROVE  req'[q] \in Loaded /\ req'[q].op = req[q].op
      OBVIOUS
    <2>1. CASE req'[q] = req[q]
      BY <2>1, <1>1
    <2>2. CASE req'[q] # req[q]
      BY <2>2, <1>1, <1>2, LostLoaded
    <2> QED BY <2>1, <2>2
  <1>5. req' = [q \in Request |-> req'[q]]
    BY DEF EndRemoving
  <1> QED BY <1>3, <1>4, <1>5, IdleLoaded

(* A new enrolment is the first of its student and year.                   *)
LEMMA PlaceTyped ==
    ASSUME NEW stay, stay \subseteq Enrolment, NEW s \in Student, NEW y \in Year, Place(stay, s, y)
    PROVE  place' \subseteq Enrolment
  <1>1. {p \in stay : p.student = s /\ p.year = y} = {}
    BY DEF Place, Vacant
  <1>2. Nth(stay, s, y) = 1
    BY <1>1, FS_EmptySet DEF Nth
  <1> QED BY <1>2 DEF Place, Enrolment

(* It keeps a student from being placed twice in a year.                   *)
LEMMA PlaceApart ==
    ASSUME PlacedOnceAYear, NEW stay, stay \subseteq place, NEW s, NEW y, Place(stay, s, y)
    PROVE  /\ \A p, q \in place' : p.student = q.student /\ p.year = q.year => p = q
           /\ \E p \in place' : p.student = s
           /\ stay \subseteq place'
  <1>1. PICK p \in place' : p.student = s /\ p.year = y /\ place' = stay \cup {p}
    BY DEF Place
  <1>2. \A q \in stay : ~(q.student = s /\ q.year = y)
    BY DEF Place, Vacant
  <1> QED BY <1>1, <1>2 DEF PlacedOnceAYear

-----------------------------------------------------------------------------
(* Types, action by action.                                                *)
LEMMA TypedInit == Init => TypeOK
  BY IdleLoaded, RankAssumption DEF Init, TypeOK, Status, NoJob, Off

LEMMA TypedLoads ==
    ASSUME TypeOK, NEW r \in Request,
           Load(r) \/ LoadEnrol(r) \/ LoadTransfer(r) \/ Validate(r)
    PROVE  TypeOK' /\ req'[r].op # "posted" /\ \A q \in Request \ {r} : req'[q] = req[q]
  <1> SUFFICES \E t \in Loaded : t.op # "posted" /\ Step(r, t)
    BY StepLoaded DEF TypeOK, Load, LoadEnrol, LoadTransfer, Validate
  <1>1. CASE Load(r)
    <2>1. PICK a \in Application :
             \/ Step(r, [op |-> "convert", app |-> a])
             \/ \E to \in Status : <<status[a], to>> \in Pipeline
                                   /\ Step(r, [op |-> "advance", app |-> a, to |-> to])
             \/ Step(r, [op |-> "reject", app |-> a])
             \/ \E k \in 1..MaxRank : Step(r, [op |-> "list", app |-> a, rank |-> k])
             \/ rank[a] # 0
                /\ Step(r, [op |-> "promote", app |-> a, rank |-> rank[a], live |-> TRUE])
      BY <1>1 DEF Load
    <2>2. /\ [op |-> "convert", app |-> a] \in Loaded
          /\ [op |-> "reject", app |-> a] \in Loaded
      BY DEF Loaded
    <2>3. \A to \in Status : <<status[a], to>> \in Pipeline =>
             [op |-> "advance", app |-> a, to |-> to] \in Loaded
      BY DEF Pipeline, Loaded
    <2>4. \A k \in 1..MaxRank : /\ [op |-> "list", app |-> a, rank |-> k] \in Loaded
                                /\ [op |-> "promote", app |-> a, rank |-> k, live |-> TRUE] \in Loaded
      BY DEF Loaded
    <2>5. rank[a] # 0 => rank[a] \in 1..MaxRank
      BY RankAssumption DEF TypeOK
    <2> QED BY <2>1, <2>2, <2>3, <2>4, <2>5
  <1>2. CASE LoadEnrol(r)
    <2>1. PICK a \in Application, n \in FormNumber, y \in FormYear :
             Step(r, [op |-> "enrol", app |-> a, number |-> n, year |-> y])
      BY <1>2 DEF LoadEnrol
    <2> QED BY <2>1, FormAssumption DEF Loaded
  <1>3. CASE LoadTransfer(r)
    <2>1. PICK p \in place, y \in Year :
             Step(r, [op |-> "transfer", place |-> p, year |-> y, live |-> TRUE])
      BY <1>3 DEF LoadTransfer
    <2>2. p \in Enrolment
      BY DEF TypeOK
    <2> QED BY <2>1, <2>2 DEF Loaded
  <1>4. CASE Validate(r)
    <2> DEFINE Rows(f) == [i \in DOMAIN f |->
            [number |-> f[i], action |-> IF Taken(f[i]) THEN "update" ELSE "create"]]
    <2>1. PICK f \in File : Step(r, [op |-> "import", rows |-> Rows(f)])
      BY <1>4 DEF Validate
    <2>2. f \in Seq(Number)
      BY FileAssumption
    <2>3. \A i \in DOMAIN f : Rows(f)[i] \in Row
      BY <2>2 DEF Row
    <2>4. Rows(f) \in Seq(Row)
      <3>1. Len(f) \in Nat /\ DOMAIN f = 1..Len(f)
        BY <2>2
      <3>2. Rows(f) \in [1..Len(f) -> Row]
        BY <2>3, <3>1
      <3> HIDE DEF Rows
      <3> QED BY <3>1, <3>2, SeqDef
    <2> HIDE DEF Rows
    <2> QED BY <2>1, <2>4 DEF Loaded
  <1> QED BY <1>1, <1>2, <1>3, <1>4

(* A request that ends.                                                    *)
LEMMA EndTyped ==
    ASSUME TypeOK, NEW r \in Request, End(r)
    PROVE  /\ req' \in [Request -> Loaded]
           /\ req'[r].op = "idle"
           /\ \A q \in Request \ {r} : req'[q] = req[q]
  BY IdleLoaded, StepLoaded DEF End

LEMMA TypedPipeline ==
    ASSUME TypeOK, NEW r \in Request, Convert(r) \/ Decide(r) \/ List(r) \/ Promote(r)
    PROVE  TypeOK'
  <1>0. req[r] \in Loaded
    BY DEF TypeOK
  <1>1. CASE Convert(r) \/ Decide(r)
    <2>1. status' \in [Application -> Status]
      BY <1>0, <1>1, LoadedShape DEF TypeOK, Convert, Decide, Status
    <2> QED BY <1>1, <2>1, EndTyped DEF TypeOK, Convert, Decide
  <1>2. CASE List(r)
    <2>1. req[r].app \in Application /\ req[r].rank \in 1..MaxRank
      BY <1>0, <1>2, LoadedShape DEF List
    <2>2. /\ status' = [status EXCEPT ![req[r].app] = "waitlisted"]
          /\ rank' = [rank EXCEPT ![req[r].app] = req[r].rank]
      BY <1>2 DEF List
    <2>3. status' \in [Application -> Status] /\ rank' \in [Application -> 0..MaxRank]
      BY <2>1, <2>2 DEF TypeOK, Status
    <2> QED BY <1>2, <2>3, EndTyped DEF TypeOK, List
  <1>3. CASE Promote(r)
    <2>1. req[r].app \in Application /\ req[r].rank \in 1..MaxRank
      BY <1>0, <1>3, LoadedShape DEF Promote
    <2>2. rank' = Closed(req[r].app, req[r].rank, req[r].live)
      BY <1>3 DEF Promote
    <2>3. \A b \in Application : rank[b] \in 0..MaxRank
      BY DEF TypeOK
    <2>4. rank' \in [Application -> 0..MaxRank]
      BY <2>1, <2>2, <2>3, RankAssumption DEF Closed
    <2>5. status' \in [Application -> Status]
      BY <1>3, <2>1 DEF Promote, TypeOK, Status
    <2>6. req' \in [Request -> Loaded]
      BY <1>3, EndRemovingLoaded DEF Promote
    <2> QED BY <1>3, <2>4, <2>5, <2>6 DEF TypeOK, Promote
  <1> QED BY <1>1, <1>2, <1>3

LEMMA TypedEnrol ==
    ASSUME TypeOK, NEW r \in Request, Enrol(r) \/ Transfer(r)
    PROVE  TypeOK'
  <1>0. req[r] \in Loaded
    BY DEF TypeOK
  <1>1. CASE Enrol(r)
    <2>1. /\ req[r].app \in Application /\ req[r].number \in Number /\ req[r].year \in Year
      BY <1>0, <1>1, LoadedShape DEF Enrol
    <2>2. Account(req[r].number, req[r].app, 0) \in Student
      BY <2>1 DEF Account, Student
    <2>3. place' \subseteq Enrolment
      BY <1>1, <2>1, <2>2, PlaceTyped DEF Enrol, TypeOK
    <2>4. status' \in [Application -> Status]
      BY <1>1, <2>1 DEF Enrol, TypeOK, Status
    <2>5. student' \subseteq Student
      BY <1>1, <2>2 DEF Enrol, TypeOK
    <2> QED BY <1>1, <2>3, <2>4, <2>5, EndTyped DEF TypeOK, Enrol
  <1>2. CASE Transfer(r)
    <2>1. req[r].place \in Enrolment /\ req[r].year \in Year
      BY <1>0, <1>2, LoadedShape DEF Transfer
    <2>2. PICK stay \in SUBSET place : Place(stay, req[r].place.student, req[r].year)
      BY <1>2 DEF Transfer
    <2>3. place' \subseteq Enrolment
      BY <2>1, <2>2, PlaceTyped DEF TypeOK, Enrolment
    <2>4. req' \in [Request -> Loaded]
      BY <1>2, EndRemovingLoaded DEF Transfer
    <2> QED BY <1>2, <2>3, <2>4 DEF TypeOK, Transfer
  <1> QED BY <1>1, <1>2

(* The job and its worker.                                                 *)
LEMMA JobTyped ==
    ASSUME TypeOK, job.status # "none", NEW st \in {"posted", "queued", "running", "completed"},
           NEW failed \in SUBSET Nat
    PROVE  /\ JobIs(st, failed) \in [status : {"posted", "queued", "running", "completed"},
                                     rows : Seq(Row), failed : SUBSET Nat]
           /\ JobIs(st, failed).status = st
           /\ JobIs(st, failed).failed = failed
           /\ JobIs(st, failed).rows = job.rows
  BY DEF JobIs, TypeOK, NoJob

LEMMA WorkerShape ==
    ASSUME TypeOK, worker.pc = "rows"
    PROVE  /\ worker.at \in Nat \ {0} /\ worker.failed \in SUBSET Nat
           /\ job.status = "running" /\ job.rows \in Seq(Row)
  BY DEF TypeOK, Off, NoJob

LEMMA GoesTyped ==
    ASSUME TypeOK, worker.pc = "rows", NEW failed \in SUBSET Nat, Goes(failed)
    PROVE  /\ worker' \in [pc : {"rows"}, at : Nat \ {0}, failed : SUBSET Nat]
           /\ worker'.pc = "rows" /\ worker'.at = worker.at + 1 /\ worker'.failed = failed
  BY WorkerShape DEF Goes

LEMMA TypedJob ==
    ASSUME TypeOK, PostedAlone, NEW r \in Request, Rollback(r) \/ Post(r) \/ CommitPost(r)
    PROVE  TypeOK'
  <1>0. req[r] \in Loaded
    BY DEF TypeOK
  <1>1. CASE Rollback(r)
    <2>1. job' \in {job, NoJob} /\ (job' # job => job.status = "posted")
      BY <1>1 DEF Rollback, PostedAlone
    <2> QED BY <1>1, <2>1, EndTyped DEF TypeOK, Rollback
  <1>2. CASE Post(r)
    <2>1. req[r].rows \in Seq(Row)
      BY <1>0, <1>2, LoadedShape DEF Post
    <2>2. job' \in [status : {"posted", "queued", "running", "completed"},
                    rows : Seq(Row), failed : SUBSET Nat]
      BY <1>2, <2>1 DEF Post
    <2>3. [op |-> "posted"] \in Loaded
      BY DEF Loaded
    <2>4. req' \in [Request -> Loaded]
      BY <1>2, <2>3, StepLoaded DEF Post
    <2>5. worker' \in [pc : {"told"}] /\ worker'.pc # "rows"
      BY <1>2 DEF Post
    <2> QED BY <1>2, <2>2, <2>4, <2>5 DEF TypeOK, Post
  <1>3. CASE CommitPost(r)
    <2>1. job.status = "posted"
      BY <1>3 DEF CommitPost, PostedAlone
    <2>2. job' \in [status : {"posted", "queued", "running", "completed"},
                    rows : Seq(Row), failed : SUBSET Nat]
      BY <1>3, <2>1, JobTyped DEF CommitPost
    <2>3. worker.pc # "rows"
      BY <2>1 DEF TypeOK
    <2> QED BY <1>3, <2>2, <2>3, EndTyped DEF TypeOK, CommitPost
  <1> QED BY <1>1, <1>2, <1>3

LEMMA TypedWorker ==
    ASSUME TypeOK, Begin \/ Finish \/ Crash
    PROVE  TypeOK'
  <1>1. CASE Begin
    <2>1. CASE job.status = "queued"
      <3>1. job' = JobIs("running", {}) /\ worker' = [pc |-> "rows", at |-> 1, failed |-> {}]
        BY <1>1, <2>1 DEF Begin
      <3> QED BY <1>1, <2>1, <3>1, JobTyped DEF Begin, TypeOK
    <2>2. CASE job.status # "queued"
      BY <1>1, <2>2 DEF Begin, TypeOK, Off
    <2> QED BY <2>1, <2>2
  <1>2. CASE Finish
    <2>1. job' = JobIs("completed", worker.failed) /\ worker' = Off
      BY <1>2 DEF Finish
    <2>2. job' \in [status : {"posted", "queued", "running", "completed"},
                    rows : Seq(Row), failed : SUBSET Nat]
      BY <1>2, <2>1, WorkerShape, JobTyped DEF Finish
    <2> QED BY <1>2, <2>1, <2>2 DEF Finish, TypeOK, Off
  <1>3. CASE Crash
    BY <1>3 DEF Crash, TypeOK, Off
  <1> QED BY <1>1, <1>2, <1>3

LEMMA TypedRow ==
    ASSUME TypeOK, CreateRow \/ UpdateRow \/ FailRow
    PROVE  TypeOK'
  <1>0. worker.pc = "rows" /\ worker.at \in DOMAIN job.rows
    BY DEF CreateRow, UpdateRow, FailRow, AtRow
  <1>1. worker.at \in Nat /\ worker.failed \in SUBSET Nat /\ job.rows[worker.at] \in Row
    BY <1>0, WorkerShape
  <1>2. CASE CreateRow
    <2> DEFINE s == Account(job.rows[worker.at].number, None, worker.at)
    <2>1. s \in Student
      BY <1>1 DEF Account, Student, Row
    <2>2. student' \subseteq Student
      BY <1>2, <2>1 DEF CreateRow, TypeOK
    <2>3. place' \subseteq Enrolment
      BY <1>2, <2>1, PlaceTyped, YearAssumption DEF CreateRow, TypeOK
    <2>4. Goes(worker.failed)
      BY <1>2 DEF CreateRow
    <2> HIDE DEF s
    <2> QED BY <1>0, <1>1, <1>2, <2>2, <2>3, <2>4, GoesTyped, WorkerShape DEF CreateRow, TypeOK
  <1>3. CASE UpdateRow
    <2>1. PICK s \in student : Place(place, s, ImportYear) \/ place' = place
      BY <1>3 DEF UpdateRow
    <2>2. s \in Student
      BY DEF TypeOK
    <2>3. place' \subseteq Enrolment
      BY <2>1, <2>2, PlaceTyped, YearAssumption DEF TypeOK
    <2>4. Goes(worker.failed)
      BY <1>3 DEF UpdateRow
    <2> QED BY <1>0, <1>1, <1>3, <2>3, <2>4, GoesTyped, WorkerShape DEF UpdateRow, TypeOK
  <1>4. CASE FailRow
    <2>1. Goes(worker.failed \cup {worker.at}) /\ worker.failed \cup {worker.at} \in SUBSET Nat
      BY <1>1, <1>4 DEF FailRow
    <2> QED BY <1>0, <1>1, <1>4, <2>1, GoesTyped, WorkerShape DEF FailRow, TypeOK
  <1> QED BY <1>2, <1>3, <1>4

LEMMA TypedStep == TypeOK /\ PostedAlone /\ [Next]_vars => TypeOK'
  <1> SUFFICES ASSUME TypeOK, PostedAlone, [Next]_vars PROVE TypeOK'
    OBVIOUS
  <1>1. CASE UNCHANGED vars
    BY <1>1 DEF vars, TypeOK
  <1>2. ASSUME NEW r \in Request, Load(r) \/ LoadEnrol(r) \/ LoadTransfer(r) \/ Validate(r)
        PROVE  TypeOK'
    BY <1>2, TypedLoads
  <1>3. ASSUME NEW r \in Request, Convert(r) \/ Decide(r) \/ List(r) \/ Promote(r)
        PROVE  TypeOK'
    BY <1>3, TypedPipeline
  <1>4. ASSUME NEW r \in Request, Enrol(r) \/ Transfer(r)
        PROVE  TypeOK'
    BY <1>4, TypedEnrol
  <1>5. ASSUME NEW r \in Request, Rollback(r) \/ Post(r) \/ CommitPost(r)
        PROVE  TypeOK'
    BY <1>5, TypedJob
  <1>6. CASE Begin \/ CreateRow \/ UpdateRow \/ FailRow \/ Finish \/ Crash
    BY <1>6, TypedWorker, TypedRow
  <1> QED BY <1>1, <1>2, <1>3, <1>4, <1>5, <1>6 DEF Next

-----------------------------------------------------------------------------
(* Whoever posts is alone: a job is posted when there is none, and only    *)
(* the request that posted it, or its commit, ends that.                   *)
LEMMA PostedStep == TypeOK /\ PostedAlone /\ [Next]_vars => PostedAlone'
  <1> SUFFICES ASSUME TypeOK, PostedAlone, [Next]_vars PROVE PostedAlone'
    OBVIOUS
  <1> DEFINE Posted(q) == req[q].op = "posted"
  <1>0. ASSUME NEW r \in Request, req'[r].op # "posted",
               \A q \in Request \ {r} : req'[q].op = req[q].op,
               (\E q \in Request \ {r} : Posted(q)) => job'.status = job.status
        PROVE  PostedAlone'
    BY <1>0 DEF PostedAlone
  <1>1. CASE UNCHANGED vars
    BY <1>1 DEF vars, PostedAlone
  <1>2. ASSUME NEW r \in Request, Load(r) \/ LoadEnrol(r) \/ LoadTransfer(r) \/ Validate(r)
        PROVE  PostedAlone'
    <2>1. job' = job
      BY <1>2 DEF Load, LoadEnrol, LoadTransfer, Validate
    <2> QED BY <1>0, <1>2, <2>1, TypedLoads
  <1>3. ASSUME NEW r \in Request, Convert(r) \/ Decide(r) \/ List(r) \/ Enrol(r)
        PROVE  PostedAlone'
    <2>1. job' = job /\ End(r)
      BY <1>3 DEF Convert, Decide, List, Enrol
    <2> QED BY <1>0, <2>1, EndTyped
  <1>4. ASSUME NEW r \in Request, Promote(r) \/ Transfer(r)
        PROVE  PostedAlone'
    <2>1. job' = job /\ EndRemoving(r) /\ req[r].op \in {"promote", "transfer"}
      BY <1>4 DEF Promote, Transfer
    <2> QED BY <1>0, <2>1, EndRemovingLoaded, IdleLoaded
  <1>5. ASSUME NEW r \in Request, Rollback(r) \/ CommitPost(r)
        PROVE  PostedAlone'
    <2>1. End(r) /\ (req[r].op # "posted" => job' = job)
      BY <1>5 DEF Rollback, CommitPost
    <2>2. (\E q \in Request \ {r} : Posted(q)) => job' = job
      BY <2>1 DEF PostedAlone
    <2> QED BY <1>0, <2>1, <2>2, EndTyped
  <1>6. ASSUME NEW r \in Request, Post(r)
        PROVE  PostedAlone'
    <2>1. \A q \in Request : ~Posted(q)
      BY <1>6 DEF Post, NoJob, PostedAlone
    <2>2. \A q \in Request \ {r} : req'[q] = req[q]
      BY <1>6 DEF Post, Step, TypeOK
    <2>3. job'.status = "posted"
      BY <1>6 DEF Post
    <2> QED BY <2>1, <2>2, <2>3 DEF PostedAlone
  <1>7. CASE Begin \/ CreateRow \/ UpdateRow \/ FailRow \/ Finish \/ Crash
    <2>1. req' = req
      BY <1>7 DEF Begin, CreateRow, UpdateRow, FailRow, Finish, Crash
    <2>2. (\E q \in Request : Posted(q)) => job' = job
      BY <1>7, WorkerShape
      DEF PostedAlone, Begin, CreateRow, UpdateRow, FailRow, Finish, Crash
    <2> QED BY <2>1, <2>2 DEF PostedAlone
  <1> QED BY <1>1, <1>2, <1>3, <1>4, <1>5, <1>6, <1>7 DEF Next

-----------------------------------------------------------------------------
(* Accounts and enrolments are made by enrolling, by a transfer, and by    *)
(* the rows of a file; nothing else touches them.                          *)
Making == (\E r \in Request : Enrol(r)) \/ CreateRow

LEMMA WhoMakes ==
    ASSUME [Next]_vars
    PROVE  Making \/ student' = student
  BY DEF Making, Next, vars, Load, LoadEnrol, LoadTransfer, Rollback, Convert, Decide, List,
         Promote, Transfer, Validate, Post, CommitPost, Begin, UpdateRow, FailRow, Finish, Crash

LEMMA WhoPlaces ==
    ASSUME [Next]_vars
    PROVE  Making \/ (\E r \in Request : Transfer(r)) \/ UpdateRow \/ UNCHANGED <<student, place>>
  BY DEF Making, Next, vars, Load, LoadEnrol, LoadTransfer, Rollback, Convert, Decide, List,
         Promote, Validate, Post, CommitPost, Begin, FailRow, Finish, Crash

LEMMA MakingOne ==
    ASSUME TypeOK, Making
    PROVE  \E n, a, i, y : /\ ~Taken(n) /\ student' = student \cup {Account(n, a, i)}
                           /\ Place(place, Account(n, a, i), y)
  BY DEF Making, Enrol, CreateRow

(* One student per number.                                                 *)
LEMMA NumberStep == TypeOK /\ OneStudentPerNumber /\ [Next]_vars => OneStudentPerNumber'
  <1> SUFFICES ASSUME TypeOK, OneStudentPerNumber, [Next]_vars PROVE OneStudentPerNumber'
    OBVIOUS
  <1>1. CASE student' = student
    BY <1>1 DEF OneStudentPerNumber
  <1>2. CASE Making
    <2>1. PICK n, a, i : ~Taken(n) /\ student' = student \cup {Account(n, a, i)}
      BY <1>2, MakingOne
    <2>2. \A s \in student : s.number # n
      BY <2>1 DEF Taken
    <2>3. Account(n, a, i).number = n
      BY DEF Account
    <2> QED BY <2>1, <2>2, <2>3 DEF OneStudentPerNumber
  <1> QED BY <1>1, <1>2, WhoMakes

(* One active enrolment a year, and at least one.                          *)
LEMMA PlacedStep == TypeOK /\ PlacedOnceAYear /\ [Next]_vars => PlacedOnceAYear'
  <1> SUFFICES ASSUME TypeOK, PlacedOnceAYear, [Next]_vars PROVE PlacedOnceAYear'
    OBVIOUS
  <1>1. CASE UNCHANGED <<student, place>>
    BY <1>1 DEF PlacedOnceAYear
  <1>2. CASE Making
    <2>1. PICK n, a, i, y : /\ student' = student \cup {Account(n, a, i)}
                            /\ Place(place, Account(n, a, i), y)
      BY <1>2, MakingOne
    <2> QED BY <2>1, PlaceApart DEF PlacedOnceAYear
  <1>3. ASSUME NEW r \in Request, Transfer(r) PROVE PlacedOnceAYear'
    <2> DEFINE t    == req[r]
               stay == IF t.live THEN place \ {t.place} ELSE place
    <2>1. Place(stay, t.place.student, t.year) /\ student' = student
      BY <1>3 DEF Transfer
    <2>2. stay \subseteq place /\ \A p \in place \ stay : p = t.place
      OBVIOUS
    <2> HIDE DEF t, stay
    <2>3. \A s \in student : \E p \in place' : p.student = s
      BY <2>1, <2>2, PlaceApart DEF PlacedOnceAYear
    <2> QED BY <2>1, <2>2, <2>3, PlaceApart DEF PlacedOnceAYear
  <1>4. CASE UpdateRow
    <2>1. student' = student /\ ((\E s : Place(place, s, ImportYear)) \/ place' = place)
      BY <1>4 DEF UpdateRow
    <2> QED BY <2>1, PlaceApart DEF PlacedOnceAYear
  <1> QED BY <1>1, <1>2, <1>3, <1>4, WhoPlaces

-----------------------------------------------------------------------------
(* Statuses and ranks are written by the pipeline, the list and enrolling. *)
LEMMA WhoRanks ==
    ASSUME [Next]_vars
    PROVE  \/ \E r \in Request : List(r) \/ Promote(r)
           \/ rank' = rank /\ (status' = status
                               \/ \E r \in Request : Convert(r) \/ Decide(r) \/ Enrol(r))
  BY DEF Next, vars, Load, LoadEnrol, LoadTransfer, Rollback, Transfer, Validate, Post,
         CommitPost, Begin, CreateRow, UpdateRow, FailRow, Finish, Crash, Convert, Decide, Enrol

(* What a promotion does to the rank of an application: the one promoted   *)
(* may lose its own, and the others stay or move up by one.                *)
LEMMA ClosedRank ==
    ASSUME TypeOK, NEW r \in Request, Promote(r), NEW b \in Application
    PROVE  LET t == req[r] IN
           /\ t.rank \in 1..MaxRank /\ rank[b] \in Nat
           /\ rank'[b] = IF b = t.app /\ t.live THEN 0
                         ELSE IF rank[b] > t.rank THEN rank[b] - 1 ELSE rank[b]
  <1>1. req[r] \in Loaded /\ req[r].op = "promote" /\ rank[b] \in 0..MaxRank
    BY DEF TypeOK, Promote
  <1>2. req[r].rank \in 1..MaxRank
    BY <1>1, LoadedShape
  <1>3. rank' = Closed(req[r].app, req[r].rank, req[r].live)
    BY DEF Promote
  <1> QED BY <1>1, <1>2, <1>3, RankAssumption DEF Closed

(* Who waits is listed.                                                    *)
LEMMA ListedStep == TypeOK /\ WaitlistedIsListed /\ [Next]_vars => WaitlistedIsListed'
  <1> SUFFICES ASSUME TypeOK, WaitlistedIsListed, [Next]_vars, NEW b \in Application,
                      status'[b] = "waitlisted"
               PROVE  rank'[b] # 0
    BY DEF WaitlistedIsListed
  <1>1. CASE status' = status /\ rank' = rank
    BY <1>1 DEF WaitlistedIsListed
  <1>2. ASSUME NEW r \in Request, Convert(r) \/ Decide(r) \/ Enrol(r) PROVE rank'[b] # 0
    <2>0. req[r] \in Loaded
      BY DEF TypeOK
    <2>1. \E st \in Status \ {"waitlisted"} : status' = [status EXCEPT ![req[r].app] = st]
      BY <1>2, <2>0, LoadedShape DEF Convert, Decide, Enrol, Status
    <2>2. rank' = rank
      BY <1>2 DEF Convert, Decide, Enrol
    <2> QED BY <2>1, <2>2 DEF TypeOK, WaitlistedIsListed
  <1>3. ASSUME NEW r \in Request, List(r) PROVE rank'[b] # 0
    <2>1. req[r].app \in Application /\ req[r].rank \in 1..MaxRank
      BY <1>3, LoadedShape DEF List, TypeOK
    <2>2. /\ status' = [status EXCEPT ![req[r].app] = "waitlisted"]
          /\ rank' = [rank EXCEPT ![req[r].app] = req[r].rank]
      BY <1>3 DEF List
    <2> QED BY <2>1, <2>2, RankAssumption DEF TypeOK, WaitlistedIsListed
  <1>4. ASSUME NEW r \in Request, Promote(r) PROVE rank'[b] # 0
    <2>1. status' = [status EXCEPT ![req[r].app] = "accepted"]
      BY <1>4 DEF Promote
    <2>2. b # req[r].app
      BY <2>1 DEF TypeOK
    <2>3. status'[b] = status[b]
      BY <2>1, <2>2 DEF TypeOK
    <2>4. rank[b] # 0
      BY <2>3 DEF WaitlistedIsListed
    <2> QED BY <1>4, <2>2, <2>4, ClosedRank, RankAssumption
  <1> QED BY <1>1, <1>2, <1>3, <1>4, WhoRanks

(* Nobody is overtaken: closing up keeps the order, and ranks apart.       *)
LEMMA OrderStep ==
    ASSUME TypeOK, [Next]_vars, NEW a \in Application, NEW b \in Application,
           rank[a] # 0, rank[b] # 0, rank[a] < rank[b], rank'[a] # 0, rank'[b] # 0,
           ~ReRanked(a), ~ReRanked(b)
    PROVE  rank'[a] < rank'[b]
  <1>1. CASE rank' = rank
    BY <1>1
  <1>2. ASSUME NEW r \in Request, List(r) PROVE rank'[a] < rank'[b]
    <2>1. req'[r] # req[r] /\ req[r].op = "list"
      BY <1>2, EndTyped DEF List
    <2>2. req[r].app # a /\ req[r].app # b
      BY <2>1 DEF ReRanked
    <2>3. rank' = [rank EXCEPT ![req[r].app] = req[r].rank]
      BY <1>2 DEF List
    <2> QED BY <2>2, <2>3 DEF TypeOK
  <1>3. ASSUME NEW r \in Request, Promote(r) PROVE rank'[a] < rank'[b]
    <2>1. a # b
      BY DEF TypeOK
    <2>2. Distinct(rank')
      BY <1>3 DEF Promote
    <2>3. rank'[a] # rank'[b]
      BY <2>1, <2>2 DEF Distinct
    <2> QED BY <1>3, <2>3, ClosedRank, RankAssumption
  <1> QED BY <1>1, <1>2, <1>3, WhoRanks

-----------------------------------------------------------------------------
(* The report.  Students are made from rows while the worker is at them.   *)
LEMMA ReportKept ==
    ASSUME TypeOK, Report, UNCHANGED <<job, worker>>,
           \A s \in student' \ student : s.row = 0, student \subseteq student'
    PROVE  Report'
  <1>1. \A i : i # 0 => ((\A s \in student' : s.row # i) <=> (\A s \in student : s.row # i))
    OBVIOUS
  <1>2. \A i \in DOMAIN job.rows : worker.pc = "rows" \/ job.status = "completed" => i # 0
    BY WorkerShape DEF TypeOK, NoJob
  <1> QED BY <1>1, <1>2 DEF Report, NotBegun, Progress, ReportExact

LEMMA ReportJob ==
    ASSUME TypeOK, PostedAlone, Report, NEW r \in Request, Rollback(r) \/ Post(r) \/ CommitPost(r)
    PROVE  Report'
  <1>0. student' = student
    BY DEF Rollback, Post, CommitPost
  <1>1. CASE UNCHANGED <<job, worker>>
    BY <1>0, <1>1, ReportKept
  <1>2. CASE job.status \in {"none", "posted"} /\ job'.status \in {"none", "posted", "queued"}
    <2>1. worker'.pc # "rows"
      BY <1>2 DEF TypeOK, Rollback, Post, CommitPost
    <2> QED BY <1>0, <1>2, <2>1 DEF Report, NotBegun, Progress, ReportExact
  <1>3. CASE Rollback(r)
    BY <1>1, <1>2, <1>3 DEF Rollback, PostedAlone, NoJob
  <1>4. CASE Post(r)
    BY <1>2, <1>4 DEF Post, NoJob
  <1>5. CASE CommitPost(r)
    BY <1>2, <1>5, JobTyped DEF CommitPost, PostedAlone
  <1> QED BY <1>3, <1>4, <1>5

LEMMA ReportBegin ==
    ASSUME TypeOK, Report, Begin \/ Crash
    PROVE  Report'
  <1>1. student' = student
    BY DEF Begin, Crash
  <1>2. CASE job' = job /\ worker' = Off
    BY <1>1, <1>2 DEF Report, NotBegun, Progress, ReportExact, Off
  <1>3. CASE Begin /\ job.status = "queued"
    <2>1. /\ job'.status = "running" /\ job'.rows = job.rows /\ job.rows \in Seq(Row)
          /\ worker' = [pc |-> "rows", at |-> 1, failed |-> {}]
      BY <1>3, JobTyped DEF Begin, TypeOK, NoJob
    <2>2. \A s \in student : s.row = 0
      BY <1>3 DEF Report, NotBegun
    <2>3. \A i \in DOMAIN job'.rows : i >= 1 /\ ~(i < 1)
      BY <2>1
    <2>4. Progress'
      BY <1>1, <2>1, <2>2, <2>3 DEF Progress
    <2> QED BY <2>1, <2>4 DEF Report, NotBegun, ReportExact
  <1> QED BY <1>2, <1>3 DEF Begin, Crash

(* One row on: the row is among the failed exactly when no student is made *)
(* from it.                                                                *)
LEMMA ReportRow ==
    ASSUME TypeOK, Report, CreateRow \/ UpdateRow \/ FailRow
    PROVE  Report'
  <1> DEFINE k == worker.at
             NoneOf(i) == \A s \in student : s.row # i
  <1>0. worker.pc = "rows" /\ k \in DOMAIN job.rows
    BY DEF CreateRow, UpdateRow, FailRow, AtRow
  <1>1. /\ k \in Nat \ {0} /\ job.status = "running" /\ job.rows \in Seq(Row)
        /\ worker.failed \subseteq 1..(k - 1) /\ worker.failed \in SUBSET Nat
    BY <1>0, WorkerShape DEF Report, Progress
  <1>2. job' = job
    BY DEF CreateRow, UpdateRow, FailRow
  <1>3. \A i \in DOMAIN job.rows :
           /\ i >= k => NoneOf(i)
           /\ i < k /\ job.rows[i].action = "create" => (i \in worker.failed <=> NoneOf(i))
    BY <1>0 DEF Report, Progress
  <1>4. PICK failed \in {worker.failed, worker.failed \cup {k}} : Goes(failed)
    BY DEF CreateRow, UpdateRow, FailRow
  <1>5. /\ worker'.at = k + 1 /\ worker'.failed = failed /\ worker'.pc = "rows"
        /\ failed \subseteq 1..k
    BY <1>0, <1>1, <1>4, GoesTyped
  <1>6. CASE FailRow
    <2>1. failed = worker.failed \cup {k} /\ student' = student
      <3>1. Goes(worker.failed \cup {k}) /\ student' = student
        BY <1>6 DEF FailRow
      <3> QED BY <1>0, <1>1, <1>5, <3>1, GoesTyped
    <2>2. Progress'
      BY <1>1, <1>2, <1>3, <1>5, <2>1 DEF Progress
    <2> QED BY <1>1, <1>2, <2>2 DEF Report, NotBegun, ReportExact
  <1>7. CASE UpdateRow
    <2>1. failed = worker.failed /\ student' = student /\ job.rows[k].action = "update"
      <3>1. Goes(worker.failed) /\ student' = student /\ job.rows[k].action = "update"
        BY <1>7 DEF UpdateRow, AtRow
      <3> QED BY <1>0, <1>1, <1>5, <3>1, GoesTyped
    <2>2. Progress'
      BY SMTT(30), <1>1, <1>2, <1>3, <1>5, <2>1 DEF Progress
    <2> QED BY <1>1, <1>2, <2>2 DEF Report, NotBegun, ReportExact
  <1>8. CASE CreateRow
    <2>1. PICK s : s.row = k /\ failed = worker.failed /\ student' = student \cup {s}
      <3> DEFINE s == Account(job.rows[k].number, None, k)
      <3>1. Goes(worker.failed) /\ student' = student \cup {s}
        BY <1>8 DEF CreateRow
      <3>2. s.row = k
        BY DEF Account
      <3> QED BY <1>0, <1>1, <1>5, <3>1, <3>2, GoesTyped
    <2>2. \A i : (\A x \in student' : x.row # i) <=> (NoneOf(i) /\ i # k)
      BY <2>1
    <2>3. Progress'
      BY <1>1, <1>2, <1>3, <1>5, <2>1, <2>2 DEF Progress
    <2> QED BY <1>1, <1>2, <2>3 DEF Report, NotBegun, ReportExact
  <1> QED BY <1>6, <1>7, <1>8

LEMMA ReportFinish ==
    ASSUME TypeOK, Report, Finish
    PROVE  Report'
  <1>0. worker.pc = "rows" /\ worker.at \notin DOMAIN job.rows
    BY DEF Finish
  <1>1. /\ worker.at \in Nat \ {0} /\ job.status = "running" /\ job.rows \in Seq(Row)
        /\ worker.failed \in SUBSET Nat
    BY <1>0, WorkerShape
  <1>2. /\ job'.status = "completed" /\ job'.rows = job.rows /\ job'.failed = worker.failed
        /\ worker' = Off /\ student' = student
    BY <1>1, JobTyped DEF Finish
  <1>3. \A i \in DOMAIN job.rows : i >= worker.at => FALSE
    <2>1. DOMAIN job.rows = 1..Len(job.rows) /\ Len(job.rows) \in Nat
      BY <1>1
    <2> QED BY <1>0, <1>1, <2>1
  <1>4. \A i \in DOMAIN job.rows : i < worker.at
    BY <1>1, <1>3
  <1>5. ReportExact'
    BY <1>0, <1>2, <1>4 DEF Report, Progress, ReportExact
  <1> QED BY <1>2, <1>5 DEF Report, NotBegun, Progress, Off

LEMMA ReportStep == TypeOK /\ PostedAlone /\ Report /\ [Next]_vars => Report'
  <1> SUFFICES ASSUME TypeOK, PostedAlone, Report, [Next]_vars PROVE Report'
    OBVIOUS
  <1>1. CASE UNCHANGED <<job, worker, student>>
    BY <1>1, ReportKept
  <1>2. ASSUME NEW r \in Request, Enrol(r) PROVE Report'
    <2>1. /\ student' = student \cup {Account(req[r].number, req[r].app, 0)}
          /\ UNCHANGED <<job, worker>>
      BY <1>2 DEF Enrol
    <2>2. Account(req[r].number, req[r].app, 0).row = 0
      BY DEF Account
    <2> QED BY <2>1, <2>2, ReportKept
  <1>3. ASSUME NEW r \in Request, Rollback(r) \/ Post(r) \/ CommitPost(r) PROVE Report'
    BY <1>3, ReportJob
  <1>4. CASE Begin \/ Crash \/ CreateRow \/ UpdateRow \/ FailRow \/ Finish
    BY <1>4, ReportBegin, ReportRow, ReportFinish
  <1>5. ASSUME NEW r \in Request,
               Load(r) \/ LoadEnrol(r) \/ LoadTransfer(r) \/ Convert(r) \/ Decide(r)
               \/ List(r) \/ Promote(r) \/ Transfer(r) \/ Validate(r)
        PROVE  Report'
    BY <1>1, <1>5 DEF Load, LoadEnrol, LoadTransfer, Convert, Decide, List, Promote,
                      Transfer, Validate
  <1>6. CASE UNCHANGED vars
    BY <1>1, <1>6 DEF vars
  <1> QED BY <1>2, <1>3, <1>4, <1>5, <1>6 DEF Next

-----------------------------------------------------------------------------
LEMMA Initially == Init => IInv
  <1> SUFFICES ASSUME Init PROVE Rest
    BY TypedInit DEF IInv
  <1> QED BY DEF Init, Rest, OneStudentPerNumber, PlacedOnceAYear, WaitlistedIsListed,
                 PostedAlone, Report, NotBegun, Progress, ReportExact, Idle, NoJob, Off

LEMMA Inductive == IInv /\ [Next]_vars => IInv'
  BY TypedStep, PostedStep, NumberStep, PlacedStep, ListedStep, ReportStep DEF IInv, Rest

THEOREM Safe == Spec => []IInv
  BY Initially, Inductive, PTL DEF Spec

(* Applications, accounts, enrolments, requests, job and worker keep to    *)
(* their types (the models, the request transactions and the task).        *)
THEOREM Types == Spec => []TypeOK
  BY Safe, PTL DEF IInv

(* An admission number is one student's (unique_custom_login_id).          *)
THEOREM NumbersUnique == Spec => []OneStudentPerNumber
  BY Safe, PTL DEF IInv, Rest

(* A student has an active enrolment, and one a year: enrolments,          *)
(* transfers and imports under unique_active_enrollment_per_student_year.  *)
THEOREM Placed == Spec => []PlacedOnceAYear
  BY Safe, PTL DEF IInv, Rest

(* A waitlisted application has its waitlist entry (add_to_waitlist and    *)
(* promote_waitlist_entry write both in one transaction).                  *)
THEOREM Listed == Spec => []WaitlistedIsListed
  BY Safe, PTL DEF IInv, Rest

(* A completed import reports exactly the rows that made no student.       *)
THEOREM ReportsExactly == Spec => []ReportExact
  BY Safe, PTL DEF IInv, Rest, Report

(* A promotion never changes the order of the others on the list.          *)
THEOREM OrderKept == Spec => NoOvertaking
  <1> DEFINE Kept == \A a, b \in Application :
          /\ rank[a] # 0 /\ rank[b] # 0 /\ rank[a] < rank[b]
          /\ rank'[a] # 0 /\ rank'[b] # 0
          /\ ~ReRanked(a) /\ ~ReRanked(b)
          => rank'[a] < rank'[b]
  <1>1. IInv /\ [Next]_vars => [Kept]_vars
    BY OrderStep DEF IInv
  <1> QED BY <1>1, Safe, PTL DEF Spec, NoOvertaking
=============================================================================
