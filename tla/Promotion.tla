----------------------------- MODULE Promotion -----------------------------
(***************************************************************************)
(* Promoting the students of a branch from one academic year to the next   *)
(* (apps/academics): the review of the decisions, the preparation that is  *)
(* validated and locked, and the execution by a Celery task.               *)
(*                                                                         *)
(* A request is a database transaction at READ COMMITTED.  Starting and    *)
(* resuming an execution lock the branch row and the session row; every    *)
(* other request reads without a lock and writes later.  The task has no   *)
(* transaction around it: its savepoints do nothing, and each of its       *)
(* statements commits by itself.  One branch is modelled; the locks of     *)
(* two branches have nothing in common.                                    *)
(*                                                                         *)
(* A definition above one whose name it extends is a mistaken variant of   *)
(* it, which no action uses.                                               *)
(***************************************************************************)
EXTENDS Naturals, Sequences, FiniteSets

CONSTANTS
    Session,        \* the session of a source year; at most one per year
    Student,        \* numbers, in the order of the students' names
    Source,         \* [Session -> years]
    Target,         \* [Session -> years]
    FirstYear,      \* the year that is current at first
    Actions,        \* the PromotionAction values to explore
    Request,        \* slots for requests under way
    Task,           \* one per message to the Celery worker
    MaxRuns,        \* bound: executions started on the branch
    MaxFeeEdits,    \* bound: edits of the fee structures
    Ops             \* the optional operations and faults to explore

Moves    == {"promote", "retain"}
Leaves   == {"graduate", "transfer_out", "withdrawn"}
Deferred == {"manual_review", "pending"}       \* NON_EXECUTABLE

Year == {Source[s] : s \in Session} \cup {Target[s] : s \in Session}
Elsewhere == "another branch"

ASSUME StudentAssumption == Student \subseteq Nat /\ IsFiniteSet(Student)
ASSUME YearAssumption ==
    /\ \A s \in Session : Source[s] # Target[s]
    /\ \A s, t \in Session : Source[s] = Source[t] => s = t
    /\ FirstYear \in Year /\ Elsewhere \notin Year
ASSUME ActionAssumption == Actions \subseteq Moves \cup Leaves \cup Deferred
ASSUME BoundAssumption == MaxRuns \in Nat /\ MaxFeeEdits \in Nat

VARIABLES
    session,    \* AcademicPromotionSession, by source year
    decision,   \* AcademicPromotionDecision, by session and student
    enrolled,   \* the years in which a student has an active enrollment
    profile,    \* StudentProfile: academic_status and the year of current_batch
    assigned,   \* fee assignments, by student and year
    fees,       \* version of the target years' fee structures
    current,    \* the branch's current AcademicYear
    frozen,     \* the frozen ones
    rollover,   \* the latest succeeded AcademicRolloverRun: <<from, to>>
    runs,       \* AcademicPromotionExecutionRun and its logs, oldest first
    txn,        \* requests under way
    task        \* messages and the workers that handle them

people == <<enrolled, profile, assigned>>
years  == <<current, frozen, rollover>>
vars == <<session, decision, people, fees, years, runs, txn, task>>

-----------------------------------------------------------------------------
NoSession == [status |-> "none", preparation |-> "not_started",
              execution |-> "not_started", validated |-> "never",
              token |-> FALSE, print |-> <<>>]
NoDecision == [action |-> "none", readiness |-> "unknown", placed |-> FALSE]
Idle == [pc |-> "idle"]
Unused == [pc |-> "unused"]

Init ==
    /\ session = [s \in Session |-> NoSession]
    /\ decision = [s \in Session |-> [st \in Student |-> NoDecision]]
    /\ enrolled = [st \in Student |-> {FirstYear}]
    /\ profile = [st \in Student |-> [status |-> "active", batch |-> FirstYear]]
    /\ assigned = [st \in Student |-> [y \in Year |-> 0]]
    /\ fees = 0
    /\ current = FirstYear
    /\ frozen = {}
    /\ rollover = <<>>
    /\ runs = <<>>
    /\ txn = [r \in Request |-> Idle]
    /\ task = [t \in Task |-> Unused]

-----------------------------------------------------------------------------
Roster(s) == {st \in Student : decision[s][st].action # "none"}
Ready(s)  == {st \in Roster(s) : decision[s][st].readiness = "ready"}

Running(s) == session[s].execution = "running"
HasRun(s) == \E i \in 1..Len(runs) : runs[i].s = s
LatestRun(s) == CHOOSE i \in 1..Len(runs) :
                    runs[i].s = s /\ \A j \in 1..Len(runs) : runs[j].s = s => j <= i

(* Row locks: a request that is starting an execution holds the branch and *)
(* the session.  An UPDATE of the session waits for it, and so does an     *)
(* INSERT that refers to the row (PostgreSQL takes a key share for it).    *)
Starting(r) == txn[r].pc \in {"send", "commit_start"}
BranchFreeAlways == TRUE
BranchFree == \A r \in Request : ~Starting(r)
SessionFreeAlways(s) == s \in Session

SessionFree(s) == \A r \in Request : Starting(r) => txn[r].s # s

(* build_fingerprint, as far as compare_fingerprints looks at it.          *)
Fingerprint(s) ==
    [current  |-> current = Source[s],
     frozen   |-> frozen \cap {Source[s], Target[s]},
     profiles |-> [st \in Roster(s) |-> profile[st]],
     placed   |-> {st \in Roster(s) : decision[s][st].placed},
     fees     |-> fees]
Stale(s) == session[s].print # Fingerprint(s)

(* get_readiness_audit *)
CanProceed(s) == /\ current = Source[s]
                 /\ rollover # <<Source[s], Target[s]>>

(* _validate_decision *)
Verdict(s, st) ==
    LET d == decision[s][st] IN
    IF /\ d.action \notin Deferred
       /\ profile[st].status = "active"
       /\ Source[s] \in enrolled[st]
       /\ d.action \in Moves => Target[s] \notin enrolled[st] /\ d.placed
    THEN "ready" ELSE "blocked"

Free(r) == txn[r] = Idle
Finish(r) == txn' = [txn EXCEPT ![r] = Idle]
Begin(r, t) == /\ Free(r)
               /\ txn' = [txn EXCEPT ![r] = t]

-----------------------------------------------------------------------------
(* Review.                                                                 *)

(* start_promotion reads that there is no session for the source year and  *)
(* inserts one; the unique constraints refuse the second of two inserts.   *)
StartPromotion(s) ==
    /\ session[s].status = "none"
    /\ BranchFree
    /\ \E recommended \in [Student -> Actions] :
           decision' = [decision EXCEPT ![s] = [st \in Student |->
               IF Source[s] \in enrolled[st] /\ profile[st].status = "active"
               THEN [NoDecision EXCEPT !.action = recommended[st]] ELSE NoDecision]]
    /\ session' = [session EXCEPT ![s].status = "draft"]
    /\ UNCHANGED <<people, fees, years, runs, txn, task>>

BeginOverride(r, s, st, a) ==
    /\ "override" \in Ops
    /\ session[s].status = "draft"
    /\ st \in Roster(s)
    /\ decision[s][st].action # a
    /\ Begin(r, [pc |-> "override", s |-> s, st |-> st, action |-> a])
    /\ UNCHANGED <<session, decision, people, fees, years, runs, task>>

CommitOverride(r) ==
    /\ txn[r].pc = "override"
    /\ SessionFree(txn[r].s)
    /\ decision' = [decision EXCEPT ![txn[r].s][txn[r].st].action = txn[r].action]
    /\ Finish(r)
    /\ UNCHANGED <<session, people, fees, years, runs, task>>

BeginApprove(r, s) ==
    /\ session[s].status = "draft"
    /\ \A st \in Roster(s) : decision[s][st].action \notin Deferred
    /\ Begin(r, [pc |-> "approve", s |-> s])
    /\ UNCHANGED <<session, decision, people, fees, years, runs, task>>

CommitApprove(r) ==
    /\ txn[r].pc = "approve"
    /\ SessionFree(txn[r].s)
    /\ session' = [session EXCEPT ![txn[r].s].status = "approved"]
    /\ Finish(r)
    /\ UNCHANGED <<decision, people, fees, years, runs, task>>

BeginReopen(r, s) ==
    /\ "reopen" \in Ops
    /\ session[s].status = "approved"
    /\ session[s].execution = "not_started"
    /\ Begin(r, [pc |-> "reopen", s |-> s])
    /\ UNCHANGED <<session, decision, people, fees, years, runs, task>>

CommitReopen(r) ==
    LET s == txn[r].s IN
    /\ txn[r].pc = "reopen"
    /\ SessionFree(s)
    /\ session' = [session EXCEPT ![s] =
           [NoSession EXCEPT !.status = "draft", !.execution = session[s].execution]]
    /\ decision' = [decision EXCEPT ![s] = [st \in Student |->
           [NoDecision EXCEPT !.action = decision[s][st].action]]]
    /\ Finish(r)
    /\ UNCHANGED <<people, fees, years, runs, task>>

-----------------------------------------------------------------------------
(* Preparation.  Whether a student finds a section and a published fee     *)
(* structure in the target year depends on data of the branch and is left  *)
(* open ("placed").                                                        *)

(* start_preparation and update_class_mappings give every student who      *)
(* moves a section anew; the first time they insert rows that refer to the *)
(* session.                                                                *)
BeginSections(r, s, starts) ==
    /\ session[s].status = "approved"
    /\ session[s].preparation # "locked"
    /\ Begin(r, [pc |-> "sections", s |-> s, starts |-> starts,
                 first |-> session[s].preparation = "not_started"])
    /\ UNCHANGED <<session, decision, people, fees, years, runs, task>>

BeginPrepare(r, s) == BeginSections(r, s, TRUE)
BeginMapClasses(r, s) == "map" \in Ops /\ BeginSections(r, s, FALSE)

CommitSections(r) ==
    LET s == txn[r].s IN
    /\ txn[r].pc = "sections"
    /\ txn[r].first => SessionFree(s)
    /\ session' = [session EXCEPT ![s].preparation =
           IF txn[r].starts /\ txn[r].first THEN "in_progress" ELSE @]
    /\ \E found \in SUBSET {st \in Student : decision[s][st].action \in Moves} :
           decision' = [decision EXCEPT ![s] = [st \in Student |->
               LET d == decision[s][st] IN
               [d EXCEPT !.placed =
                   st \in found \/ (@ /\ d.action \in Deferred \cup {"retain"})]]]
    /\ Finish(r)
    /\ UNCHANGED <<people, fees, years, runs, task>>

(* update_section_mappings, for one student.                               *)
BeginPlace(r, s, st, placed) ==
    /\ "place" \in Ops
    /\ session[s].status = "approved"
    /\ session[s].preparation # "locked"
    /\ st \in Roster(s)
    /\ Begin(r, [pc |-> "place", s |-> s, st |-> st, placed |-> placed])
    /\ UNCHANGED <<session, decision, people, fees, years, runs, task>>

CommitPlace(r) ==
    /\ txn[r].pc = "place"
    /\ decision' = [decision EXCEPT ![txn[r].s][txn[r].st].placed = txn[r].placed]
    /\ Finish(r)
    /\ UNCHANGED <<session, people, fees, years, runs, task>>

(* run_validation reads everything, then writes each decision and the      *)
(* session; the preparation status it writes is the one it has read.       *)
Judge(s, verdict) ==
    [decision EXCEPT ![s] = [st \in Student |->
        IF st \in DOMAIN verdict
        THEN [decision[s][st] EXCEPT !.readiness = verdict[st]] ELSE decision[s][st]]]

Checked(s) == [st \in Roster(s) |-> Verdict(s, st)]
AllReady(verdict) == \A st \in DOMAIN verdict : verdict[st] = "ready"

BeginValidate(r, s) ==
    /\ "validate" \in Ops
    /\ session[s].status = "approved"
    /\ session[s].preparation # "locked"
    /\ Begin(r, [pc |-> "validate", s |-> s, seen |-> session[s], verdict |-> Checked(s)])
    /\ UNCHANGED <<session, decision, people, fees, years, runs, task>>

CommitValidate(r) ==
    LET s == txn[r].s IN
    /\ txn[r].pc = "validate"
    /\ SessionFree(s)
    /\ decision' = Judge(s, txn[r].verdict)
    /\ session' = [session EXCEPT ![s] = [@ EXCEPT
           !.validated = IF AllReady(txn[r].verdict) THEN "clean" ELSE "blocked",
           !.token = FALSE,
           !.preparation = IF txn[r].seen.preparation = "not_started"
                           THEN "in_progress" ELSE txn[r].seen.preparation]]
    /\ Finish(r)
    /\ UNCHANGED <<people, fees, years, runs, task>>

(* lock_preparation validates again, through another object of the same    *)
(* row; the token is then added to the snapshot of the object that was     *)
(* loaded before that validation, and the old snapshot is written back.    *)
Snapshot(t) == t.seen.validated

BeginLock(r, s) ==
    /\ session[s].status = "approved"
    /\ session[s].preparation # "locked"
    /\ Roster(s) # {} /\ AllReady(Checked(s))
    /\ CanProceed(s)
    /\ Begin(r, [pc |-> "lock", s |-> s, seen |-> session[s], verdict |-> Checked(s)])
    /\ UNCHANGED <<session, decision, people, fees, years, runs, task>>

CommitLock(r) ==
    LET s == txn[r].s IN
    /\ txn[r].pc = "lock"
    /\ SessionFree(s)
    /\ decision' = Judge(s, txn[r].verdict)
    /\ session' = [session EXCEPT ![s] = [@ EXCEPT
           !.preparation = "locked", !.validated = Snapshot(txn[r]), !.token = TRUE,
           !.print = Fingerprint(s)]]
    /\ Finish(r)
    /\ UNCHANGED <<people, fees, years, runs, task>>

BeginUnlock(r, s) ==
    /\ "unlock" \in Ops
    /\ session[s].status = "approved"
    /\ session[s].execution = "not_started"
    /\ session[s].preparation \in {"locked", "invalid"}
    /\ Begin(r, [pc |-> "unlock", s |-> s])
    /\ UNCHANGED <<session, decision, people, fees, years, runs, task>>

CommitUnlock(r) ==
    /\ txn[r].pc = "unlock"
    /\ SessionFree(txn[r].s)
    /\ session' = [session EXCEPT ![txn[r].s] =
                      [@ EXCEPT !.preparation = "in_progress", !.print = <<>>]]
    /\ Finish(r)
    /\ UNCHANGED <<decision, people, fees, years, runs, task>>

(* Every page of a locked session checks for staleness and commits it; the *)
(* comparison raises when a student has got or lost a section.             *)
Comparable(s) == session[s].print.placed = Fingerprint(s).placed

BeginInvalidate(r, s) ==
    /\ "visit" \in Ops
    /\ session[s].status = "approved"
    /\ session[s].preparation = "locked"
    /\ Stale(s) /\ Comparable(s)
    /\ Begin(r, [pc |-> "invalidate", s |-> s])
    /\ UNCHANGED <<session, decision, people, fees, years, runs, task>>

CommitInvalidate(r) ==
    /\ txn[r].pc = "invalidate"
    /\ SessionFree(txn[r].s)
    /\ session' = [session EXCEPT ![txn[r].s].preparation = "invalid"]
    /\ Finish(r)
    /\ UNCHANGED <<decision, people, fees, years, runs, task>>

-----------------------------------------------------------------------------
(* Starting.  The message is sent before the transaction commits, so that  *)
(* the worker may look for a run that is not there yet, or never will be.  *)

NoneRunning == \A s \in Session : ~Running(s)

(* Trusts the lock: looks neither at the fingerprint nor at the year again. *)
BeginStartTrusting(r, s) ==
    /\ BranchFree
    /\ session[s].status = "approved"
    /\ NoneRunning
    /\ session[s].preparation = "locked"
    /\ session[s].execution # "succeeded"
    /\ Ready(s) # {}
    /\ \A st \in Ready(s) : decision[s][st].action \in Moves =>
           decision[s][st].placed /\ Target[s] \notin enrolled[st]
    /\ session[s].token
    /\ Len(runs) < MaxRuns
    /\ Begin(r, [pc |-> "send", s |-> s])
    /\ UNCHANGED <<session, decision, people, fees, years, runs, task>>

BeginStart(r, s) ==
    /\ BranchFree
    /\ session[s].status = "approved"
    /\ NoneRunning
    /\ session[s].preparation = "locked"
    /\ ~Stale(s)
    /\ CanProceed(s)
    /\ session[s].execution # "succeeded"
    /\ Ready(s) # {}
    /\ IF session[s].validated = "never"
       THEN \A st \in Roster(s) : decision[s][st].readiness # "blocked"
       ELSE session[s].validated = "clean"
    /\ \A st \in Ready(s) : decision[s][st].action \in Moves =>
           decision[s][st].placed /\ Target[s] \notin enrolled[st]
    /\ session[s].token
    /\ Len(runs) < MaxRuns
    /\ Begin(r, [pc |-> "send", s |-> s])
    /\ UNCHANGED <<session, decision, people, fees, years, runs, task>>

Message(i) == [pc |-> "queued", run |-> i]

SendTask(r, t) ==
    /\ txn[r].pc = "send"
    /\ task[t] = Unused
    /\ task' = [task EXCEPT ![t] = Message(Len(runs) + 1)]
    /\ txn' = [txn EXCEPT ![r] = [pc |-> "commit_start", s |-> txn[r].s, t |-> t]]
    /\ UNCHANGED <<session, decision, people, fees, years, runs>>

CommitStart(r) ==
    LET s == txn[r].s IN
    /\ txn[r].pc = "commit_start"
    /\ runs' = Append(runs, [s |-> s, status |-> "running",
                             moved |-> 0, graduated |-> 0, failed |-> 0,
                             log |-> [st \in Student |-> "none"]])
    /\ session' = [session EXCEPT ![s].execution = "running"]
    /\ Finish(r)
    /\ UNCHANGED <<decision, people, fees, years, task>>

(* resume_execution sends the latest run again, whatever its status; it    *)
(* writes nothing itself.                                                  *)
Resume(s, t) ==
    /\ "resume" \in Ops
    /\ BranchFree
    /\ session[s].status = "approved"
    /\ \A o \in Session \ {s} : ~Running(o)
    /\ HasRun(s)
    /\ task[t] = Unused
    /\ task' = [task EXCEPT ![t] = Message(LatestRun(s))]
    /\ UNCHANGED <<session, decision, people, fees, years, runs, txn>>

(* A request fails and is rolled back; its message, if sent, stays sent.   *)
Abort(r) ==
    /\ "abort" \in Ops
    /\ ~Free(r)
    /\ task' = IF txn[r].pc = "commit_start" /\ task[txn[r].t].pc = "queued"
               THEN [task EXCEPT ![txn[r].t] = Message(0)] ELSE task
    /\ Finish(r)
    /\ UNCHANGED <<session, decision, people, fees, years, runs>>

-----------------------------------------------------------------------------
(* The task (run_execution).  It loads the run, whose counters it keeps in *)
(* memory, and the ready decisions, and takes them in the order of names.  *)

Goto(t, pc) == task' = [task EXCEPT ![t].pc = pc]
At(t, pc) == task[t].pc = pc
Sid(t)    == runs[task[t].run].s
Act(t)    == task[t].acts[task[t].st]
Src(t)    == Source[Sid(t)]
Tgt(t)    == Target[Sid(t)]

(* The statements for one student, in order; each commits by itself.       *)
StepsLeaveFirst(action) ==
    IF action \in Moves THEN <<"leave", "create", "settle", "fees", "count", "log">>
                        ELSE <<"leave", "settle", "count", "log">>

Steps(action) ==
    IF action \in Moves THEN <<"create", "leave", "settle", "fees", "count", "log">>
                        ELSE <<"leave", "settle", "count", "log">>

After(t) == LET steps == Steps(Act(t))
                k == CHOOSE i \in 1..Len(steps) : steps[i] = task[t].pc
            IN  steps[k + 1]

TaskBegin(t) ==
    LET i == task[t].run
        s == runs[i].s
    IN
    /\ At(t, "queued")
    /\ i \in 1..Len(runs)
    /\ task' = [task EXCEPT ![t] =
           [pc |-> "next", run |-> i, st |-> 0, todo |-> Ready(s),
            acts |-> [st \in Ready(s) |-> decision[s][st].action],
            moved |-> runs[i].moved, graduated |-> runs[i].graduated,
            failed |-> runs[i].failed, final |-> "succeeded"]]
    /\ UNCHANGED <<session, decision, people, fees, years, runs, txn>>

RunNotFound(t) ==
    /\ At(t, "queued")
    /\ task[t].run \notin 1..Len(runs)
    /\ task' = [task EXCEPT ![t] = [pc |-> "lost"]]
    /\ UNCHANGED <<session, decision, people, fees, years, runs, txn>>

NextStudent(t) ==
    LET st == CHOOSE x \in task[t].todo : \A y \in task[t].todo : x <= y IN
    /\ At(t, "next")
    /\ task[t].todo # {}
    /\ task' = [task EXCEPT ![t] = [@ EXCEPT !.st = st,
           !.todo = task[t].todo \ {st},
           !.pc = IF task[t].acts[st] \in Deferred THEN "skip" ELSE "source"]]
    /\ UNCHANGED <<session, decision, people, fees, years, runs, txn>>

LogFree(t) == runs[task[t].run].log[task[t].st] = "none"

WriteLog(t, entry) == runs' = [runs EXCEPT ![task[t].run].log[task[t].st] = entry]

SkipStudent(t) ==
    /\ At(t, "skip")
    /\ IF LogFree(t) THEN WriteLog(t, "skipped") /\ Goto(t, "next")
                     ELSE UNCHANGED runs /\ Goto(t, "failed")
    /\ UNCHANGED <<session, decision, people, fees, years, txn>>

FindSource(t) ==
    LET there == Src(t) \in enrolled[task[t].st] IN
    /\ At(t, "source")
    /\ Goto(t, IF there THEN Steps(Act(t))[1]
               ELSE IF Act(t) \in Moves THEN "failed" ELSE "settle")
    /\ UNCHANGED <<session, decision, people, fees, years, runs, txn>>

CreateTargetTwice(t) ==
    /\ At(t, "create")
    /\ BranchFree
    /\ Goto(t, After(t))
    /\ enrolled' = [enrolled EXCEPT ![task[t].st] = @ \cup {Tgt(t)}]
    /\ UNCHANGED <<session, decision, profile, assigned, fees, years, runs, txn>>

CreateTargetTolerant(t) ==
    LET st == task[t].st IN
    /\ At(t, "create")
    /\ BranchFree
    /\ IF Tgt(t) \in enrolled[st]
       THEN Goto(t, "count") /\ UNCHANGED enrolled
       ELSE /\ Goto(t, After(t))
            /\ enrolled' = [enrolled EXCEPT ![st] = @ \cup {Tgt(t)}]
    /\ UNCHANGED <<session, decision, profile, assigned, fees, years, runs, txn>>

CreateTarget(t) ==
    LET st == task[t].st IN
    /\ At(t, "create")
    /\ BranchFree
    /\ IF Tgt(t) \in enrolled[st]
       THEN Goto(t, "failed") /\ UNCHANGED enrolled
       ELSE /\ Goto(t, After(t))
            /\ enrolled' = [enrolled EXCEPT ![st] = @ \cup {Tgt(t)}]
    /\ UNCHANGED <<session, decision, profile, assigned, fees, years, runs, txn>>

LeaveSource(t) ==
    /\ At(t, "leave")
    /\ enrolled' = [enrolled EXCEPT ![task[t].st] = @ \ {Src(t)}]
    /\ Goto(t, After(t))
    /\ UNCHANGED <<session, decision, profile, assigned, fees, years, runs, txn>>

Settled(p, action, year) ==
    CASE action \in Moves     -> [p EXCEPT !.batch = year]
      [] action = "graduate"  -> [status |-> "graduated", batch |-> "none"]
      [] OTHER                -> [status |-> "left", batch |-> "none"]

SettleProfile(t) ==
    /\ At(t, "settle")
    /\ profile' = [profile EXCEPT ![task[t].st] = Settled(@, Act(t), Tgt(t))]
    /\ Goto(t, After(t))
    /\ UNCHANGED <<session, decision, enrolled, assigned, fees, years, runs, txn>>

AssignFees(t) ==
    /\ At(t, "fees")
    /\ assigned' = [assigned EXCEPT ![task[t].st][Tgt(t)] = @ + 1]
    /\ Goto(t, After(t))
    /\ UNCHANGED <<session, decision, enrolled, profile, fees, years, runs, txn>>

CountStudent(t) ==
    LET run       == runs[task[t].run]
        moved     == task[t].moved + (IF Act(t) \in Moves THEN 1 ELSE 0)
        graduated == task[t].graduated + (IF Act(t) = "graduate" THEN 1 ELSE 0)
    IN
    /\ At(t, "count")
    /\ task' = [task EXCEPT ![t] = [@ EXCEPT !.pc = After(t), !.moved = moved,
                                                !.graduated = graduated]]
    /\ runs' = [runs EXCEPT ![task[t].run] = [@ EXCEPT
           !.moved = IF Act(t) \in Moves THEN moved ELSE run.moved,
           !.graduated = IF Act(t) = "graduate" THEN graduated ELSE run.graduated]]
    /\ UNCHANGED <<session, decision, people, fees, years, txn>>

LogSuccess(t) ==
    /\ At(t, "log")
    /\ IF LogFree(t) THEN WriteLog(t, "succeeded") /\ Goto(t, "notify")
                     ELSE UNCHANGED runs /\ Goto(t, "failed")
    /\ UNCHANGED <<session, decision, people, fees, years, txn>>

Notify(t) ==
    /\ At(t, "notify")
    /\ Goto(t, "next")
    /\ UNCHANGED <<session, decision, people, fees, years, runs, txn>>

(* Any statement for a student may raise.  What it wrote before stays.     *)
Raise(t) ==
    /\ "raise" \in Ops
    /\ task[t].pc \in {"skip", "source", "create", "leave", "settle", "fees",
                       "count", "log", "notify"}
    /\ Goto(t, "failed")
    /\ UNCHANGED <<session, decision, people, fees, years, runs, txn>>

LogFailure(t) ==
    /\ At(t, "failed")
    /\ IF LogFree(t) THEN WriteLog(t, "failed") /\ Goto(t, "count_failed")
                     ELSE UNCHANGED runs /\ Goto(t, "escape")
    /\ UNCHANGED <<session, decision, people, fees, years, txn>>

CountFailure(t) ==
    LET failed == task[t].failed + 1 IN
    /\ At(t, "count_failed")
    /\ task' = [task EXCEPT ![t] = [@ EXCEPT !.pc = "next", !.failed = failed]]
    /\ runs' = [runs EXCEPT ![task[t].run].failed = failed]
    /\ UNCHANGED <<session, decision, people, fees, years, txn>>

(* The exception leaves run_execution: the task marks the run, then the    *)
(* session.                                                                *)
FailRun(t) ==
    /\ At(t, "escape")
    /\ runs' = [runs EXCEPT ![task[t].run].status = "failed"]
    /\ Goto(t, "fail_session")
    /\ UNCHANGED <<session, decision, people, fees, years, txn>>

FailSession(t) ==
    /\ At(t, "fail_session")
    /\ SessionFree(Sid(t))
    /\ session' = [session EXCEPT ![Sid(t)].execution = "failed"]
    /\ Goto(t, "raised")
    /\ UNCHANGED <<decision, people, fees, years, runs, txn>>

-----------------------------------------------------------------------------
(* After the last student the counters are read back from the database.    *)

FlipOk(run) == run.failed = 0 \/ run.moved > 0
WorthFlipping(run) == FlipOk(run) /\ run.moved + run.graduated > 0

(* activate_target_year and the rollover run, in one transaction.          *)
FlipYear(t) ==
    /\ At(t, "next")
    /\ task[t].todo = {}
    /\ WorthFlipping(runs[task[t].run])
    /\ BranchFree
    /\ frozen' = frozen \cup {Src(t)}
    /\ current' = Tgt(t)
    /\ rollover' = <<Src(t), Tgt(t)>>
    /\ Goto(t, "end")
    /\ UNCHANGED <<session, decision, people, fees, runs, txn>>

FlipRaises(t) ==
    /\ "raise" \in Ops
    /\ At(t, "next")
    /\ task[t].todo = {}
    /\ WorthFlipping(runs[task[t].run])
    /\ task' = [task EXCEPT ![t] = [@ EXCEPT !.pc = "end", !.final = "failed"]]
    /\ UNCHANGED <<session, decision, people, fees, years, runs, txn>>

NoFlip(t) ==
    LET run == runs[task[t].run] IN
    /\ At(t, "next")
    /\ task[t].todo = {}
    /\ ~WorthFlipping(run)
    /\ task' = [task EXCEPT ![t] = [@ EXCEPT !.pc = "end",
           !.final = IF run.failed = 0 THEN "succeeded"
                     ELSE IF run.moved > 0 THEN "partial" ELSE "failed"]]
    /\ UNCHANGED <<session, decision, people, fees, years, runs, txn>>

EndRun(t) ==
    /\ At(t, "end")
    /\ runs' = [runs EXCEPT ![task[t].run].status = task[t].final]
    /\ Goto(t, "end_session")
    /\ UNCHANGED <<session, decision, people, fees, years, txn>>

EndSession(t) ==
    /\ At(t, "end_session")
    /\ SessionFree(Sid(t))
    /\ session' = [session EXCEPT ![Sid(t)].execution = task[t].final]
    /\ Goto(t, "finished")
    /\ UNCHANGED <<decision, people, fees, years, runs, txn>>

(* The worker dies; the message is not delivered again (max_retries = 0).  *)
Crash(t) ==
    /\ "crash" \in Ops
    /\ task[t].pc \notin {"unused", "lost", "raised", "finished", "dead"}
    /\ task' = [task EXCEPT ![t] = [pc |-> "dead"]]
    /\ UNCHANGED <<session, decision, people, fees, years, runs, txn>>

-----------------------------------------------------------------------------
(* What else touches the same rows.                                        *)

(* transfer_enrollment archives the enrollment and opens one in another    *)
(* branch; the profile keeps its status and its batch.                     *)
TransferStudent(st, y) ==
    /\ "transfer" \in Ops
    /\ BranchFree
    /\ y \in enrolled[st] \cap Year
    /\ Elsewhere \notin enrolled[st]
    /\ enrolled' = [enrolled EXCEPT ![st] = (@ \ {y}) \cup {Elsewhere}]
    /\ UNCHANGED <<session, decision, profile, assigned, fees, years, runs, txn, task>>

EditFees ==
    /\ fees < MaxFeeEdits
    /\ fees' = fees + 1
    /\ UNCHANGED <<session, decision, people, years, runs, txn, task>>

-----------------------------------------------------------------------------
StudentStep(t) ==
    \/ NextStudent(t) \/ SkipStudent(t)
    \/ FindSource(t) \/ CreateTarget(t) \/ LeaveSource(t) \/ SettleProfile(t)
    \/ AssignFees(t) \/ CountStudent(t) \/ LogSuccess(t) \/ Notify(t)
    \/ Raise(t) \/ LogFailure(t) \/ CountFailure(t)

TaskStep(t) ==
    \/ TaskBegin(t) \/ RunNotFound(t) \/ StudentStep(t)
    \/ FailRun(t) \/ FailSession(t)
    \/ FlipYear(t) \/ FlipRaises(t) \/ NoFlip(t) \/ EndRun(t) \/ EndSession(t)
    \/ Crash(t)

Next ==
    \/ \E s \in Session : StartPromotion(s)
    \/ \E r \in Request, s \in Session :
           \/ \E st \in Student, a \in Actions : BeginOverride(r, s, st, a)
           \/ \E st \in Student, placed \in BOOLEAN : BeginPlace(r, s, st, placed)
           \/ BeginApprove(r, s) \/ BeginReopen(r, s)
           \/ BeginPrepare(r, s) \/ BeginMapClasses(r, s)
           \/ BeginValidate(r, s) \/ BeginLock(r, s) \/ BeginUnlock(r, s)
           \/ BeginInvalidate(r, s) \/ BeginStart(r, s)
    \/ \E r \in Request :
           \/ CommitOverride(r) \/ CommitApprove(r) \/ CommitReopen(r)
           \/ CommitSections(r) \/ CommitPlace(r) \/ CommitValidate(r) \/ CommitLock(r)
           \/ CommitUnlock(r) \/ CommitInvalidate(r)
           \/ CommitStart(r) \/ Abort(r)
    \/ \E t \in Task :
           \/ \E r \in Request : SendTask(r, t)
           \/ \E s \in Session : Resume(s, t)
           \/ TaskStep(t)
    \/ \E st \in Student, y \in Year : TransferStudent(st, y)
    \/ EditFees

Spec == Init /\ [][Next]_vars

-----------------------------------------------------------------------------
(* Properties.                                                             *)

(* The columns hold what the models declare.                               *)
TypeOK ==
    /\ \A s \in Session :
           /\ session[s].status \in {"none", "draft", "approved"}
           /\ session[s].preparation \in {"not_started", "in_progress", "locked", "invalid"}
           /\ session[s].execution \in
                  {"not_started", "running", "succeeded", "partial", "failed"}
           /\ session[s].validated \in {"never", "clean", "blocked"}
           /\ session[s].token \in BOOLEAN
    /\ decision \in [Session -> [Student ->
           [action : Actions \cup {"none"}, readiness : {"unknown", "ready", "blocked"},
            placed : BOOLEAN]]]
    /\ enrolled \in [Student -> SUBSET (Year \cup {Elsewhere})]
    /\ current \in Year /\ frozen \subseteq Year
    /\ fees \in 0..MaxFeeEdits /\ Len(runs) <= MaxRuns

(* Executions of a branch do not overlap: while a session is running no    *)
(* other one is (PromotionExecutionInProgressError).                       *)
OneRunning == \A s, o \in Session : Running(s) /\ Running(o) => s = o

(* Nor do executions of one session: when a start commits, no session of   *)
(* the branch is running, this one included, although each of two requests *)
(* may have been let in when it saw none running.                          *)
StartsAlone == [][Len(runs') > Len(runs) => NoneRunning]_vars

OnlyStarted(s) == \A i \in 1..Len(runs) : runs[i].s = s

(* Nobody falls out of the school by being promoted or retained: the last  *)
(* active enrollment of a student ends only when a task graduates,         *)
(* transfers or withdraws him, wherever tasks fail, die, meet or are       *)
(* resumed (as long as no other session of the branch has been started).   *)
PromotedStaysEnrolled ==
    [][\A st \in Student :
           /\ \E s \in Session : OnlyStarted(s)
           /\ enrolled[st] # {} /\ enrolled'[st] = {}
           => \E t \in Task : At(t, "leave") /\ task[t].st = st /\ Act(t) \in Leaves]_vars

(* However often a run is resumed, and wherever its tasks meet, a student  *)
(* gets one fee assignment for the target year (as long as no other        *)
(* session of the branch has been started and he was not transferred).     *)
BilledOnce ==
    \A s \in Session, st \in Student :
        OnlyStarted(s) /\ Elsewhere \notin enrolled[st] => assigned[st][Target[s]] <= 1

(* A log row that says a student succeeded is true: he has left the source *)
(* year (as long as no other session has been started).                    *)
LogTellsTruth ==
    \A i \in 1..Len(runs), st \in Student :
        OnlyStarted(runs[i].s) /\ runs[i].log[st] = "succeeded" =>
            Source[runs[i].s] \notin enrolled[st]

(* A session is not executed again once its year has been turned: when a   *)
(* start commits, the source year is still the current one and has not     *)
(* been rolled over to the target, although tasks that were resumed may    *)
(* have turned the year and others have failed the session since.          *)
StartsBeforeTurn ==
    [][\A s \in Session : Len(runs') > Len(runs) /\ runs'[Len(runs')].s = s =>
           CanProceed(s)]_vars

(* An execution starts on a session that is approved and locked and has    *)
(* somebody ready at that moment, not only when it was looked at.          *)
StartsLocked ==
    [][\A s \in Session : ~Running(s) /\ Running(s)' =>
           /\ session[s].status = "approved"
           /\ session[s].preparation = "locked"
           /\ Ready(s) # {}]_vars
=============================================================================
