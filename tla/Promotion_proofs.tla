-------------------------- MODULE Promotion_proofs --------------------------
(***************************************************************************)
(* Proofs about Promotion: types, that executions of a branch do not       *)
(* overlap, that they start on a locked session and before its year turns, *)
(* that no run ends as "partial"; and what the tasks of a session, alone   *)
(* on the branch, make of its students: nobody falls out, nobody is billed *)
(* twice, and the log is true.                                             *)
(***************************************************************************)
EXTENDS Promotion, SequenceTheorems, WellFoundedInduction, TLAPS

Statuses     == {"none", "draft", "approved"}
Preparations == {"not_started", "in_progress", "locked", "invalid"}
Validations  == {"never", "clean", "blocked"}
Verdicts     == {"ready", "blocked"}
Ends         == {"succeeded", "failed"}
Executions   == {"not_started", "running"} \cup Ends

Decisions == [action : Actions \cup {"none"}, readiness : {"unknown"} \cup Verdicts,
              placed : BOOLEAN]
Run == [s : Session, status : {"running"} \cup Ends, moved : Nat, graduated : Nat,
        failed : Nat, log : [Student -> {"none", "skipped"} \cup Ends]]

SessionOK ==
    /\ DOMAIN session = Session
    /\ \A s \in Session :
           /\ DOMAIN session[s] = DOMAIN NoSession
           /\ session[s].status \in Statuses
           /\ session[s].preparation \in Preparations
           /\ session[s].execution \in Executions
           /\ session[s].validated \in Validations
           /\ session[s].token \in BOOLEAN

DecisionOK == decision \in [Session -> [Student -> Decisions]]

(* What a request under way carries.                                       *)
Carries(x) ==
    /\ x # Idle => x.s \in Session
    /\ x.pc = "override" => x.action \in Actions
    /\ x.pc = "place" => x.placed \in BOOLEAN
    /\ x.pc \in {"validate", "lock"} =>
           /\ x.seen.preparation \in Preparations
           /\ x.seen.validated \in Validations
           /\ \A st \in Student \cap DOMAIN x.verdict : x.verdict[st] \in Verdicts

TxnOK == DOMAIN txn = Request /\ \A r \in Request : Carries(txn[r])

(* A task that has begun has a run, and counters.                          *)
Begun(x) == x.pc \notin {"unused", "queued", "lost", "dead"}
Works(x) ==
    /\ DOMAIN x = {"pc", "run", "st", "todo", "acts", "moved", "graduated", "failed", "final"}
    /\ x.run \in 1..Len(runs)
    /\ x.moved \in Nat /\ x.graduated \in Nat /\ x.failed \in Nat
    /\ x.final \in Ends

TaskOK == /\ DOMAIN task = Task
          /\ \A t \in Task : /\ "pc" \in DOMAIN task[t]
                             /\ Begun(task[t]) => Works(task[t])

RunsOK == runs \in Seq(Run)

BranchOK == /\ enrolled \in [Student -> SUBSET (Year \cup {Elsewhere})]
            /\ current \in Year /\ frozen \subseteq Year
            /\ fees \in 0..MaxFeeEdits

(* While an execution is being started nobody else is starting or running. *)
StartAlone ==
    \A r \in Request : Starting(r) =>
        /\ \A q \in Request : Starting(q) => q = r
        /\ \A s \in Session : ~Running(s)
        /\ Len(runs) < MaxRuns

(* ... and what was checked of the session stays true until the commit.    *)
StartLocked ==
    \A r \in Request : Starting(r) =>
        /\ session[txn[r].s].status = "approved"
        /\ session[txn[r].s].preparation = "locked"
        /\ Ready(txn[r].s) # {}

IInv == /\ SessionOK /\ DecisionOK /\ TxnOK /\ TaskOK /\ RunsOK /\ BranchOK
        /\ Len(runs) <= MaxRuns
        /\ StartAlone /\ StartLocked /\ OneRunning

-----------------------------------------------------------------------------
(* Steps of one shape.                                                     *)

(* A step of a task that changes nothing but its own state.                *)
LEMMA TaskOnly ==
    ASSUME IInv, TaskOK', UNCHANGED <<session, decision, enrolled, fees, years, runs, txn>>
    PROVE  IInv'
BY DEF IInv, SessionOK, DecisionOK, TxnOK, RunsOK, BranchOK, StartAlone, StartLocked,
       OneRunning, Running, Starting, Ready, Roster, years

(* A request other than a start begins.                                    *)
LEMMA BeginOther ==
    ASSUME IInv, NEW r \in Request, NEW x, Carries(x), x.pc \notin {"send", "commit_start"},
           txn' = [txn EXCEPT ![r] = x],
           UNCHANGED <<session, decision, people, fees, years, runs, task>>
    PROVE  IInv'
<1>1. \A q \in Request : txn'[q] = IF q = r THEN x ELSE txn[q]
  BY DEF IInv, TxnOK
<1>2. TxnOK'
  BY <1>1 DEF IInv, TxnOK
<1>3. \A q \in Request : Starting(q)' => Starting(q) /\ txn'[q] = txn[q]
  BY <1>1 DEF Starting
<1>4. StartAlone' /\ StartLocked'
  BY <1>3 DEF IInv, StartAlone, StartLocked, Running, Ready, Roster
<1>. QED
  BY <1>2, <1>4 DEF IInv, SessionOK, DecisionOK, TaskOK, Works, RunsOK, BranchOK, OneRunning,
                    Running, people, years

(* A request other than a start commits what it does to session s.         *)
LEMMA CommitOther ==
    ASSUME IInv, NEW r \in Request, NEW s \in Session, ~Starting(r), Finish(r),
           SessionOK', DecisionOK',
           \A o \in Session \ {s} : session'[o] = session[o] /\ decision'[o] = decision[o],
           session'[s].execution = session[s].execution,
           SessionFree(s) \/ /\ session'[s].status = session[s].status
                             /\ session[s].preparation = "locked" =>
                                    session'[s].preparation = "locked"
                             /\ Ready(s)' = Ready(s),
           UNCHANGED <<people, fees, years, runs, task>>
    PROVE  IInv'
<1>1. \A q \in Request : txn'[q] = IF q = r THEN Idle ELSE txn[q]
  BY DEF IInv, TxnOK, Finish
<1>2. TxnOK'
  BY <1>1 DEF IInv, TxnOK, Carries, Idle, Finish
<1>3. \A q \in Request : Starting(q)' => Starting(q) /\ txn'[q] = txn[q] /\ txn[q].s \in Session
  BY <1>1 DEF Starting, Idle, IInv, TxnOK, Carries
<1>4. \A o \in Session : Running(o)' <=> Running(o)
  BY DEF Running
<1>5. StartAlone'
  BY <1>3, <1>4 DEF IInv, StartAlone
<1>6. \A o \in Session \ {s} : Ready(o)' = Ready(o)
  BY DEF Ready, Roster
<1>7. StartLocked'
  BY <1>3, <1>6 DEF IInv, StartLocked, SessionFree
<1>. QED
  BY <1>2, <1>4, <1>5, <1>7 DEF IInv, TaskOK, Works, RunsOK, BranchOK, OneRunning, people, years

(* A task that leaves the sessions alone.                                  *)
LEMMA TaskWrites ==
    ASSUME IInv, TaskOK', RunsOK', BranchOK', Len(runs') = Len(runs),
           UNCHANGED <<session, decision, txn>>
    PROVE  IInv'
BY DEF IInv, SessionOK, DecisionOK, TxnOK, StartAlone, StartLocked,
       OneRunning, Running, Starting, Ready, Roster

(* A task ends a session.                                                  *)
LEMMA TaskEndsSession ==
    ASSUME IInv, NEW s, NEW e \in Ends, SessionFree(s), TaskOK',
           session' = [session EXCEPT ![s].execution = e],
           UNCHANGED <<decision, people, fees, years, runs, txn>>
    PROVE  IInv'
<1>1. \A o \in Session : session'[o] = IF o = s THEN [session[o] EXCEPT !.execution = e]
                                               ELSE session[o]
  BY DEF IInv, SessionOK
<1>2. SessionOK'
  <2>1. DOMAIN session' = Session
    BY DEF IInv, SessionOK
  <2>. QED
    BY <1>1, <2>1 DEF IInv, SessionOK, NoSession, Executions
<1>3. \A o \in Session : Running(o)' => Running(o)
  BY <1>1 DEF Running, IInv, SessionOK, NoSession, Ends
<1>4. \A o \in Session : /\ session'[o].status = session[o].status
                         /\ session'[o].preparation = session[o].preparation
                         /\ Ready(o)' = Ready(o)
  BY <1>1 DEF Ready, Roster, IInv, SessionOK, NoSession
<1>5. \A q \in Request : Starting(q)' <=> Starting(q)
  BY DEF Starting
<1>6. \A q \in Request : Starting(q) => txn[q].s \in Session
  BY DEF Starting, IInv, TxnOK, Carries, Idle
<1>7. StartAlone' /\ StartLocked' /\ OneRunning'
  BY <1>3, <1>4, <1>5, <1>6 DEF IInv, StartAlone, StartLocked, OneRunning
<1>. QED
  BY <1>2, <1>7 DEF IInv, DecisionOK, TxnOK, RunsOK, BranchOK, people, years

-----------------------------------------------------------------------------
(* The actions.                                                            *)

LEMMA InitIInv == Init => IInv
<1>. SUFFICES ASSUME Init PROVE IInv
  OBVIOUS
<1>1. SessionOK
  BY DEF Init, SessionOK, NoSession, Statuses, Preparations, Executions, Validations
<1>2. DecisionOK
  BY DEF Init, DecisionOK, Decisions, NoDecision
<1>3. TxnOK
  BY DEF Init, TxnOK, Carries, Idle
<1>4. TaskOK
  BY DEF Init, TaskOK, Begun, Unused
<1>5. RunsOK
  BY DEF Init, RunsOK
<1>6. BranchOK
  BY YearAssumption, BoundAssumption DEF Init, BranchOK
<1>7. Len(runs) <= MaxRuns
  BY BoundAssumption DEF Init
<1>8. StartAlone /\ StartLocked
  BY DEF Init, StartAlone, StartLocked, Starting, Idle
<1>9. OneRunning
  BY DEF Init, OneRunning, Running, NoSession
<1>. QED
  BY <1>1, <1>2, <1>3, <1>4, <1>5, <1>6, <1>7, <1>8, <1>9 DEF IInv

LEMMA StartPromotionIInv ==
    ASSUME IInv, NEW s \in Session, StartPromotion(s)
    PROVE  IInv'
<1>. PICK recommended \in [Student -> Actions] :
        decision' = [decision EXCEPT ![s] = [st \in Student |->
               IF Source[s] \in enrolled[st] /\ profile[st].status = "active"
               THEN [NoDecision EXCEPT !.action = recommended[st]] ELSE NoDecision]]
  BY DEF StartPromotion
<1>1. DecisionOK'
  <2>1. \A st \in Student :
            /\ [NoDecision EXCEPT !.action = recommended[st]] \in Decisions
            /\ NoDecision \in Decisions
    BY DEF Decisions, NoDecision
  <2>. QED
    BY <2>1 DEF IInv, DecisionOK
<1>2. \A o \in Session : session'[o] = IF o = s THEN [session[o] EXCEPT !.status = "draft"]
                                               ELSE session[o]
  BY DEF StartPromotion, IInv, SessionOK
<1>3. SessionOK'
  <2>1. DOMAIN session' = Session
    BY DEF StartPromotion, IInv, SessionOK
  <2>. QED
    BY <1>2, <2>1 DEF IInv, SessionOK, NoSession, Statuses
<1>4. \A o \in Session : Running(o)' <=> Running(o)
  BY <1>2 DEF Running, IInv, SessionOK, NoSession
<1>5. \A r \in Request : ~Starting(r)'
  BY DEF StartPromotion, BranchFree, Starting
<1>6. StartAlone' /\ StartLocked' /\ OneRunning'
  BY <1>4, <1>5 DEF StartAlone, StartLocked, OneRunning, IInv
<1>. QED
  BY <1>1, <1>3, <1>6 DEF StartPromotion, IInv, TxnOK, TaskOK, Works, RunsOK, BranchOK,
                          people, years

(* What a request that begins carries.                                     *)
LEMMA BeginIInv ==
    ASSUME IInv, NEW r \in Request, NEW s \in Session,
           \/ \E st \in Student, a \in Actions : BeginOverride(r, s, st, a)
           \/ \E st \in Student, placed \in BOOLEAN : BeginPlace(r, s, st, placed)
           \/ BeginApprove(r, s) \/ BeginReopen(r, s)
           \/ BeginPrepare(r, s) \/ BeginMapClasses(r, s)
           \/ BeginValidate(r, s) \/ BeginLock(r, s) \/ BeginUnlock(r, s)
           \/ BeginInvalidate(r, s)
    PROVE  IInv'
<1>1. CASE \E st \in Student, a \in Actions : BeginOverride(r, s, st, a)
  BY <1>1, BeginOther DEF BeginOverride, Begin, Carries, Idle
<1>2. CASE \E st \in Student, placed \in BOOLEAN : BeginPlace(r, s, st, placed)
  BY <1>2, BeginOther DEF BeginPlace, Begin, Carries, Idle
<1>3. CASE BeginApprove(r, s)
  BY <1>3, BeginOther DEF BeginApprove, Begin, Carries, Idle
<1>4. CASE BeginReopen(r, s)
  BY <1>4, BeginOther DEF BeginReopen, Begin, Carries, Idle
<1>5. CASE BeginPrepare(r, s) \/ BeginMapClasses(r, s)
  BY <1>5, BeginOther DEF BeginPrepare, BeginMapClasses, BeginSections, Begin, Carries, Idle
<1>6. \A st \in Student \cap DOMAIN Checked(s) : Checked(s)[st] \in Verdicts
  BY DEF Checked, Verdict, Verdicts
<1>7. session[s].preparation \in Preparations /\ session[s].validated \in Validations
  BY DEF IInv, SessionOK
<1>8. CASE BeginValidate(r, s)
  BY <1>6, <1>7, <1>8, BeginOther DEF BeginValidate, Begin, Carries, Idle
<1>9. CASE BeginLock(r, s)
  BY <1>6, <1>7, <1>9, BeginOther DEF BeginLock, Begin, Carries, Idle
<1>10. CASE BeginUnlock(r, s)
  BY <1>10, BeginOther DEF BeginUnlock, Begin, Carries, Idle
<1>11. CASE BeginInvalidate(r, s)
  BY <1>11, BeginOther DEF BeginInvalidate, Begin, Carries, Idle
<1>. QED
  BY <1>1, <1>2, <1>3, <1>4, <1>5, <1>8, <1>9, <1>10, <1>11

(* Committing: what each request writes keeps the types, and what writes to *)
(* the session or its decisions waits for a start, except for sections.    *)
LEMMA CommitIInv ==
    ASSUME IInv, NEW r \in Request,
           \/ CommitOverride(r) \/ CommitApprove(r) \/ CommitReopen(r)
           \/ CommitSections(r) \/ CommitPlace(r) \/ CommitValidate(r) \/ CommitLock(r)
           \/ CommitUnlock(r) \/ CommitInvalidate(r)
    PROVE  IInv'
<1>1. txn[r] # Idle /\ ~Starting(r)
  <2>1. txn[r].pc \in {"override", "approve", "reopen", "sections", "place", "validate", "lock",
                       "unlock", "invalidate"}
    BY DEF CommitOverride, CommitApprove, CommitReopen, CommitSections, CommitPlace,
           CommitValidate, CommitLock, CommitUnlock, CommitInvalidate
  <2>. QED
    BY <2>1 DEF Idle, Starting
<1>2. PICK s \in Session : s = txn[r].s
  BY <1>1 DEF IInv, TxnOK, Carries
<1>3. DOMAIN session = Session /\ DOMAIN session[s] = DOMAIN NoSession
  BY <1>2 DEF IInv, SessionOK
<1>4. /\ session[s].status \in Statuses /\ session[s].preparation \in Preparations
      /\ session[s].execution \in Executions /\ session[s].validated \in Validations
      /\ session[s].token \in BOOLEAN
  BY <1>2 DEF IInv, SessionOK
<1>5. decision \in [Session -> [Student -> Decisions]] /\ decision[s] \in [Student -> Decisions]
  BY <1>2 DEF IInv, DecisionOK
(* What remains to show of an action that writes row to the session.       *)
<1>6. ASSUME NEW row, session' = [session EXCEPT ![s] = row],
             DOMAIN row = DOMAIN NoSession,
             row.status \in Statuses, row.preparation \in Preparations,
             row.execution = session[s].execution, row.validated \in Validations,
             row.token \in BOOLEAN
      PROVE  /\ SessionOK'
             /\ \A o \in Session \ {s} : session'[o] = session[o]
             /\ session'[s] = row
  BY <1>2, <1>3, <1>4, <1>6 DEF IInv, SessionOK
<1>7. ASSUME NEW made \in [Student -> Decisions], decision' = [decision EXCEPT ![s] = made]
      PROVE  /\ DecisionOK'
             /\ \A o \in Session \ {s} : decision'[o] = decision[o]
             /\ decision'[s] = made
  BY <1>2, <1>5, <1>7 DEF DecisionOK
<1>8. CASE CommitOverride(r)
  <2>1. txn[r].action \in Actions
    BY <1>8 DEF CommitOverride, IInv, TxnOK, Carries
  <2>. DEFINE made == [decision[s] EXCEPT ![txn[r].st].action = txn[r].action]
  <2>2. made \in [Student -> Decisions]
    BY <2>1, <1>5 DEF Decisions
  <2>3. decision' = [decision EXCEPT ![s] = made]
    BY <1>2, <1>8 DEF CommitOverride
  <2>. QED
    BY ZenonT(60), <1>1, <1>2, <1>7, <1>8, <2>2, <2>3, CommitOther DEF CommitOverride, IInv, SessionOK
<1>9. CASE CommitApprove(r)
  <2>. DEFINE row == [session[s] EXCEPT !.status = "approved"]
  <2>1. session' = [session EXCEPT ![s] = row]
    BY <1>2, <1>9 DEF CommitApprove
  <2>2. /\ DOMAIN row = DOMAIN NoSession /\ row.execution = session[s].execution
        /\ row.status \in Statuses /\ row.preparation \in Preparations
        /\ row.validated \in Validations /\ row.token \in BOOLEAN
    BY <1>3, <1>4 DEF Statuses, NoSession
  <2>3. DecisionOK' /\ \A o \in Session \ {s} : decision'[o] = decision[o]
    BY <1>2, <1>9 DEF CommitApprove, IInv, DecisionOK
  <2>. HIDE DEF row
  <2>4. SessionOK' /\ (\A o \in Session \ {s} : session'[o] = session[o]) /\ session'[s] = row
    BY <1>6, <2>1, <2>2
  <2>. QED
    BY <1>1, <1>2, <1>9, <2>2, <2>3, <2>4, CommitOther DEF CommitApprove
<1>10. CASE CommitReopen(r)
  <2>. DEFINE row == [NoSession EXCEPT !.status = "draft", !.execution = session[s].execution]
              made == [st \in Student |-> [NoDecision EXCEPT !.action = decision[s][st].action]]
  <2>1. session' = [session EXCEPT ![s] = row] /\ decision' = [decision EXCEPT ![s] = made]
    BY <1>2, <1>10 DEF CommitReopen
  <2>2. /\ DOMAIN row = DOMAIN NoSession /\ row.execution = session[s].execution
        /\ row.status \in Statuses /\ row.preparation \in Preparations
        /\ row.validated \in Validations /\ row.token \in BOOLEAN
    BY DEF Statuses, Preparations, Validations, NoSession
  <2>3. made \in [Student -> Decisions]
    BY <1>5 DEF Decisions, NoDecision
  <2>. HIDE DEF row, made
  <2>4. SessionOK' /\ (\A o \in Session \ {s} : session'[o] = session[o]) /\ session'[s] = row
    BY <1>6, <2>1, <2>2
  <2>5. DecisionOK' /\ \A o \in Session \ {s} : decision'[o] = decision[o]
    BY <1>7, <2>1, <2>3
  <2>. QED
    BY <1>1, <1>2, <1>10, <2>2, <2>4, <2>5, CommitOther DEF CommitReopen
<1>11. CASE CommitSections(r)
  <2>0. PICK found \in SUBSET {st \in Student : decision[txn[r].s][st].action \in Moves} :
          decision' = [decision EXCEPT ![txn[r].s] = [st \in Student |->
               LET d == decision[txn[r].s][st] IN
               [d EXCEPT !.placed =
                   st \in found \/ (@ /\ d.action \in Deferred \cup {"retain"})]]]
    BY <1>11 DEF CommitSections
  <2>. DEFINE keeps(d) == d.placed /\ d.action \in Deferred \cup {"retain"}
              made == [st \in Student |->
                  [decision[s][st] EXCEPT !.placed = st \in found \/ keeps(decision[s][st])]]
              row == [session[s] EXCEPT !.preparation =
                  IF txn[r].starts /\ txn[r].first THEN "in_progress" ELSE @]
  <2>1. decision' = [decision EXCEPT ![s] = made] /\ session' = [session EXCEPT ![s] = row]
    BY <2>0, <1>2, <1>11 DEF CommitSections
  <2>2. /\ DOMAIN row = DOMAIN NoSession /\ row.execution = session[s].execution
        /\ row.status = session[s].status /\ row.preparation \in Preparations
        /\ row.validated \in Validations /\ row.token \in BOOLEAN
        /\ ~txn[r].first => row.preparation = session[s].preparation
    BY <1>3, <1>4 DEF Preparations, NoSession
  <2>3. made \in [Student -> Decisions]
    BY <1>5 DEF Decisions
  <2>4. \A st \in Student : /\ made[st].action = decision[s][st].action
                            /\ made[st].readiness = decision[s][st].readiness
    BY <1>5 DEF Decisions
  <2>. HIDE DEF row, made
  <2>5. SessionOK' /\ (\A o \in Session \ {s} : session'[o] = session[o]) /\ session'[s] = row
    BY <1>4, <1>6, <2>1, <2>2
  <2>6. DecisionOK' /\ (\A o \in Session \ {s} : decision'[o] = decision[o]) /\ decision'[s] = made
    BY <1>7, <2>1, <2>3
  <2>7. Ready(s)' = Ready(s)
    BY <2>4, <2>6 DEF Ready, Roster
  <2>8. /\ Finish(r) /\ UNCHANGED <<people, fees, years, runs, task>>
        /\ txn[r].first => SessionFree(s)
    BY <1>2, <1>11 DEF CommitSections
  <2>. QED
    BY <1>1, <1>2, <2>2, <2>5, <2>6, <2>7, <2>8, CommitOther
<1>12. CASE CommitPlace(r)
  <2>1. txn[r].placed \in BOOLEAN
    BY <1>12 DEF CommitPlace, IInv, TxnOK, Carries
  <2>. DEFINE made == [decision[s] EXCEPT ![txn[r].st].placed = txn[r].placed]
  <2>2. made \in [Student -> Decisions]
    BY <2>1, <1>5 DEF Decisions
  <2>3. \A st \in Student : /\ made[st].action = decision[s][st].action
                            /\ made[st].readiness = decision[s][st].readiness
    BY <1>5 DEF Decisions
  <2>4. decision' = [decision EXCEPT ![s] = made]
    BY <1>2, <1>12 DEF CommitPlace
  <2>. HIDE DEF made
  <2>5. DecisionOK' /\ (\A o \in Session \ {s} : decision'[o] = decision[o]) /\ decision'[s] = made
    BY <1>7, <2>2, <2>4
  <2>6. Ready(s)' = Ready(s)
    BY <2>3, <2>5 DEF Ready, Roster
  <2>. QED
    BY <1>1, <1>2, <1>12, <2>5, <2>6, CommitOther DEF CommitPlace, IInv, SessionOK
<1>13. CASE CommitValidate(r) \/ CommitLock(r)
  <2>. DEFINE made == [st \in Student |->
                  IF st \in DOMAIN txn[r].verdict
                  THEN [decision[s][st] EXCEPT !.readiness = txn[r].verdict[st]]
                  ELSE decision[s][st]]
              checked == [session[s] EXCEPT
                  !.validated = IF AllReady(txn[r].verdict) THEN "clean" ELSE "blocked",
                  !.token = FALSE,
                  !.preparation = IF txn[r].seen.preparation = "not_started"
                                  THEN "in_progress" ELSE txn[r].seen.preparation]
              locked == [session[s] EXCEPT !.preparation = "locked",
                  !.validated = Snapshot(txn[r]), !.token = TRUE, !.print = Fingerprint(s)]
              row == IF CommitLock(r) THEN locked ELSE checked
  <2>1. /\ txn[r].seen.preparation \in Preparations
        /\ txn[r].seen.validated \in Validations
        /\ \A st \in Student \cap DOMAIN txn[r].verdict : txn[r].verdict[st] \in Verdicts
    BY <1>13 DEF CommitValidate, CommitLock, IInv, TxnOK, Carries
  <2>2. made \in [Student -> Decisions]
    BY <1>5, <2>1 DEF Decisions
  <2>3. decision' = [decision EXCEPT ![s] = made]
    BY <1>2, <1>13 DEF CommitValidate, CommitLock, Judge
  <2>4. session' = [session EXCEPT ![s] = row]
    BY <1>2, <1>13 DEF CommitValidate, CommitLock
  <2>5. /\ DOMAIN checked = DOMAIN NoSession /\ checked.execution = session[s].execution
        /\ checked.status \in Statuses /\ checked.preparation \in Preparations
        /\ checked.validated \in Validations /\ checked.token \in BOOLEAN
    BY <1>3, <1>4, <2>1 DEF Preparations, Validations, NoSession
  <2>6. /\ DOMAIN locked = DOMAIN NoSession /\ locked.execution = session[s].execution
        /\ locked.status \in Statuses /\ locked.preparation \in Preparations
        /\ locked.validated \in Validations /\ locked.token \in BOOLEAN
    BY <1>3, <1>4, <2>1 DEF Preparations, Validations, NoSession, Snapshot
  <2>7. SessionFree(s)
    BY <1>2, <1>13 DEF CommitValidate, CommitLock
  <2>. HIDE DEF made, checked, locked
  <2>8. SessionOK' /\ (\A o \in Session \ {s} : session'[o] = session[o]) /\ session'[s] = row
    BY <1>6, <2>4, <2>5, <2>6
  <2>9. DecisionOK' /\ \A o \in Session \ {s} : decision'[o] = decision[o]
    BY <1>7, <2>2, <2>3
  <2>10. Finish(r) /\ UNCHANGED <<people, fees, years, runs, task>>
    BY <1>2, <1>13 DEF CommitValidate, CommitLock
  <2>11. session'[s].execution = session[s].execution
    BY <2>5, <2>6, <2>8
  <2>. HIDE DEF row
  <2>. QED
    BY <1>1, <1>2, <2>7, <2>8, <2>9, <2>10, <2>11, CommitOther
<1>14. CASE CommitUnlock(r)
  <2>. DEFINE row == [session[s] EXCEPT !.preparation = "in_progress", !.print = <<>>]
  <2>1. session' = [session EXCEPT ![s] = row]
    BY <1>2, <1>14 DEF CommitUnlock
  <2>2. /\ DOMAIN row = DOMAIN NoSession /\ row.execution = session[s].execution
        /\ row.status \in Statuses /\ row.preparation \in Preparations
        /\ row.validated \in Validations /\ row.token \in BOOLEAN
    BY <1>3, <1>4 DEF Preparations, NoSession
  <2>3. DecisionOK' /\ \A o \in Session \ {s} : decision'[o] = decision[o]
    BY <1>2, <1>14 DEF CommitUnlock, IInv, DecisionOK
  <2>. HIDE DEF row
  <2>4. SessionOK' /\ (\A o \in Session \ {s} : session'[o] = session[o]) /\ session'[s] = row
    BY <1>6, <2>1, <2>2
  <2>. QED
    BY <1>1, <1>2, <1>14, <2>2, <2>3, <2>4, CommitOther DEF CommitUnlock
<1>15. CASE CommitInvalidate(r)
  <2>. DEFINE row == [session[s] EXCEPT !.preparation = "invalid"]
  <2>1. session' = [session EXCEPT ![s] = row]
    BY <1>2, <1>15 DEF CommitInvalidate
  <2>2. /\ DOMAIN row = DOMAIN NoSession /\ row.execution = session[s].execution
        /\ row.status \in Statuses /\ row.preparation \in Preparations
        /\ row.validated \in Validations /\ row.token \in BOOLEAN
    BY <1>3, <1>4 DEF Preparations, NoSession
  <2>3. DecisionOK' /\ \A o \in Session \ {s} : decision'[o] = decision[o]
    BY <1>2, <1>15 DEF CommitInvalidate, IInv, DecisionOK
  <2>. HIDE DEF row
  <2>4. SessionOK' /\ (\A o \in Session \ {s} : session'[o] = session[o]) /\ session'[s] = row
    BY <1>6, <2>1, <2>2
  <2>. QED
    BY <1>1, <1>2, <1>15, <2>2, <2>3, <2>4, CommitOther DEF CommitInvalidate
<1>. QED
  BY <1>8, <1>9, <1>10, <1>11, <1>12, <1>13, <1>14, <1>15

LEMMA BeginStartIInv ==
    ASSUME IInv, NEW r \in Request, NEW s \in Session, BeginStart(r, s)
    PROVE  IInv'
<1>1. \A q \in Request : txn'[q] = IF q = r THEN [pc |-> "send", s |-> s] ELSE txn[q]
  BY DEF BeginStart, Begin, IInv, TxnOK
<1>2. TxnOK'
  BY <1>1 DEF BeginStart, Begin, IInv, TxnOK, Carries, Idle
<1>3. \A q \in Request : Starting(q)' => q = r
  BY <1>1 DEF BeginStart, BranchFree, Starting
<1>4. StartAlone'
  BY <1>3 DEF BeginStart, NoneRunning, StartAlone, Running
<1>5. Ready(s)' = Ready(s) /\ txn'[r].s = s
  BY <1>1 DEF BeginStart, Ready, Roster
<1>6. StartLocked'
  <2>1. Ready(txn[r].s)' # {}
    BY <1>1 DEF BeginStart, Ready, Roster
  <2>. QED
    BY <1>1, <1>3, <2>1 DEF BeginStart, StartLocked
<1>. QED
  BY <1>2, <1>4, <1>6 DEF BeginStart, IInv, SessionOK, DecisionOK, TaskOK, Works, RunsOK,
                          BranchOK, OneRunning, Running, people, years

LEMMA SendTaskIInv ==
    ASSUME IInv, NEW r \in Request, NEW t \in Task, SendTask(r, t)
    PROVE  IInv'
<1>1. \A q \in Request : txn'[q] =
          IF q = r THEN [pc |-> "commit_start", s |-> txn[r].s, t |-> t] ELSE txn[q]
  BY DEF SendTask, IInv, TxnOK
<1>2. txn[r].s \in Session
  BY DEF SendTask, IInv, TxnOK, Carries, Idle
<1>3. TxnOK'
  BY <1>1, <1>2 DEF SendTask, IInv, TxnOK, Carries, Idle
<1>4. \A q \in Request : (Starting(q)' <=> Starting(q)) /\ txn'[q].s = txn[q].s
  BY <1>1 DEF SendTask, Starting
<1>5. StartAlone'
  BY <1>4 DEF SendTask, IInv, StartAlone, Running
<1>6. StartLocked'
  BY <1>4 DEF SendTask, IInv, StartLocked, Ready, Roster
<1>7. TaskOK'
  BY DEF SendTask, Message, IInv, TaskOK, Begun, Works
<1>. QED
  BY <1>3, <1>5, <1>6, <1>7 DEF SendTask, IInv, SessionOK, DecisionOK, RunsOK, BranchOK,
                                OneRunning, Running, people, years

(* No other session is running when the one being started becomes so.      *)
LEMMA CommitStartIInv ==
    ASSUME IInv, NEW r \in Request, CommitStart(r)
    PROVE  IInv'
<1>1. PICK s \in Session : s = txn[r].s
  BY DEF CommitStart, IInv, TxnOK, Carries, Idle
<1>2. Starting(r)
  BY DEF CommitStart, Starting
<1>3. /\ \A q \in Request : Starting(q) => q = r
      /\ \A o \in Session : ~Running(o)
      /\ Len(runs) < MaxRuns
  BY <1>2 DEF IInv, StartAlone
<1>4. \A q \in Request : txn'[q] = IF q = r THEN Idle ELSE txn[q]
  BY DEF CommitStart, Finish, IInv, TxnOK
<1>5. TxnOK'
  BY <1>4 DEF CommitStart, Finish, IInv, TxnOK, Carries, Idle
<1>6. \A q \in Request : ~Starting(q)'
  BY <1>3, <1>4 DEF Starting, Idle
<1>7. /\ DOMAIN session' = Session
      /\ \A o \in Session : session'[o] = IF o = s THEN [session[o] EXCEPT !.execution = "running"]
                                                   ELSE session[o]
  BY <1>1 DEF CommitStart, IInv, SessionOK
<1>8. SessionOK'
  BY <1>7 DEF IInv, SessionOK, NoSession, Executions
<1>9. OneRunning'
  BY <1>3, <1>7 DEF OneRunning, Running
<1>10. RunsOK' /\ Len(runs') = Len(runs) + 1
  <2>. DEFINE new == [s |-> txn[r].s, status |-> "running", moved |-> 0, graduated |-> 0,
                      failed |-> 0, log |-> [st \in Student |-> "none"]]
  <2>1. new \in Run
    BY <1>1 DEF Run
  <2>2. runs' = Append(runs, new)
    BY DEF CommitStart
  <2>3. runs \in Seq(Run)
    BY DEF IInv, RunsOK
  <2>. HIDE DEF new
  <2>. QED
    BY <2>1, <2>2, <2>3, AppendProperties DEF RunsOK
<1>11. Len(runs) \in Nat
  BY DEF IInv, RunsOK
<1>12. TaskOK'
  BY <1>10, <1>11 DEF CommitStart, IInv, TaskOK, Begun, Works
<1>13. Len(runs') <= MaxRuns
  BY <1>3, <1>10, <1>11, BoundAssumption
<1>. QED
  BY <1>5, <1>6, <1>8, <1>9, <1>10, <1>12, <1>13
     DEF CommitStart, IInv, DecisionOK, BranchOK, StartAlone, StartLocked, people, years

LEMMA AbortIInv ==
    ASSUME IInv, NEW r \in Request, Abort(r)
    PROVE  IInv'
<1>1. \A q \in Request : txn'[q] = IF q = r THEN Idle ELSE txn[q]
  BY DEF Abort, Finish, IInv, TxnOK
<1>2. TxnOK'
  BY <1>1 DEF Abort, Finish, IInv, TxnOK, Carries, Idle
<1>3. \A q \in Request : Starting(q)' => Starting(q) /\ txn'[q] = txn[q]
  BY <1>1 DEF Starting, Idle
<1>4. StartAlone'
  BY <1>3 DEF Abort, IInv, StartAlone, Running
<1>5. StartLocked'
  BY <1>3 DEF Abort, IInv, StartLocked, Ready, Roster
<1>6. TaskOK'
  BY DEF Abort, Message, IInv, TaskOK, Begun, Works
<1>. QED
  BY <1>2, <1>4, <1>5, <1>6 DEF Abort, IInv, SessionOK, DecisionOK, RunsOK, BranchOK,
                                OneRunning, Running, people, years

LEMMA ResumeIInv ==
    ASSUME IInv, NEW s \in Session, NEW t \in Task, Resume(s, t)
    PROVE  IInv'
<1>1. TaskOK'
  BY DEF Resume, Message, IInv, TaskOK, Begun, Works
<1>. QED
  BY <1>1, TaskOnly DEF Resume, people

LEMMA OthersIInv ==
    ASSUME IInv, EditFees \/ \E st \in Student, y \in Year : TransferStudent(st, y)
    PROVE  IInv'
<1>1. BranchOK'
  BY BoundAssumption DEF EditFees, TransferStudent, IInv, BranchOK, people, years
<1>2. UNCHANGED <<session, decision, runs, txn, task>>
  BY DEF EditFees, TransferStudent
<1>3. TaskOK' /\ RunsOK' /\ Len(runs') = Len(runs)
  BY <1>2 DEF IInv, TaskOK, Begun, Works, RunsOK
<1>. QED
  BY <1>1, <1>2, <1>3, TaskWrites

(* A task step keeps the task's shape.                                     *)
LEMMA GotoOK ==
    ASSUME IInv, NEW t \in Task, NEW pc, Begun(task[t]), Goto(t, pc), Len(runs') >= Len(runs)
    PROVE  TaskOK'
<1>1. \A u \in Task : task'[u] = IF u = t THEN [task[t] EXCEPT !.pc = pc] ELSE task[u]
  BY DEF Goto, IInv, TaskOK
<1>2. DOMAIN task' = Task
  BY DEF Goto, IInv, TaskOK
<1>3. ASSUME NEW u \in Task, Works(task[u]) PROVE task'[u].run = task[u].run
  BY <1>1, <1>3 DEF Works
<1>. QED
  BY <1>1, <1>2, <1>3 DEF IInv, TaskOK, Works, Begun, RunsOK

(* The steps that change nothing but the task.                             *)
LEMMA QuietSteps ==
    ASSUME IInv, NEW t \in Task,
           \/ RunNotFound(t) \/ NextStudent(t) \/ FindSource(t) \/ Notify(t) \/ Raise(t)
           \/ Crash(t) \/ TaskBegin(t) \/ FlipRaises(t) \/ NoFlip(t)
    PROVE  IInv'
<1>1. DOMAIN task = Task /\ Len(runs) \in Nat /\ runs \in Seq(Run)
  BY DEF IInv, TaskOK, RunsOK
<1>2. UNCHANGED <<session, decision, enrolled, fees, years, runs, txn>>
  BY DEF RunNotFound, NextStudent, FindSource, Notify, Raise, Crash, TaskBegin, FlipRaises,
         NoFlip, people
(* A task state of the right shape may take the place of another.          *)
<1>3. ASSUME NEW x, task' = [task EXCEPT ![t] = x], "pc" \in DOMAIN x, Begun(x) => Works(x)
      PROVE  IInv'
  <2>1. TaskOK'
    BY <1>1, <1>2, <1>3 DEF IInv, TaskOK, Works
  <2>. QED
    BY <1>2, <2>1, TaskOnly
<1>4. Begun(task[t]) => Works(task[t])
  BY DEF IInv, TaskOK
<1>5. CASE RunNotFound(t) \/ Crash(t)
  <2>1. PICK pc \in {"lost", "dead"} : task' = [task EXCEPT ![t] = [pc |-> pc]]
    BY <1>5 DEF RunNotFound, Crash
  <2>2. ~Begun([pc |-> pc]) /\ "pc" \in DOMAIN [pc |-> pc]
    BY DEF Begun
  <2>. QED
    BY <1>3, <2>1, <2>2
<1>6. CASE TaskBegin(t)
  <2>1. task[t].run \in 1..Len(runs) /\ runs[task[t].run] \in Run
    BY <1>1, <1>6 DEF TaskBegin
  <2>. DEFINE i == task[t].run
              x == [pc |-> "next", run |-> i, st |-> 0, todo |-> Ready(runs[i].s),
                    acts |-> [st \in Ready(runs[i].s) |-> decision[runs[i].s][st].action],
                    moved |-> runs[i].moved, graduated |-> runs[i].graduated,
                    failed |-> runs[i].failed, final |-> "succeeded"]
  <2>2. Works(x) /\ "pc" \in DOMAIN x
    BY <2>1 DEF Works, Run, Ends
  <2>3. task' = [task EXCEPT ![t] = x]
    BY <1>6 DEF TaskBegin
  <2>. HIDE DEF x
  <2>. QED
    BY <1>3, <2>2, <2>3
<1>7. CASE NextStudent(t)
  <2>1. Works(task[t])
    BY <1>4, <1>7 DEF NextStudent, At, Begun
  <2>. DEFINE st == CHOOSE x \in task[t].todo : \A y \in task[t].todo : x <= y
              x == [task[t] EXCEPT !.st = st, !.todo = task[t].todo \ {st},
                       !.pc = IF task[t].acts[st] \in Deferred THEN "skip" ELSE "source"]
  <2>2. task' = [task EXCEPT ![t] = x]
    BY <1>7 DEF NextStudent
  <2>3. Works(x) /\ "pc" \in DOMAIN x
    BY <2>1 DEF Works
  <2>. HIDE DEF x
  <2>. QED
    BY <1>3, <2>2, <2>3
<1>8. CASE FindSource(t) \/ Notify(t) \/ Raise(t)
  <2>1. Begun(task[t])
    BY <1>8 DEF FindSource, Notify, Raise, At, Begun
  <2>2. \E pc : Goto(t, pc)
    BY <1>8 DEF FindSource, Notify, Raise
  <2>. QED
    BY <1>1, <1>2, <2>1, <2>2, GotoOK, TaskOnly
<1>9. CASE FlipRaises(t) \/ NoFlip(t)
  <2>1. Works(task[t])
    BY <1>4, <1>9 DEF FlipRaises, NoFlip, At, Begun
  <2>. DEFINE run == runs[task[t].run]
              final == IF FlipRaises(t) THEN "failed"
                       ELSE IF run.failed = 0 THEN "succeeded"
                       ELSE IF run.moved > 0 THEN "partial" ELSE "failed"
              x == [task[t] EXCEPT !.pc = "end", !.final = final]
  (* If anybody was moved the year is turned: no run ends as partial.      *)
  <2>2. final \in Ends
    <3>1. run \in Run
      BY <1>1, <2>1 DEF Works
    <3>2. run.moved \in Nat /\ run.graduated \in Nat /\ run.failed \in Nat
      BY <3>1 DEF Run
    <3>3. CASE FlipRaises(t)
      BY <3>3 DEF Ends
    <3>4. CASE ~FlipRaises(t)
      <4>1. ~WorthFlipping(run)
        BY <1>9, <3>4 DEF NoFlip
      <4>2. run.failed = 0 \/ run.moved = 0
        BY <3>2, <4>1 DEF WorthFlipping, FlipOk
      <4>. QED
        BY <3>2, <3>4, <4>2 DEF Ends
    <3>. QED
      BY <3>3, <3>4
  <2>3. task' = [task EXCEPT ![t] = x]
    BY <1>9 DEF FlipRaises, NoFlip
  <2>. HIDE DEF final
  <2>4. Works(x) /\ "pc" \in DOMAIN x
    BY <2>1, <2>2 DEF Works
  <2>. HIDE DEF x
  <2>. QED
    BY <1>3, <2>3, <2>4
<1>. QED
  BY <1>5, <1>6, <1>7, <1>8, <1>9

(* The steps that write to people, to runs or to the years.                *)
LEMMA WritingSteps ==
    ASSUME IInv, NEW t \in Task,
           \/ SkipStudent(t) \/ CreateTarget(t) \/ LeaveSource(t) \/ SettleProfile(t)
           \/ AssignFees(t) \/ CountStudent(t) \/ LogSuccess(t) \/ LogFailure(t)
           \/ CountFailure(t) \/ FailRun(t) \/ FlipYear(t) \/ EndRun(t)
    PROVE  IInv'
<1>. DEFINE i == task[t].run
<1>1. Begun(task[t])
  BY DEF SkipStudent, CreateTarget, LeaveSource, SettleProfile, AssignFees, CountStudent,
         LogSuccess, LogFailure, CountFailure, FailRun, FlipYear, EndRun, At, Begun
<1>2. Works(task[t])
  BY <1>1 DEF IInv, TaskOK
<1>3. runs \in Seq(Run) /\ Len(runs) \in Nat /\ i \in 1..Len(runs) /\ runs[i] \in Run
  BY <1>2 DEF IInv, RunsOK, Works
<1>4. Sid(t) \in Session /\ Src(t) \in Year /\ Tgt(t) \in Year
  BY <1>3 DEF Sid, Src, Tgt, Run, Year
<1>5. BranchOK /\ RunsOK /\ TaskOK /\ DOMAIN task = Task
  BY DEF IInv, TaskOK
<1>6. UNCHANGED <<session, decision, txn>>
  BY DEF SkipStudent, CreateTarget, LeaveSource, SettleProfile, AssignFees, CountStudent,
         LogSuccess, LogFailure, CountFailure, FailRun, FlipYear, EndRun
(* Writing a run's row leaves a row.                                       *)
<1>7. ASSUME NEW row \in Run, runs' = [runs EXCEPT ![i] = row]
      PROVE  RunsOK' /\ Len(runs') = Len(runs)
  BY <1>3, <1>7, ExceptSeq DEF RunsOK
<1>8. ASSUME NEW entry \in {"skipped"} \cup Ends, WriteLog(t, entry)
      PROVE  RunsOK' /\ Len(runs') = Len(runs)
  <2>. DEFINE row == [runs[i] EXCEPT !.log[task[t].st] = entry]
  <2>1. row \in Run
    BY <1>3, <1>8 DEF Run
  <2>2. runs' = [runs EXCEPT ![i] = row]
    BY <1>8 DEF WriteLog
  <2>. HIDE DEF row
  <2>. QED
    BY <1>7, <2>1, <2>2
<1>9. ASSUME UNCHANGED runs PROVE RunsOK' /\ Len(runs') = Len(runs)
  BY <1>5, <1>9 DEF RunsOK
<1>10. ASSUME NEW x, task' = [task EXCEPT ![t] = x], Works(x), Len(runs') = Len(runs)
       PROVE  TaskOK'
  BY <1>5, <1>10 DEF TaskOK, Works
<1>11. CASE SkipStudent(t) \/ LogSuccess(t) \/ LogFailure(t)
  <2>1. RunsOK' /\ Len(runs') = Len(runs)
    BY <1>8, <1>9, <1>11 DEF SkipStudent, LogSuccess, LogFailure, Ends
  <2>2. \E pc : Goto(t, pc)
    BY <1>11 DEF SkipStudent, LogSuccess, LogFailure
  <2>3. TaskOK'
    BY <1>1, <1>3, <2>1, <2>2, GotoOK
  <2>4. BranchOK'
    BY <1>5, <1>11 DEF SkipStudent, LogSuccess, LogFailure, BranchOK, people, years
  <2>. QED
    BY <1>6, <2>1, <2>3, <2>4, TaskWrites
<1>12. CASE CreateTarget(t) \/ LeaveSource(t) \/ SettleProfile(t) \/ AssignFees(t) \/ FlipYear(t)
  <2>1. RunsOK' /\ Len(runs') = Len(runs)
    BY <1>9, <1>12 DEF CreateTarget, LeaveSource, SettleProfile, AssignFees, FlipYear
  <2>2. \E pc : Goto(t, pc)
    BY <1>12 DEF CreateTarget, LeaveSource, SettleProfile, AssignFees, FlipYear
  <2>3. TaskOK'
    BY <1>1, <1>3, <2>1, <2>2, GotoOK
  <2>4. BranchOK'
    BY <1>4, <1>5, <1>12
       DEF CreateTarget, LeaveSource, SettleProfile, AssignFees, FlipYear, BranchOK, people, years
  <2>. QED
    BY <1>6, <2>1, <2>3, <2>4, TaskWrites
<1>13. CASE CountStudent(t)
  <2>. DEFINE moved == task[t].moved + (IF Act(t) \in Moves THEN 1 ELSE 0)
              graduated == task[t].graduated + (IF Act(t) = "graduate" THEN 1 ELSE 0)
              row == [runs[i] EXCEPT
                  !.moved = IF Act(t) \in Moves THEN moved ELSE runs[i].moved,
                  !.graduated = IF Act(t) = "graduate" THEN graduated ELSE runs[i].graduated]
              x == [task[t] EXCEPT !.pc = After(t), !.moved = moved, !.graduated = graduated]
  <2>1. moved \in Nat /\ graduated \in Nat
    BY <1>2 DEF Works
  <2>2. runs' = [runs EXCEPT ![i] = row] /\ task' = [task EXCEPT ![t] = x]
    BY <1>13 DEF CountStudent
  <2>. HIDE DEF moved, graduated
  <2>3. row \in Run
    BY <1>3, <2>1 DEF Run
  <2>4. Works(x)
    BY <1>2, <2>1 DEF Works
  <2>. HIDE DEF row, x
  <2>5. RunsOK' /\ Len(runs') = Len(runs)
    BY <1>7, <2>2, <2>3
  <2>6. TaskOK'
    BY <1>10, <2>2, <2>4, <2>5
  <2>7. BranchOK'
    BY <1>5, <1>13 DEF CountStudent, BranchOK, people, years
  <2>. QED
    BY <1>6, <2>5, <2>6, <2>7, TaskWrites
<1>14. CASE CountFailure(t)
  <2>. DEFINE failed == task[t].failed + 1
              row == [runs[i] EXCEPT !.failed = failed]
              x == [task[t] EXCEPT !.pc = "next", !.failed = failed]
  <2>1. failed \in Nat
    BY <1>2 DEF Works
  <2>2. runs' = [runs EXCEPT ![i] = row] /\ task' = [task EXCEPT ![t] = x]
    BY <1>14 DEF CountFailure
  <2>. HIDE DEF failed
  <2>3. row \in Run
    BY <1>3, <2>1 DEF Run
  <2>4. Works(x)
    BY <1>2, <2>1 DEF Works
  <2>. HIDE DEF row, x
  <2>5. RunsOK' /\ Len(runs') = Len(runs)
    BY <1>7, <2>2, <2>3
  <2>6. TaskOK'
    BY <1>10, <2>2, <2>4, <2>5
  <2>7. BranchOK'
    BY <1>5, <1>14 DEF CountFailure, BranchOK, people, years
  <2>. QED
    BY <1>6, <2>5, <2>6, <2>7, TaskWrites
<1>15. CASE FailRun(t) \/ EndRun(t)
  <2>1. PICK end \in Ends : runs' = [runs EXCEPT ![i].status = end]
    <3>1. task[t].final \in Ends /\ "failed" \in Ends
      BY <1>2 DEF Works, Ends
    <3>. QED
      BY <1>15, <3>1 DEF FailRun, EndRun
  <2>. DEFINE row == [runs[i] EXCEPT !.status = end]
  <2>2. row \in Run
    BY <1>3 DEF Run
  <2>3. runs' = [runs EXCEPT ![i] = row]
    BY <2>1
  <2>. HIDE DEF row
  <2>4. RunsOK' /\ Len(runs') = Len(runs)
    BY <1>7, <2>2, <2>3
  <2>5. \E pc : Goto(t, pc)
    BY <1>15 DEF FailRun, EndRun
  <2>6. TaskOK'
    BY <1>1, <1>3, <2>4, <2>5, GotoOK
  <2>7. BranchOK'
    BY <1>5, <1>15 DEF FailRun, EndRun, BranchOK, people, years
  <2>. QED
    BY <1>6, <2>4, <2>6, <2>7, TaskWrites
<1>. QED
  BY <1>11, <1>12, <1>13, <1>14, <1>15

(* A task that ends its session writes one of the two ends.                *)
LEMMA EndingSteps ==
    ASSUME IInv, NEW t \in Task, FailSession(t) \/ EndSession(t)
    PROVE  IInv'
<1>1. Begun(task[t])
  BY DEF FailSession, EndSession, At, Begun
<1>2. Works(task[t]) /\ Len(runs) \in Nat
  BY <1>1 DEF IInv, TaskOK, RunsOK
<1>3. PICK e \in Ends : session' = [session EXCEPT ![Sid(t)].execution = e]
  <2>1. task[t].final \in Ends /\ "failed" \in Ends
    BY <1>2 DEF Works, Ends
  <2>. QED
    BY <2>1 DEF FailSession, EndSession
<1>4. (\E pc : Goto(t, pc)) /\ UNCHANGED <<decision, people, fees, years, runs, txn>>
  BY DEF FailSession, EndSession
<1>5. TaskOK'
  BY <1>1, <1>2, <1>4, GotoOK
<1>6. SessionFree(Sid(t))
  BY DEF FailSession, EndSession
<1>. QED
  BY <1>3, <1>4, <1>5, <1>6, TaskEndsSession

-----------------------------------------------------------------------------
(* The theorems.                                                           *)

LEMMA NextIInv == IInv /\ [Next]_vars => IInv'
<1>. SUFFICES ASSUME IInv, [Next]_vars PROVE IInv'
  OBVIOUS
<1>1. CASE UNCHANGED vars
  BY <1>1, TaskOnly DEF vars, people, years, IInv, TaskOK, Begun, Works
<1>2. ASSUME NEW s \in Session, StartPromotion(s) PROVE IInv'
  BY <1>2, StartPromotionIInv
<1>3. ASSUME NEW r \in Request, NEW s \in Session,
             \/ \E st \in Student, a \in Actions : BeginOverride(r, s, st, a)
             \/ \E st \in Student, placed \in BOOLEAN : BeginPlace(r, s, st, placed)
             \/ BeginApprove(r, s) \/ BeginReopen(r, s)
             \/ BeginPrepare(r, s) \/ BeginMapClasses(r, s)
             \/ BeginValidate(r, s) \/ BeginLock(r, s) \/ BeginUnlock(r, s)
             \/ BeginInvalidate(r, s) \/ BeginStart(r, s)
      PROVE  IInv'
  BY <1>3, BeginIInv, BeginStartIInv
<1>4. ASSUME NEW r \in Request,
             \/ CommitOverride(r) \/ CommitApprove(r) \/ CommitReopen(r)
             \/ CommitSections(r) \/ CommitPlace(r) \/ CommitValidate(r) \/ CommitLock(r)
             \/ CommitUnlock(r) \/ CommitInvalidate(r)
             \/ CommitStart(r) \/ Abort(r)
      PROVE  IInv'
  BY <1>4, CommitIInv, CommitStartIInv, AbortIInv
<1>5. ASSUME NEW t \in Task,
             \/ \E r \in Request : SendTask(r, t)
             \/ \E s \in Session : Resume(s, t)
      PROVE  IInv'
  BY <1>5, SendTaskIInv, ResumeIInv
<1>6. ASSUME NEW t \in Task, TaskStep(t) PROVE IInv'
  BY <1>6, QuietSteps, WritingSteps, EndingSteps DEF TaskStep, StudentStep
<1>7. ASSUME EditFees \/ \E st \in Student, y \in Year : TransferStudent(st, y) PROVE IInv'
  BY <1>7, OthersIInv
<1>. QED
  BY <1>1, <1>2, <1>3, <1>4, <1>5, <1>6, <1>7 DEF Next

THEOREM Invariance == Spec => []IInv
BY InitIInv, NextIInv, PTL DEF Spec

(* Every column and table keeps to its declared values, for any number of  *)
(* sessions, students, requests and tasks.                                 *)
THEOREM TypeCorrect == Spec => []TypeOK
<1>1. IInv => TypeOK
  BY DEF IInv, TypeOK, SessionOK, DecisionOK, BranchOK, Statuses, Preparations, Executions,
         Validations, Verdicts, Ends, Decisions
<1>. QED
  BY <1>1, Invariance, PTL

(* Executions of a branch do not overlap, however starts, aborted starts,  *)
(* dying tasks and resumptions interleave.                                 *)
THEOREM ExecutionsDoNotOverlap == Spec => []OneRunning
<1>1. IInv => OneRunning
  BY DEF IInv
<1>. QED
  BY <1>1, Invariance, PTL

(* An execution starts on a session that is approved, locked and has       *)
(* somebody ready when the start commits: every request that could change  *)
(* that waits for the start or has no effect on it.                        *)
THEOREM StartsOnLocked == Spec => StartsLocked
<1>1. ASSUME IInv, Next, NEW s \in Session, ~Running(s), Running(s)'
      PROVE  \E r \in Request : CommitStart(r) /\ txn[r].s = s
  <2>1. ASSUME session'[s].execution = session[s].execution PROVE FALSE
    BY <1>1, <2>1 DEF Running
  <2>2. DOMAIN session = Session /\ \A o \in Session : DOMAIN session[o] = DOMAIN NoSession
    BY <1>1 DEF IInv, SessionOK
  <2>3. ASSUME NEW o, NEW row, session' = [session EXCEPT ![o] = row],
               o = s => row.execution = session[s].execution \/ row.execution \in Ends
        PROVE  FALSE
    BY <1>1, <2>2, <2>3 DEF Running, Ends
  <2>4. ASSUME NEW o \in Session, StartPromotion(o) PROVE FALSE
    <3>1. session' = [session EXCEPT ![o] = [session[o] EXCEPT !.status = "draft"]]
      BY <2>4 DEF StartPromotion
    <3>. QED
      BY <3>1, <2>2, <2>3 DEF NoSession
  <2>5. ASSUME NEW r \in Request,
               \/ CommitApprove(r) \/ CommitReopen(r) \/ CommitSections(r)
               \/ CommitUnlock(r) \/ CommitInvalidate(r)
        PROVE  FALSE
    BY <2>2, <2>3, <2>5 DEF CommitApprove, CommitReopen, CommitSections, CommitUnlock,
                            CommitInvalidate, NoSession
  <2>6. ASSUME NEW r \in Request, CommitValidate(r) \/ CommitLock(r) PROVE FALSE
    BY <2>2, <2>3, <2>6 DEF CommitValidate, CommitLock, NoSession
  <2>7. ASSUME NEW r \in Request, CommitOverride(r) \/ CommitPlace(r) \/ Abort(r) PROVE FALSE
    BY <2>1, <2>7 DEF CommitOverride, CommitPlace, Abort
  <2>8. ASSUME NEW r \in Request, CommitStart(r) PROVE txn[r].s = s
    BY <2>2, <2>3, <2>8 DEF CommitStart
  <2>9. ASSUME NEW t \in Task, FailSession(t) \/ EndSession(t) PROVE FALSE
    <3>1. Works(task[t])
      BY <1>1, <2>9 DEF IInv, TaskOK, FailSession, EndSession, At, Begun
    <3>2. PICK e \in Ends : session' = [session EXCEPT ![Sid(t)].execution = e]
      BY <2>9, <3>1 DEF FailSession, EndSession, Works, Ends
    <3>. QED
      BY <3>2, <2>2, <2>3 DEF NoSession
  <2>10. ASSUME NEW t \in Task, TaskStep(t), ~FailSession(t), ~EndSession(t) PROVE FALSE
    BY <2>1, <2>10
       DEF TaskStep, StudentStep, TaskBegin, RunNotFound, NextStudent, SkipStudent, FindSource,
           CreateTarget, LeaveSource, SettleProfile, AssignFees, CountStudent, LogSuccess,
           Notify, Raise, LogFailure, CountFailure, FailRun, FlipYear, FlipRaises, NoFlip,
           EndRun, Crash
  <2>11. ASSUME NEW r \in Request, NEW o \in Session,
                \/ \E st \in Student, a \in Actions : BeginOverride(r, o, st, a)
                \/ \E st \in Student, placed \in BOOLEAN : BeginPlace(r, o, st, placed)
                \/ BeginApprove(r, o) \/ BeginReopen(r, o)
                \/ BeginPrepare(r, o) \/ BeginMapClasses(r, o)
                \/ BeginValidate(r, o) \/ BeginLock(r, o) \/ BeginUnlock(r, o)
                \/ BeginInvalidate(r, o) \/ BeginStart(r, o)
         PROVE  FALSE
    BY <2>1, <2>11
       DEF BeginOverride, BeginPlace, BeginApprove, BeginReopen, BeginPrepare, BeginMapClasses,
           BeginSections, BeginValidate, BeginLock, BeginUnlock, BeginInvalidate, BeginStart
  <2>12. ASSUME NEW t \in Task, \/ \E r \in Request : SendTask(r, t)
                                \/ \E o \in Session : Resume(o, t)
         PROVE  FALSE
    BY <2>1, <2>12 DEF SendTask, Resume
  <2>13. ASSUME EditFees \/ \E st \in Student, y \in Year : TransferStudent(st, y) PROVE FALSE
    BY <2>1, <2>13 DEF EditFees, TransferStudent
  <2>. QED
    BY <1>1, <2>4, <2>5, <2>6, <2>7, <2>8, <2>9, <2>10, <2>11, <2>12, <2>13 DEF Next
<1>2. ASSUME IInv, NEW r \in Request, CommitStart(r)
      PROVE  /\ session[txn[r].s].status = "approved"
             /\ session[txn[r].s].preparation = "locked"
             /\ Ready(txn[r].s) # {}
  BY <1>2 DEF IInv, StartLocked, CommitStart, Starting
<1>3. IInv /\ [Next]_vars =>
          [\A s \in Session : ~Running(s) /\ Running(s)' =>
               /\ session[s].status = "approved"
               /\ session[s].preparation = "locked"
               /\ Ready(s) # {}]_vars
  BY <1>1, <1>2
<1>. QED
  BY <1>3, Invariance, PTL DEF Spec, StartsLocked

(* No run and no session ever ends as "partial".                           *)
NeverPartial ==
    /\ \A s \in Session : session[s].execution # "partial"
    /\ \A i \in 1..Len(runs) : runs[i].status # "partial"

(* The status "partial" is dead: whenever somebody was moved the year is   *)
(* turned, and the run counts as succeeded.                                *)
THEOREM PartialIsDead == Spec => []NeverPartial
<1>1. ASSUME IInv PROVE NeverPartial
  <2>1. ASSUME NEW s \in Session PROVE session[s].execution # "partial"
    BY <1>1 DEF IInv, SessionOK, Executions, Ends
  <2>2. ASSUME NEW i \in 1..Len(runs) PROVE runs[i].status # "partial"
    <3>1. runs[i] \in Run
      BY <1>1 DEF IInv, RunsOK
    <3>. QED
      BY <3>1 DEF Run, Ends
  <2>. QED
    BY <2>1, <2>2 DEF NeverPartial
<1>. QED
  BY <1>1, Invariance, PTL

-----------------------------------------------------------------------------
(* The order of the statements for one student.                            *)

(* What comes after each statement for a student who moves ...             *)
LEMMA AfterMoving ==
    ASSUME NEW t \in Task, Act(t) \in Moves
    PROVE  /\ task[t].pc = "create" => After(t) = "leave"
           /\ task[t].pc = "leave"  => After(t) = "settle"
           /\ task[t].pc = "settle" => After(t) = "fees"
           /\ task[t].pc = "fees"   => After(t) = "count"
           /\ task[t].pc = "count"  => After(t) = "log"
<1>. DEFINE steps == <<"create", "leave", "settle", "fees", "count", "log">>
<1>1. Steps(Act(t)) = steps
  BY DEF Steps
<1>2. Len(steps) = 6 /\ steps[1] = "create" /\ steps[2] = "leave" /\ steps[3] = "settle"
      /\ steps[4] = "fees" /\ steps[5] = "count" /\ steps[6] = "log"
  OBVIOUS
<1>. HIDE DEF steps
<1>3. \A i \in 1..6 : i = 1 \/ i = 2 \/ i = 3 \/ i = 4 \/ i = 5 \/ i = 6
  OBVIOUS
<1>4. ASSUME NEW j \in 1..5, task[t].pc = steps[j] PROVE After(t) = steps[j + 1]
  <2>. DEFINE k == CHOOSE i \in 1..Len(steps) : steps[i] = task[t].pc
  <2>1. k \in 1..Len(steps) /\ steps[k] = task[t].pc
    BY <1>2, <1>4
  <2>2. k = j
    BY <2>1, <1>2, <1>3, <1>4
  <2>. QED
    BY <2>2, <1>1 DEF After
<1>. QED
  BY <1>2, <1>4

(* ... and for one who leaves the school.                                  *)
LEMMA AfterLeaving ==
    ASSUME NEW t \in Task, Act(t) \in Leaves
    PROVE  /\ task[t].pc = "leave"  => After(t) = "settle"
           /\ task[t].pc = "settle" => After(t) = "count"
           /\ task[t].pc = "count"  => After(t) = "log"
<1>. DEFINE steps == <<"leave", "settle", "count", "log">>
<1>1. Steps(Act(t)) = steps
  BY DEF Steps, Moves, Leaves
<1>2. Len(steps) = 4 /\ steps[1] = "leave" /\ steps[2] = "settle" /\ steps[3] = "count"
      /\ steps[4] = "log"
  OBVIOUS
<1>. HIDE DEF steps
<1>3. \A i \in 1..4 : i = 1 \/ i = 2 \/ i = 3 \/ i = 4
  OBVIOUS
<1>4. ASSUME NEW j \in 1..3, task[t].pc = steps[j] PROVE After(t) = steps[j + 1]
  <2>. DEFINE k == CHOOSE i \in 1..Len(steps) : steps[i] = task[t].pc
  <2>1. k \in 1..Len(steps) /\ steps[k] = task[t].pc
    BY <1>2, <1>4
  <2>2. k = j
    BY <2>1, <1>2, <1>3, <1>4
  <2>. QED
    BY <2>2, <1>1 DEF After
<1>. QED
  BY <1>2, <1>4

LEMMA FirstSteps ==
    /\ \A a \in Moves  : Steps(a)[1] = "create"
    /\ \A a \in Leaves : Steps(a)[1] = "leave"
BY DEF Steps, Moves, Leaves

(* The student a task takes next is one of those it still has to do.       *)
LEMMA SmallestExists ==
    ASSUME NEW S, S \subseteq Nat, S # {}
    PROVE  (CHOOSE x \in S : \A y \in S : x <= y) \in S
<1>1. IsWellFoundedOn(OpToRel(<,Nat), Nat)
  BY NatLessThanWellFounded
<1>2. PICK x \in S : \A y \in S : ~(<<y, x>> \in OpToRel(<,Nat))
  BY <1>1, WFMin
<1>3. \A y \in S : x <= y
  <2>. TAKE y \in S
  <2>1. ~(y < x)
    BY <1>2 DEF OpToRel
  <2>. QED
    BY <2>1
<1>. QED
  BY <1>3

-----------------------------------------------------------------------------
(* The plan of a task: whom it still has to take, and what it does to the  *)
(* one it has taken.                                                       *)
Acting == {"source", "create", "leave", "settle", "fees", "count", "log"}

Planned(x) ==
    /\ DOMAIN x.acts \subseteq Student
    /\ x.todo \subseteq DOMAIN x.acts
    /\ \A st \in DOMAIN x.acts : x.acts[st] \in Actions
    /\ x.pc \in Acting => x.st \in DOMAIN x.acts /\ x.acts[x.st] \in Moves \cup Leaves
    /\ x.pc \in {"create", "fees"} => x.acts[x.st] \in Moves

Plans == \A t \in Task : Begun(task[t]) => Planned(task[t])

(* A step to another statement of the same task.                           *)
LEMMA GotoRow ==
    ASSUME IInv, NEW t \in Task, NEW pc, Begun(task[t]), Goto(t, pc)
    PROVE  /\ task'[t].pc = pc
           /\ task'[t].st = task[t].st /\ task'[t].run = task[t].run
           /\ task'[t].acts = task[t].acts /\ task'[t].todo = task[t].todo
           /\ \A u \in Task \ {t} : task'[u] = task[u]
<1>1. Works(task[t]) /\ DOMAIN task = Task
  BY DEF IInv, TaskOK
<1>2. task'[t] = [task[t] EXCEPT !.pc = pc]
  BY <1>1 DEF Goto
<1>. QED
  BY <1>1, <1>2 DEF Goto, Works

LEMMA GotoPlans ==
    ASSUME IInv, Plans, NEW t \in Task, NEW pc, Begun(task[t]), Goto(t, pc),
           pc \in Acting => task[t].pc \in Acting,
           pc \in {"create", "fees"} => Act(t) \in Moves
    PROVE  Plans'
<1>1. /\ task'[t].pc = pc
      /\ task'[t].st = task[t].st /\ task'[t].acts = task[t].acts
      /\ task'[t].todo = task[t].todo
      /\ \A u \in Task \ {t} : task'[u] = task[u]
  BY GotoRow
<1>2. Planned(task[t])
  BY DEF Plans
<1>3. Planned(task'[t])
  BY <1>1, <1>2 DEF Planned, Act
<1>4. \A u \in Task : Begun(task'[u]) => Planned(task'[u])
  BY <1>1, <1>3 DEF Plans
<1>. QED
  BY <1>4 DEF Plans, Begun, Planned

(* The place of a row may be taken by one that has not begun, or follows a *)
(* plan.                                                                   *)
LEMMA RowPlans ==
    ASSUME IInv, Plans, NEW t, NEW x, task' = [task EXCEPT ![t] = x], Begun(x) => Planned(x)
    PROVE  Plans'
<1>1. \A u \in Task : task'[u] = IF u = t THEN x ELSE task[u]
  BY DEF IInv, TaskOK
<1>2. \A u \in Task : Begun(task'[u]) => Planned(task'[u])
  BY <1>1 DEF Plans
<1>. QED
  BY <1>2 DEF Plans, Begun, Planned

LEMMA SamePlans == ASSUME Plans, UNCHANGED task PROVE Plans'
BY DEF Plans, Begun, Planned

(* Where the statements for one student lead.                              *)
LEMMA StudentPlans ==
    ASSUME IInv, Plans, NEW t \in Task,
           \/ SkipStudent(t) \/ FindSource(t) \/ CreateTarget(t) \/ LeaveSource(t)
           \/ SettleProfile(t) \/ AssignFees(t) \/ LogSuccess(t) \/ Notify(t) \/ Raise(t)
           \/ LogFailure(t) \/ FailRun(t) \/ FailSession(t) \/ FlipYear(t) \/ EndRun(t)
           \/ EndSession(t)
    PROVE  Plans'
<1>1. Begun(task[t])
  BY DEF SkipStudent, FindSource, CreateTarget, LeaveSource, SettleProfile, AssignFees,
         LogSuccess, Notify, Raise, LogFailure, FailRun, FailSession, FlipYear, EndRun,
         EndSession, At, Begun
<1>2. Planned(task[t])
  BY <1>1 DEF Plans
<1>3. ASSUME NEW pc \in {"failed", "next", "notify", "count_failed", "escape", "fail_session",
                         "raised", "end", "end_session", "finished"},
             Goto(t, pc)
      PROVE  Plans'
  BY <1>1, <1>3, GotoPlans DEF Acting
<1>4. CASE \/ SkipStudent(t) \/ LogSuccess(t) \/ Notify(t) \/ Raise(t) \/ LogFailure(t)
           \/ FailRun(t) \/ FailSession(t) \/ FlipYear(t) \/ EndRun(t) \/ EndSession(t)
  <2>1. PICK pc \in {"failed", "next", "notify", "count_failed", "escape", "fail_session",
                     "raised", "end", "end_session", "finished"} : Goto(t, pc)
    BY <1>4, Zenon DEF SkipStudent, LogSuccess, Notify, Raise, LogFailure, FailRun, FailSession,
                FlipYear, EndRun, EndSession
  <2>. QED
    BY <2>1, <1>3
<1>5. task[t].pc \in Acting => Act(t) \in Moves \/ Act(t) \in Leaves
  BY <1>2 DEF Planned, Act
<1>6. CASE FindSource(t)
  <2>1. task[t].pc = "source"
    BY <1>6 DEF FindSource, At
  <2>2. CASE Act(t) \in Moves
    <3>1. PICK pc \in {"create", "failed"} : Goto(t, pc)
      BY <1>6, <2>2, FirstSteps DEF FindSource
    <3>. QED
      BY <1>1, <2>1, <2>2, <3>1, GotoPlans DEF Acting
  <2>3. CASE Act(t) \in Leaves
    <3>1. Act(t) \notin Moves
      BY <2>3 DEF Moves, Leaves
    <3>2. PICK pc \in {"leave", "settle"} : Goto(t, pc)
      BY <1>6, <2>3, <3>1, FirstSteps DEF FindSource
    <3>. QED
      BY <1>1, <2>1, <3>2, GotoPlans DEF Acting
  <2>. QED
    BY <1>5, <2>1, <2>2, <2>3 DEF Acting
<1>7. CASE CreateTarget(t)
  <2>1. task[t].pc = "create" /\ Act(t) \in Moves
    BY <1>2, <1>7 DEF CreateTarget, At, Planned, Act
  <2>2. PICK pc \in {"leave", "failed"} : Goto(t, pc)
    BY <1>7, <2>1, AfterMoving DEF CreateTarget
  <2>. QED
    BY <1>1, <2>1, <2>2, GotoPlans DEF Acting
<1>8. CASE LeaveSource(t) \/ SettleProfile(t) \/ AssignFees(t)
  <2>1. task[t].pc \in {"leave", "settle", "fees"} /\ Goto(t, After(t))
    BY <1>8 DEF LeaveSource, SettleProfile, AssignFees, At
  <2>2. CASE Act(t) \in Moves
    <3>1. After(t) \in {"settle", "fees", "count"}
      BY <2>1, <2>2, AfterMoving
    <3>. QED
      BY <1>1, <2>1, <2>2, <3>1, GotoPlans DEF Acting
  <2>3. CASE Act(t) \in Leaves
    <3>1. task[t].pc # "fees"
      BY <2>3, <1>2 DEF Planned, Act, Moves, Leaves
    <3>2. After(t) \in {"settle", "count"}
      BY <2>1, <2>3, <3>1, AfterLeaving
    <3>. QED
      BY <1>1, <2>1, <3>2, GotoPlans DEF Acting
  <2>. QED
    BY <1>5, <2>1, <2>2, <2>3 DEF Acting
<1>. QED
  BY <1>4, <1>6, <1>7, <1>8

(* A counting statement changes the counters and goes on.                  *)
LEMMA CountRow ==
    ASSUME IInv, Plans, NEW t \in Task, CountStudent(t) \/ CountFailure(t)
    PROVE  /\ CountStudent(t) => task[t].pc = "count" /\ task'[t].pc = "log"
           /\ CountFailure(t) => task'[t].pc = "next"
           /\ task'[t].st = task[t].st /\ task'[t].run = task[t].run
           /\ task'[t].acts = task[t].acts /\ task'[t].todo = task[t].todo
           /\ \A u \in Task \ {t} : task'[u] = task[u]
<1>1. Begun(task[t])
  BY DEF CountStudent, CountFailure, At, Begun
<1>2. Works(task[t]) /\ DOMAIN task = Task /\ Planned(task[t])
  BY <1>1 DEF IInv, TaskOK, Plans
<1>3. CASE CountStudent(t)
  <2>1. task[t].pc = "count"
    BY <1>3 DEF CountStudent, At
  <2>2. Act(t) \in Moves \/ Act(t) \in Leaves
    BY <1>2, <2>1 DEF Planned, Act, Acting
  <2>3. After(t) = "log"
    BY <2>1, <2>2, AfterMoving, AfterLeaving
  <2>. DEFINE moved == task[t].moved + (IF Act(t) \in Moves THEN 1 ELSE 0)
              graduated == task[t].graduated + (IF Act(t) = "graduate" THEN 1 ELSE 0)
              x == [task[t] EXCEPT !.pc = After(t), !.moved = moved, !.graduated = graduated]
  <2>4. task' = [task EXCEPT ![t] = x]
    BY <1>3 DEF CountStudent
  <2>5. x.pc = After(t) /\ x.st = task[t].st /\ x.run = task[t].run /\ x.acts = task[t].acts
        /\ x.todo = task[t].todo
    BY <1>2 DEF Works
  <2>6. ~CountFailure(t)
    BY <2>1 DEF CountFailure, At
  <2>. HIDE DEF x
  <2>. QED
    BY <1>2, <2>1, <2>3, <2>4, <2>5, <2>6
<1>4. CASE CountFailure(t)
  <2>. DEFINE x == [task[t] EXCEPT !.pc = "next", !.failed = task[t].failed + 1]
  <2>1. task' = [task EXCEPT ![t] = x]
    BY <1>4 DEF CountFailure
  <2>2. x.pc = "next" /\ x.st = task[t].st /\ x.run = task[t].run /\ x.acts = task[t].acts
        /\ x.todo = task[t].todo
    BY <1>2 DEF Works
  <2>3. ~CountStudent(t)
    BY <1>4 DEF CountFailure, CountStudent, At
  <2>. HIDE DEF x
  <2>. QED
    BY <1>2, <2>1, <2>2, <2>3
<1>. QED
  BY <1>3, <1>4

LEMMA CountPlans ==
    ASSUME IInv, Plans, NEW t \in Task, CountStudent(t) \/ CountFailure(t)
    PROVE  Plans'
<1>1. /\ CountStudent(t) => task[t].pc = "count" /\ task'[t].pc = "log"
      /\ CountFailure(t) => task'[t].pc = "next"
      /\ task'[t].st = task[t].st /\ task'[t].acts = task[t].acts
      /\ task'[t].todo = task[t].todo
      /\ \A u \in Task \ {t} : task'[u] = task[u]
  BY CountRow
<1>2. Planned(task[t])
  BY DEF CountStudent, CountFailure, At, Begun, Plans
<1>3. Planned(task'[t])
  BY <1>1, <1>2 DEF Planned, Acting
<1>4. \A u \in Task : Begun(task'[u]) => Planned(task'[u])
  BY <1>1, <1>3 DEF Plans
<1>. QED
  BY <1>4 DEF Plans, Begun, Planned

(* The task takes its next student, and skips him or looks for his source. *)
LEMMA NextStudentRow ==
    ASSUME IInv, Plans, NEW t \in Task, NextStudent(t)
    PROVE  /\ task[t].pc = "next" /\ task'[t].pc \in {"skip", "source"}
           /\ Planned(task'[t])
           /\ \A u \in Task \ {t} : task'[u] = task[u]
<1>1. task[t].pc = "next"
  BY DEF NextStudent, At
<1>2. Works(task[t]) /\ DOMAIN task = Task /\ Planned(task[t])
  BY <1>1 DEF IInv, TaskOK, Plans, Begun
<1>. DEFINE todo == task[t].todo
            st == CHOOSE x \in todo : \A y \in todo : x <= y
            pc == IF task[t].acts[st] \in Deferred THEN "skip" ELSE "source"
            x == [task[t] EXCEPT !.st = st, !.todo = todo \ {st}, !.pc = pc]
<1>3. task' = [task EXCEPT ![t] = x]
  BY DEF NextStudent
<1>4. todo \subseteq Nat /\ todo # {}
  BY <1>2, StudentAssumption DEF NextStudent, Planned
<1>. HIDE DEF todo
<1>5. st \in todo
  BY <1>4, SmallestExists
<1>6. st \in DOMAIN task[t].acts /\ task[t].acts[st] \in Actions
  BY <1>2, <1>5 DEF Planned, todo
<1>7. pc \in {"skip", "source"}
  OBVIOUS
<1>8. pc \in Acting => task[t].acts[st] \in Moves \cup Leaves
  BY <1>6, ActionAssumption DEF Acting
<1>9. x.pc = pc /\ x.st = st /\ x.acts = task[t].acts /\ x.todo = todo \ {st}
  BY <1>2 DEF Works
<1>. HIDE DEF x, pc, st
<1>10. Planned(x)
  <2>1. x.todo \subseteq DOMAIN x.acts
    BY <1>2, <1>9 DEF Planned, todo
  <2>2. x.pc \notin {"create", "fees"}
    BY <1>7, <1>9
  <2>3. x.pc \in Acting => x.st \in DOMAIN x.acts /\ x.acts[x.st] \in Moves \cup Leaves
    BY <1>6, <1>8, <1>9
  <2>. QED
    BY <1>2, <1>9, <2>1, <2>2, <2>3 DEF Planned
<1>. QED
  BY <1>1, <1>2, <1>3, <1>7, <1>9, <1>10

LEMMA TaskBeginRow ==
    ASSUME IInv, NEW t \in Task, TaskBegin(t)
    PROVE  /\ task'[t].pc = "next" /\ Planned(task'[t])
           /\ \A u \in Task \ {t} : task'[u] = task[u]
<1>. DEFINE i == task[t].run
            s == runs[i].s
            x == [pc |-> "next", run |-> i, st |-> 0, todo |-> Ready(s),
                  acts |-> [st \in Ready(s) |-> decision[s][st].action],
                  moved |-> runs[i].moved, graduated |-> runs[i].graduated,
                  failed |-> runs[i].failed, final |-> "succeeded"]
<1>1. task' = [task EXCEPT ![t] = x] /\ DOMAIN task = Task
  BY DEF TaskBegin, IInv, TaskOK
<1>2. s \in Session
  <2>1. i \in 1..Len(runs) /\ runs \in Seq(Run)
    BY DEF TaskBegin, IInv, RunsOK
  <2>2. runs[i] \in Run
    BY <2>1
  <2>. QED
    BY <2>2 DEF Run
<1>3. \A st \in Student : decision[s][st] \in Decisions
  BY <1>2 DEF IInv, DecisionOK
<1>4. Ready(s) \subseteq Student /\ \A st \in Ready(s) : decision[s][st].action \in Actions
  BY <1>3 DEF Ready, Roster, Decisions
<1>5. Planned(x)
  BY <1>4 DEF Planned, Acting
<1>6. x.pc = "next"
  OBVIOUS
<1>. HIDE DEF x
<1>. QED
  BY <1>1, <1>5, <1>6

(* The task that ends without turning the year.                            *)
LEMMA EndsRow ==
    ASSUME IInv, NEW t \in Task, FlipRaises(t) \/ NoFlip(t)
    PROVE  /\ task[t].pc = "next" /\ task'[t].pc = "end"
           /\ task'[t].st = task[t].st /\ task'[t].run = task[t].run
           /\ task'[t].acts = task[t].acts /\ task'[t].todo = task[t].todo
           /\ \A u \in Task \ {t} : task'[u] = task[u]
<1>1. task[t].pc = "next"
  BY DEF FlipRaises, NoFlip, At
<1>2. Works(task[t]) /\ DOMAIN task = Task
  BY <1>1 DEF IInv, TaskOK, Begun
<1>3. \E final : task' = [task EXCEPT ![t] = [@ EXCEPT !.pc = "end", !.final = final]]
  BY Zenon DEF FlipRaises, NoFlip
<1>4. PICK final : task' = [task EXCEPT ![t] = [@ EXCEPT !.pc = "end", !.final = final]]
  BY <1>3
<1>. DEFINE x == [task[t] EXCEPT !.pc = "end", !.final = final]
<1>5. x.pc = "end" /\ x.st = task[t].st /\ x.run = task[t].run /\ x.acts = task[t].acts
      /\ x.todo = task[t].todo
  BY <1>2 DEF Works
<1>6. task' = [task EXCEPT ![t] = x]
  BY <1>4
<1>. HIDE DEF x
<1>. QED
  BY <1>1, <1>2, <1>5, <1>6

(* A row that is no longer, or not yet, the work of a task.                *)
LEMMA OutsideRow ==
    ASSUME IInv,
           \/ \E t \in Task : RunNotFound(t) \/ Crash(t)
           \/ \E r \in Request, t \in Task : SendTask(r, t)
           \/ \E s \in Session, t \in Task : Resume(s, t)
           \/ \E r \in Request : Abort(r)
    PROVE  \A u \in Task : task'[u] = task[u] \/ ~Begun(task'[u])
<1>1. DOMAIN task = Task
  BY DEF IInv, TaskOK
<1>2. ASSUME NEW t, NEW x, task' = [task EXCEPT ![t] = x], ~Begun(x)
      PROVE  \A u \in Task : task'[u] = task[u] \/ ~Begun(task'[u])
  BY <1>1, <1>2
<1>3. /\ \A pc : ~Begun(Message(pc))
      /\ ~Begun([pc |-> "lost"]) /\ ~Begun([pc |-> "dead"])
  BY DEF Begun, Message
<1>4. CASE \E t \in Task : RunNotFound(t) \/ Crash(t)
  BY <1>2, <1>3, <1>4 DEF RunNotFound, Crash
<1>5. CASE \E r \in Request, t \in Task : SendTask(r, t)
  BY <1>2, <1>3, <1>5 DEF SendTask
<1>6. CASE \E s \in Session, t \in Task : Resume(s, t)
  BY <1>2, <1>3, <1>6 DEF Resume
<1>7. CASE \E r \in Request : Abort(r)
  BY <1>2, <1>3, <1>7 DEF Abort
<1>. QED
  BY <1>4, <1>5, <1>6, <1>7

(* Every step keeps the tasks to their plans.                              *)
LEMMA NextPlans == ASSUME IInv, Plans, Next PROVE Plans'
<1>1. ASSUME NEW t \in Task, Planned(task'[t]), \A u \in Task \ {t} : task'[u] = task[u]
      PROVE  Plans'
  <2>1. \A u \in Task : Begun(task'[u]) => Planned(task'[u])
    BY <1>1 DEF Plans
  <2>. QED
    BY <2>1 DEF Plans, Begun, Planned
<1>2. ASSUME \A u \in Task : task'[u] = task[u] \/ ~Begun(task'[u]) PROVE Plans'
  <2>1. \A u \in Task : Begun(task'[u]) => Planned(task'[u])
    BY <1>2 DEF Plans
  <2>. QED
    BY <2>1 DEF Plans, Begun, Planned
<1>3. ASSUME UNCHANGED task PROVE Plans'
  BY <1>3, SamePlans
<1>4. ASSUME NEW s \in Session, StartPromotion(s) PROVE Plans'
  BY <1>3, <1>4 DEF StartPromotion
<1>5. ASSUME NEW r \in Request, NEW s \in Session,
             \/ \E st \in Student, a \in Actions : BeginOverride(r, s, st, a)
             \/ \E st \in Student, placed \in BOOLEAN : BeginPlace(r, s, st, placed)
             \/ BeginApprove(r, s) \/ BeginReopen(r, s)
             \/ BeginPrepare(r, s) \/ BeginMapClasses(r, s)
             \/ BeginValidate(r, s) \/ BeginLock(r, s) \/ BeginUnlock(r, s)
             \/ BeginInvalidate(r, s) \/ BeginStart(r, s)
      PROVE  Plans'
  BY <1>3, <1>5, Zenon
     DEF BeginOverride, BeginPlace, BeginApprove, BeginReopen, BeginPrepare, BeginMapClasses,
         BeginSections, BeginValidate, BeginLock, BeginUnlock, BeginInvalidate, BeginStart
<1>6. ASSUME NEW r \in Request,
             \/ CommitOverride(r) \/ CommitApprove(r) \/ CommitReopen(r)
             \/ CommitSections(r) \/ CommitPlace(r) \/ CommitValidate(r) \/ CommitLock(r)
             \/ CommitUnlock(r) \/ CommitInvalidate(r)
             \/ CommitStart(r)
      PROVE  Plans'
  BY <1>3, <1>6, Zenon
     DEF CommitOverride, CommitApprove, CommitReopen, CommitSections, CommitPlace,
         CommitValidate, CommitLock, CommitUnlock, CommitInvalidate, CommitStart
<1>7. ASSUME NEW r \in Request, Abort(r) PROVE Plans'
  BY <1>2, <1>7, OutsideRow
<1>8. ASSUME NEW t \in Task, \/ \E r \in Request : SendTask(r, t)
                             \/ \E s \in Session : Resume(s, t)
      PROVE  Plans'
  BY <1>2, <1>8, OutsideRow
<1>9. ASSUME NEW t \in Task, TaskStep(t) PROVE Plans'
  <2>1. CASE RunNotFound(t) \/ Crash(t)
    BY <1>2, <2>1, OutsideRow
  <2>2. CASE TaskBegin(t)
    BY <1>1, <2>2, TaskBeginRow
  <2>3. CASE NextStudent(t)
    BY <1>1, <2>3, NextStudentRow
  <2>4. CASE CountStudent(t) \/ CountFailure(t)
    BY <2>4, CountPlans
  <2>5. CASE FlipRaises(t) \/ NoFlip(t)
    <3>1. /\ task[t].pc = "next" /\ task'[t].pc = "end"
          /\ task'[t].st = task[t].st /\ task'[t].acts = task[t].acts
          /\ task'[t].todo = task[t].todo
          /\ \A u \in Task \ {t} : task'[u] = task[u]
      BY <2>5, EndsRow
    <3>2. Planned(task[t])
      BY <3>1 DEF Plans, Begun
    <3>3. Planned(task'[t])
      BY <3>1, <3>2 DEF Planned, Acting
    <3>. QED
      BY <1>1, <3>1, <3>3
  <2>. QED
    BY <1>9, <2>1, <2>2, <2>3, <2>4, <2>5, StudentPlans DEF TaskStep, StudentStep
<1>10. ASSUME EditFees \/ \E st \in Student, y \in Year : TransferStudent(st, y) PROVE Plans'
  BY <1>3, <1>10 DEF EditFees, TransferStudent
<1>. QED
  BY <1>4, <1>5, <1>6, <1>7, <1>8, <1>9, <1>10 DEF Next

-----------------------------------------------------------------------------
(* What the tasks of one session, alone on the branch, have made of its    *)
(* students.                                                               *)

(* A task that has ended the student's source enrollment, or has found     *)
(* none.                                                                   *)
Left(t) == task[t].pc \in {"settle", "fees", "count", "log"}

(* A task that has given the student his target and not yet billed him.    *)
Owes(t) == task[t].pc \in {"leave", "settle", "fees"} /\ Act(t) \in Moves

Here(st) == Elsewhere \notin enrolled[st]

LeftSource(s) == \A t \in Task : Left(t) => Source[s] \notin enrolled[task[t].st]

HasTarget(s) ==
    \A t \in Task : Owes(t) /\ Here(task[t].st) =>
        Target[s] \in enrolled[task[t].st] /\ assigned[task[t].st][Target[s]] = 0

OneOwes == \A t, u \in Task :
               Owes(t) /\ Owes(u) /\ task[t].st = task[u].st /\ Here(task[t].st) => t = u

Billed(s) ==
    \A st \in Student : Here(st) =>
        /\ assigned[st][Target[s]] \in {0, 1}
        /\ assigned[st][Target[s]] = 1 => Target[s] \in enrolled[st]

LogTrue(s) ==
    \A i \in 1..Len(runs), st \in Student :
        runs[i].log[st] = "succeeded" => Source[s] \notin enrolled[st]

Travels(s) == LeftSource(s) /\ HasTarget(s) /\ OneOwes /\ Billed(s) /\ LogTrue(s)

Journeys == \A s \in Session : OnlyStarted(s) => Travels(s)

AssignedOK == assigned \in [Student -> [Year -> Nat]]

(* What is checked of the year before a start stays so until its commit.   *)
StartInTime == \A r \in Request : Starting(r) => CanProceed(txn[r].s)

JInv == IInv /\ AssignedOK /\ Plans /\ Journeys /\ StartInTime

(* The rows of the runs are kept, only a start that commits adds one, and  *)
(* no log row comes to say "succeeded".                                    *)
RunsKept ==
    /\ Len(runs') \in Nat /\ Len(runs') >= Len(runs)
    /\ Len(runs') = Len(runs) \/ \E r \in Request : CommitStart(r)
    /\ \A i \in 1..Len(runs) : runs'[i].s = runs[i].s

NothingLogged ==
    \A i \in 1..Len(runs'), st \in Student :
        runs'[i].log[st] = "succeeded" =>
            i \in 1..Len(runs) /\ runs[i].log[st] = "succeeded"

LEMMA OnlyStartedBefore ==
    ASSUME IInv, RunsKept, NEW s, OnlyStarted(s)' PROVE OnlyStarted(s)
<1>1. Len(runs) \in Nat
  BY DEF IInv, RunsOK
<1>2. \A i \in 1..Len(runs') : runs'[i].s = s
  BY DEF OnlyStarted
<1>. QED
  BY <1>1, <1>2 DEF OnlyStarted, RunsKept

(* A task that is on its way for a student is one of the only session.     *)
LEMMA WalkerOfSession ==
    ASSUME IInv, Plans, NEW s \in Session, OnlyStarted(s), NEW t \in Task, Begun(task[t])
    PROVE  /\ Sid(t) = s /\ Src(t) = Source[s] /\ Tgt(t) = Target[s]
           /\ Source[s] \in Year /\ Target[s] \in Year
           /\ Source[s] # Target[s] /\ Source[s] # Elsewhere /\ Target[s] # Elsewhere
           /\ task[t].pc \in Acting => task[t].st \in Student
<1>1. task[t].run \in 1..Len(runs)
  BY DEF IInv, TaskOK, Works
<1>2. Sid(t) = s
  BY <1>1 DEF Sid, OnlyStarted
<1>3. Source[s] \in Year /\ Target[s] \in Year
  BY DEF Year
<1>4. Source[s] # Target[s] /\ Elsewhere \notin Year
  BY YearAssumption
<1>5. task[t].pc \in Acting => task[t].st \in Student
  BY DEF Plans, Planned
<1>. QED
  BY <1>2, <1>3, <1>4, <1>5 DEF Src, Tgt

(* A step that moves no student, and lets no task get further than it was. *)
LEMMA NobodyMoves ==
    ASSUME NEW s \in Session, Travels(s), NothingLogged,
           enrolled' = enrolled, assigned' = assigned,
           \A t \in Task : task'[t].pc \in {"settle", "fees", "count", "log"} =>
               task[t].pc \in {"settle", "fees", "count", "log"} /\ task'[t].st = task[t].st,
           \A t \in Task : task'[t].pc \in {"leave", "settle", "fees"}
                           /\ task'[t].acts[task'[t].st] \in Moves =>
               Owes(t) /\ task'[t].st = task[t].st
    PROVE  Travels(s)'
<1>1. LeftSource(s)'
  BY DEF Travels, LeftSource, Left
<1>2. \A t \in Task : Owes(t)' => Owes(t) /\ task'[t].st = task[t].st
  BY DEF Owes, Act
<1>3. HasTarget(s)'
  BY <1>2 DEF Travels, HasTarget, Here
<1>4. OneOwes'
  BY <1>2 DEF Travels, OneOwes, Here
<1>5. Billed(s)'
  BY DEF Travels, Billed, Here
<1>6. LogTrue(s)'
  BY DEF Travels, LogTrue, NothingLogged
<1>. QED
  BY <1>1, <1>3, <1>4, <1>5, <1>6 DEF Travels

LEMMA SameLog ==
    ASSUME UNCHANGED runs PROVE NothingLogged
BY DEF NothingLogged

(* The student gets his target: only if he has none, so that nobody else   *)
(* is on the way with him and he is not billed.                            *)
LEMMA CreateJourney ==
    ASSUME IInv, AssignedOK, Plans, NEW s \in Session, OnlyStarted(s), Travels(s),
           NEW t \in Task, CreateTarget(t)
    PROVE  Travels(s)'
<1>. DEFINE st == task[t].st
<1>1. task[t].pc = "create" /\ Begun(task[t])
  BY DEF CreateTarget, At, Begun
<1>2. /\ Tgt(t) = Target[s] /\ Source[s] # Target[s] /\ Target[s] # Elsewhere
      /\ Source[s] \in Year /\ Target[s] \in Year /\ st \in Student
  BY <1>1, WalkerOfSession DEF Acting
<1>3. Act(t) \in Moves
  BY <1>1 DEF Plans, Planned, Act
<1>4. enrolled \in [Student -> SUBSET (Year \cup {Elsewhere})]
  BY DEF IInv, BranchOK
<1>5. UNCHANGED <<runs, assigned>>
  BY DEF CreateTarget
<1>6. CASE Target[s] \in enrolled[st]
  <2>1. Goto(t, "failed") /\ UNCHANGED enrolled
    BY <1>2, <1>6 DEF CreateTarget
  <2>2. task'[t].pc = "failed" /\ \A u \in Task \ {t} : task'[u] = task[u]
    BY <1>1, <2>1, GotoRow
  <2>. QED
    BY <1>5, <2>1, <2>2, SameLog, NobodyMoves DEF Owes, Act
<1>7. CASE Target[s] \notin enrolled[st]
  <2>1. Goto(t, "leave") /\ enrolled' = [enrolled EXCEPT ![st] = @ \cup {Target[s]}]
    BY <1>1, <1>2, <1>3, <1>7, AfterMoving DEF CreateTarget
  <2>2. /\ task'[t].pc = "leave" /\ task'[t].st = st /\ task'[t].acts = task[t].acts
        /\ \A u \in Task \ {t} : task'[u] = task[u]
    BY <1>1, <2>1, GotoRow
  <2>3. \A x \in Student : enrolled'[x] = IF x = st THEN enrolled[st] \cup {Target[s]}
                                                    ELSE enrolled[x]
    BY <1>2, <1>4, <2>1
  <2>4. \A x \in Student : Here(x)' <=> Here(x)
    BY <1>2, <2>3 DEF Here
  <2>5. \A u \in Task : Left(u)' => Left(u) /\ task'[u].st = task[u].st /\ task[u].st \in Student
    <3>1. \A u \in Task : Left(u)' => Left(u) /\ task'[u].st = task[u].st
      BY <2>2 DEF Left
    <3>2. \A u \in Task : Left(u) => task[u].st \in Student
      BY WalkerOfSession DEF Left, Begun, Acting
    <3>. QED
      BY <3>1, <3>2
  <2>6. LeftSource(s)'
    BY <1>2, <2>3, <2>5 DEF Travels, LeftSource
  <2>7. \A u \in Task \ {t} : (Owes(u)' <=> Owes(u)) /\ task'[u].st = task[u].st
    BY <2>2 DEF Owes, Act
  <2>8. \A u \in Task : Owes(u) => task[u].st \in Student
    BY WalkerOfSession DEF Owes, Begun, Acting
  <2>9. Here(st) => assigned[st][Target[s]] = 0
    BY <1>2, <1>7 DEF Travels, Billed
  <2>10. \A u \in Task \ {t} : Owes(u) /\ Here(st) => task[u].st # st
    BY <1>7 DEF Travels, HasTarget
  <2>11. HasTarget(s)'
    <3>1. ASSUME NEW u \in Task, Owes(u)', Here(task[u].st)'
          PROVE  Target[s] \in enrolled'[task'[u].st] /\ assigned'[task'[u].st][Target[s]] = 0
      <4>1. CASE u = t
        BY <1>2, <1>5, <2>2, <2>3, <2>4, <2>9, <3>1, <4>1
      <4>2. CASE u # t
        <5>1. Owes(u) /\ task'[u].st = task[u].st /\ task[u].st \in Student
          BY <2>7, <2>8, <3>1, <4>2
        <5>2. Target[s] \in enrolled[task[u].st] /\ assigned[task[u].st][Target[s]] = 0
          BY <2>4, <3>1, <5>1 DEF Travels, HasTarget
        <5>. QED
          BY <1>5, <2>3, <5>1, <5>2
      <4>. QED
        BY <4>1, <4>2
    <3>. QED
      BY <3>1 DEF HasTarget
  <2>12. OneOwes'
    <3>1. ASSUME NEW u \in Task, NEW v \in Task, Owes(u)', Owes(v)', task'[u].st = task'[v].st,
                 Here(task[u].st)'
          PROVE  u = v
      <4>1. CASE u # t /\ v # t
        BY <2>4, <2>7, <2>8, <3>1, <4>1 DEF Travels, OneOwes
      <4>2. CASE u = t /\ v # t
        BY <1>2, <2>2, <2>4, <2>7, <2>10, <3>1, <4>2
      <4>3. CASE v = t /\ u # t
        BY <1>2, <2>2, <2>4, <2>7, <2>10, <3>1, <4>3
      <4>. QED
        BY <4>1, <4>2, <4>3
    <3>. QED
      BY <3>1 DEF OneOwes
  <2>13. Billed(s)'
    BY <1>2, <1>5, <2>3, <2>4 DEF Travels, Billed
  <2>14. LogTrue(s)'
    BY <1>2, <1>5, <2>3 DEF Travels, LogTrue
  <2>. QED
    BY <2>6, <2>11, <2>12, <2>13, <2>14 DEF Travels
<1>. QED
  BY <1>6, <1>7

(* The source enrollment ends: the target is another year.                 *)
LEMMA LeaveJourney ==
    ASSUME IInv, AssignedOK, Plans, NEW s \in Session, OnlyStarted(s), Travels(s),
           NEW t \in Task, LeaveSource(t)
    PROVE  Travels(s)'
<1>. DEFINE st == task[t].st
<1>1. task[t].pc = "leave" /\ Begun(task[t])
  BY DEF LeaveSource, At, Begun
<1>2. /\ Src(t) = Source[s] /\ Source[s] # Target[s] /\ Source[s] # Elsewhere /\ st \in Student
  BY <1>1, WalkerOfSession DEF Acting
<1>3. Act(t) \in Moves \/ Act(t) \in Leaves
  BY <1>1 DEF Plans, Planned, Act, Acting
<1>4. After(t) = "settle"
  BY <1>1, <1>3, AfterMoving, AfterLeaving
<1>5. /\ task'[t].pc = "settle" /\ task'[t].st = st /\ task'[t].acts = task[t].acts
      /\ \A u \in Task \ {t} : task'[u] = task[u]
  <2>1. Goto(t, "settle")
    BY <1>4 DEF LeaveSource
  <2>. QED
    BY <1>1, <2>1, GotoRow
<1>6. \A x \in Student : enrolled'[x] = IF x = st THEN enrolled[st] \ {Source[s]} ELSE enrolled[x]
  BY <1>2 DEF LeaveSource, IInv, BranchOK
<1>7. UNCHANGED <<runs, assigned>>
  BY DEF LeaveSource
<1>8. \A x \in Student : Here(x)' <=> Here(x)
  BY <1>2, <1>6 DEF Here
<1>9. \A u \in Task : Left(u)' => u = t \/ (Left(u) /\ task'[u].st = task[u].st)
  BY <1>5 DEF Left
<1>10. \A u \in Task : Left(u) => task[u].st \in Student
  BY WalkerOfSession DEF Left, Begun, Acting
<1>11. LeftSource(s)'
  BY <1>2, <1>5, <1>6, <1>9, <1>10 DEF Travels, LeftSource
<1>12. \A u \in Task : (Owes(u)' <=> Owes(u)) /\ task'[u].st = task[u].st
  BY <1>1, <1>5 DEF Owes, Act
<1>13. \A u \in Task : Owes(u) => task[u].st \in Student
  BY WalkerOfSession DEF Owes, Begun, Acting
<1>14. HasTarget(s)'
  BY <1>2, <1>6, <1>7, <1>8, <1>12, <1>13 DEF Travels, HasTarget
<1>15. OneOwes'
  BY <1>8, <1>12, <1>13 DEF Travels, OneOwes
<1>16. Billed(s)'
  BY <1>2, <1>6, <1>7, <1>8 DEF Travels, Billed
<1>17. LogTrue(s)'
  BY <1>2, <1>6, <1>7 DEF Travels, LogTrue
<1>. QED
  BY <1>11, <1>14, <1>15, <1>16, <1>17 DEF Travels

(* The task bills the student it has given his target, and no other does.  *)
LEMMA AssignJourney ==
    ASSUME IInv, AssignedOK, Plans, NEW s \in Session, OnlyStarted(s), Travels(s),
           NEW t \in Task, AssignFees(t)
    PROVE  Travels(s)'
<1>. DEFINE st == task[t].st
<1>1. task[t].pc = "fees" /\ Begun(task[t])
  BY DEF AssignFees, At, Begun
<1>2. Tgt(t) = Target[s] /\ Target[s] \in Year /\ st \in Student
  BY <1>1, WalkerOfSession DEF Acting
<1>3. Act(t) \in Moves
  BY <1>1 DEF Plans, Planned, Act
<1>4. /\ task'[t].pc = "count" /\ task'[t].st = st
      /\ \A u \in Task \ {t} : task'[u] = task[u]
  <2>1. Goto(t, "count")
    BY <1>1, <1>3, AfterMoving DEF AssignFees
  <2>. QED
    BY <1>1, <2>1, GotoRow
<1>5. \A x \in Student : assigned'[x][Target[s]] =
          IF x = st THEN assigned[st][Target[s]] + 1 ELSE assigned[x][Target[s]]
  BY <1>2 DEF AssignFees, AssignedOK
<1>6. UNCHANGED <<runs, enrolled>>
  BY DEF AssignFees
<1>7. Owes(t)
  BY <1>1, <1>3 DEF Owes
<1>8. Here(st) => Target[s] \in enrolled[st] /\ assigned[st][Target[s]] = 0
  BY <1>7 DEF Travels, HasTarget
<1>9. \A u \in Task : Owes(u)' => u # t /\ Owes(u) /\ task'[u].st = task[u].st
  BY <1>4 DEF Owes, Act
<1>10. \A u \in Task : Owes(u) => task[u].st \in Student
  BY WalkerOfSession DEF Owes, Begun, Acting
<1>11. LeftSource(s)'
  BY <1>1, <1>4, <1>6 DEF Travels, LeftSource, Left
<1>12. HasTarget(s)'
  <2>1. ASSUME NEW u \in Task, Owes(u)', Here(task[u].st)'
        PROVE  Target[s] \in enrolled'[task'[u].st] /\ assigned'[task'[u].st][Target[s]] = 0
    <3>1. u # t /\ Owes(u) /\ task'[u].st = task[u].st /\ task[u].st \in Student
      BY <1>9, <1>10, <2>1
    <3>2. Here(task[u].st)
      BY <1>6, <2>1, <3>1 DEF Here
    <3>3. task[u].st # st
      BY <1>7, <3>1, <3>2 DEF Travels, OneOwes
    <3>4. Target[s] \in enrolled[task[u].st] /\ assigned[task[u].st][Target[s]] = 0
      BY <3>1, <3>2 DEF Travels, HasTarget
    <3>. QED
      BY <1>5, <1>6, <3>1, <3>3, <3>4
  <2>. QED
    BY <2>1 DEF HasTarget
<1>13. OneOwes'
  BY <1>6, <1>9 DEF Travels, OneOwes, Here
<1>14. Billed(s)'
  BY <1>5, <1>6, <1>8 DEF Travels, Billed, Here
<1>15. LogTrue(s)'
  BY <1>6 DEF Travels, LogTrue
<1>. QED
  BY <1>11, <1>12, <1>13, <1>14, <1>15 DEF Travels

(* What the steps that write to the runs do to their sessions and logs.    *)
LEMMA RunsSteps ==
    ASSUME IInv, Next
    PROVE  RunsKept /\ (NothingLogged \/ \E t \in Task : LogSuccess(t))
<1>1. runs \in Seq(Run) /\ Len(runs) \in Nat
  BY DEF IInv, RunsOK
<1>2. ASSUME UNCHANGED runs PROVE RunsKept /\ NothingLogged
  BY <1>1, <1>2, SameLog DEF RunsKept
<1>3. ASSUME NEW t \in Task, Begun(task[t]) PROVE task[t].run \in 1..Len(runs)
  BY <1>3 DEF IInv, TaskOK, Works
(* One row is replaced by one of the same session.                         *)
<1>4. ASSUME NEW i \in 1..Len(runs), NEW row, runs' = [runs EXCEPT ![i] = row],
             row.s = runs[i].s
      PROVE  /\ RunsKept
             /\ (\A st \in Student : row.log[st] = "succeeded" => runs[i].log[st] = "succeeded")
                => NothingLogged
  <2>1. Len(runs') = Len(runs) /\ \A j \in 1..Len(runs) : runs'[j] = IF j = i THEN row ELSE runs[j]
    BY <1>1, <1>4
  <2>. QED
    BY <1>1, <1>4, <2>1 DEF RunsKept, NothingLogged
<1>5. ASSUME NEW i \in 1..Len(runs)
      PROVE  /\ DOMAIN runs[i] = {"s", "status", "moved", "graduated", "failed", "log"}
             /\ runs[i].log \in [Student -> {"none", "skipped"} \cup Ends]
  <2>1. runs[i] \in Run
    BY <1>1, <1>5
  <2>. QED
    BY <2>1 DEF Run
<1>6. ASSUME NEW t \in Task, Begun(task[t]), NEW entry, WriteLog(t, entry)
      PROVE  RunsKept /\ (entry # "succeeded" => NothingLogged)
  <2>. DEFINE i == task[t].run
              row == [runs[i] EXCEPT !.log[task[t].st] = entry]
  <2>1. i \in 1..Len(runs)
    BY <1>3, <1>6
  <2>2. runs' = [runs EXCEPT ![i] = row]
    BY <1>6 DEF WriteLog
  <2>3. \A st \in Student : row.log[st] = IF st = task[t].st THEN entry ELSE runs[i].log[st]
    BY <1>5, <2>1
  <2>5. row.s = runs[i].s
    BY <1>5, <2>1
  <2>. HIDE DEF row, i
  <2>4. /\ RunsKept
        /\ (\A st \in Student : row.log[st] = "succeeded" => runs[i].log[st] = "succeeded")
           => NothingLogged
    BY <1>4, <2>1, <2>2, <2>5, Zenon
  <2>. QED
    BY <2>3, <2>4
<1>7. ASSUME NEW s \in Session, StartPromotion(s) PROVE RunsKept /\ NothingLogged
  BY <1>2, <1>7 DEF StartPromotion
<1>8. ASSUME NEW r \in Request, NEW s \in Session,
             \/ \E st \in Student, a \in Actions : BeginOverride(r, s, st, a)
             \/ \E st \in Student, placed \in BOOLEAN : BeginPlace(r, s, st, placed)
             \/ BeginApprove(r, s) \/ BeginReopen(r, s)
             \/ BeginPrepare(r, s) \/ BeginMapClasses(r, s)
             \/ BeginValidate(r, s) \/ BeginLock(r, s) \/ BeginUnlock(r, s)
             \/ BeginInvalidate(r, s) \/ BeginStart(r, s)
      PROVE  RunsKept /\ NothingLogged
  BY <1>2, <1>8, Zenon
     DEF BeginOverride, BeginPlace, BeginApprove, BeginReopen, BeginPrepare, BeginMapClasses,
         BeginSections, BeginValidate, BeginLock, BeginUnlock, BeginInvalidate, BeginStart
<1>9. ASSUME NEW r \in Request,
             \/ CommitOverride(r) \/ CommitApprove(r) \/ CommitReopen(r)
             \/ CommitSections(r) \/ CommitPlace(r) \/ CommitValidate(r) \/ CommitLock(r)
             \/ CommitUnlock(r) \/ CommitInvalidate(r) \/ Abort(r)
      PROVE  RunsKept /\ NothingLogged
  BY <1>2, <1>9, Zenon
     DEF CommitOverride, CommitApprove, CommitReopen, CommitSections, CommitPlace,
         CommitValidate, CommitLock, CommitUnlock, CommitInvalidate, Abort
<1>10. ASSUME NEW r \in Request, CommitStart(r) PROVE RunsKept /\ NothingLogged
  <2>. DEFINE new == [s |-> txn[r].s, status |-> "running", moved |-> 0, graduated |-> 0,
                      failed |-> 0, log |-> [st \in Student |-> "none"]]
  <2>1. runs' = Append(runs, new)
    BY <1>10 DEF CommitStart
  <2>2. \A st \in Student : new.log[st] = "none"
    OBVIOUS
  <2>. HIDE DEF new
  <2>3. /\ Len(runs') = Len(runs) + 1 /\ runs'[Len(runs) + 1] = new
        /\ \A j \in 1..Len(runs) : runs'[j] = runs[j]
    BY <1>1, <2>1
  <2>4. \A j \in 1..Len(runs') : j \in 1..Len(runs) \/ j = Len(runs) + 1
    BY <1>1, <2>3
  <2>5. RunsKept
    BY <1>1, <1>10, <2>3 DEF RunsKept
  <2>. QED
    BY <2>2, <2>3, <2>4, <2>5 DEF NothingLogged
<1>11. ASSUME NEW t \in Task, \/ \E r \in Request : SendTask(r, t)
                              \/ \E s \in Session : Resume(s, t)
       PROVE  RunsKept /\ NothingLogged
  BY <1>2, <1>11 DEF SendTask, Resume
<1>12. ASSUME NEW t \in Task, TaskStep(t)
       PROVE  RunsKept /\ (NothingLogged \/ LogSuccess(t))
  <2>1. CASE LogSuccess(t) \/ LogFailure(t) \/ SkipStudent(t)
    <3>1. Begun(task[t])
      BY <2>1 DEF LogSuccess, LogFailure, SkipStudent, At, Begun
    <3>2. CASE UNCHANGED runs
      BY <1>2, <3>2
    <3>3. CASE LogSuccess(t) /\ WriteLog(t, "succeeded")
      BY <1>6, <3>1, <3>3
    <3>4. CASE WriteLog(t, "failed") \/ WriteLog(t, "skipped")
      BY <1>6, <3>1, <3>4
    <3>. QED
      BY <2>1, <3>2, <3>3, <3>4 DEF LogSuccess, LogFailure, SkipStudent
  <2>2. CASE CountStudent(t) \/ CountFailure(t) \/ FailRun(t) \/ EndRun(t)
    <3>. DEFINE i == task[t].run
    <3>1. Begun(task[t])
      BY <2>2 DEF CountStudent, CountFailure, FailRun, EndRun, At, Begun
    <3>2. i \in 1..Len(runs)
      BY <1>3, <3>1
    <3>3. \E row : /\ runs' = [runs EXCEPT ![i] = row]
                   /\ row.s = runs[i].s /\ row.log = runs[i].log
      <4>1. CASE CountStudent(t)
        <5>. DEFINE moved == task[t].moved + (IF Act(t) \in Moves THEN 1 ELSE 0)
                    graduated == task[t].graduated + (IF Act(t) = "graduate" THEN 1 ELSE 0)
                    row == [runs[i] EXCEPT
                        !.moved = IF Act(t) \in Moves THEN moved ELSE runs[i].moved,
                        !.graduated = IF Act(t) = "graduate" THEN graduated ELSE runs[i].graduated]
        <5>1. runs' = [runs EXCEPT ![i] = row]
          BY <4>1 DEF CountStudent
        <5>. HIDE DEF moved, graduated
        <5>2. row.s = runs[i].s /\ row.log = runs[i].log
          BY <1>5, <3>2
        <5>. HIDE DEF row
        <5>. QED
          BY <5>1, <5>2
      <4>2. CASE CountFailure(t)
        <5>. DEFINE row == [runs[i] EXCEPT !.failed = task[t].failed + 1]
        <5>1. runs' = [runs EXCEPT ![i] = row]
          BY <4>2 DEF CountFailure
        <5>2. row.s = runs[i].s /\ row.log = runs[i].log
          BY <1>5, <3>2
        <5>. HIDE DEF row
        <5>. QED
          BY <5>1, <5>2
      <4>3. CASE FailRun(t) \/ EndRun(t)
        <5>1. \E end : runs' = [runs EXCEPT ![i].status = end]
          BY <4>3, Zenon DEF FailRun, EndRun
        <5>2. PICK end : runs' = [runs EXCEPT ![i].status = end]
          BY <5>1
        <5>. DEFINE row == [runs[i] EXCEPT !.status = end]
        <5>3. runs' = [runs EXCEPT ![i] = row]
          BY <5>2
        <5>4. row.s = runs[i].s /\ row.log = runs[i].log
          BY <1>5, <3>2
        <5>. HIDE DEF row
        <5>. QED
          BY <5>3, <5>4
      <4>. QED
        BY <2>2, <4>1, <4>2, <4>3
    <3>. HIDE DEF i
    <3>4. PICK row : /\ runs' = [runs EXCEPT ![i] = row]
                     /\ row.s = runs[i].s /\ row.log = runs[i].log
      BY <3>3
    <3>5. /\ RunsKept
          /\ (\A st \in Student : row.log[st] = "succeeded" => runs[i].log[st] = "succeeded")
             => NothingLogged
      BY <1>4, <3>2, <3>4, Zenon
    <3>. QED
      BY <3>4, <3>5
  <2>3. CASE \/ TaskBegin(t) \/ RunNotFound(t) \/ NextStudent(t) \/ FindSource(t)
             \/ CreateTarget(t) \/ LeaveSource(t) \/ SettleProfile(t) \/ AssignFees(t)
             \/ Notify(t) \/ Raise(t) \/ FailSession(t) \/ FlipYear(t) \/ FlipRaises(t)
             \/ NoFlip(t) \/ EndSession(t) \/ Crash(t)
    BY <1>2, <2>3, Zenon
       DEF TaskBegin, RunNotFound, NextStudent, FindSource, CreateTarget, LeaveSource,
           SettleProfile, AssignFees, Notify, Raise, FailSession, FlipYear, FlipRaises,
           NoFlip, EndSession, Crash
  <2>. QED
    BY <1>12, <2>1, <2>2, <2>3, Zenon DEF TaskStep, StudentStep
<1>13. ASSUME EditFees \/ \E st \in Student, y \in Year : TransferStudent(st, y)
       PROVE  RunsKept /\ NothingLogged
  BY <1>2, <1>13 DEF EditFees, TransferStudent
<1>. QED
  BY <1>7, <1>8, <1>9, <1>10, <1>11, <1>12, <1>13, Zenon DEF Next

(* Only an untrue log entry could be written after "log" is reached: the   *)
(* task has left the source year by then.                                  *)
LEMMA LogJourney ==
    ASSUME IInv, Plans, NEW s \in Session, OnlyStarted(s), Travels(s),
           NEW t \in Task, LogSuccess(t)
    PROVE  Travels(s)'
<1>. DEFINE st == task[t].st
            i == task[t].run
<1>1. task[t].pc = "log" /\ Begun(task[t])
  BY DEF LogSuccess, At, Begun
<1>2. Source[s] \notin enrolled[st]
  BY <1>1 DEF Travels, LeftSource, Left
<1>3. PICK pc \in {"notify", "failed"} : Goto(t, pc)
  BY DEF LogSuccess
<1>4. task'[t].pc \in {"notify", "failed"} /\ \A u \in Task \ {t} : task'[u] = task[u]
  BY <1>1, <1>3, GotoRow
<1>5. UNCHANGED <<enrolled, assigned>>
  BY DEF LogSuccess, people
<1>6. \A u \in Task : (Left(u)' => Left(u) /\ task'[u].st = task[u].st)
                      /\ (Owes(u)' => Owes(u) /\ task'[u].st = task[u].st)
  BY <1>4 DEF Left, Owes, Act
<1>7. LeftSource(s)' /\ HasTarget(s)' /\ OneOwes' /\ Billed(s)'
  BY <1>5, <1>6 DEF Travels, LeftSource, HasTarget, OneOwes, Billed, Here
<1>8. LogTrue(s)'
  <2>1. i \in 1..Len(runs) /\ runs \in Seq(Run)
    BY <1>1 DEF IInv, TaskOK, Works, RunsOK
  <2>2. runs[i] \in Run
    BY <2>1
  <2>3. CASE UNCHANGED runs
    BY <1>5, <2>3 DEF Travels, LogTrue
  <2>4. CASE WriteLog(t, "succeeded")
    <3>. DEFINE row == [runs[i] EXCEPT !.log[st] = "succeeded"]
    <3>1. runs' = [runs EXCEPT ![i] = row]
      BY <2>4 DEF WriteLog
    <3>2. \A x \in Student : row.log[x] = IF x = st THEN "succeeded" ELSE runs[i].log[x]
      BY <2>2 DEF Run
    <3>. HIDE DEF row
    <3>3. /\ Len(runs') = Len(runs)
          /\ \A j \in 1..Len(runs) : runs'[j] = IF j = i THEN row ELSE runs[j]
      BY <2>1, <3>1
    <3>4. ASSUME NEW j \in 1..Len(runs), NEW x \in Student, runs'[j].log[x] = "succeeded"
          PROVE  Source[s] \notin enrolled[x]
      <4>1. CASE j = i /\ x = st
        BY <1>2, <4>1
      <4>2. CASE ~(j = i /\ x = st)
        <5>1. runs[j].log[x] = "succeeded"
          BY <3>2, <3>3, <3>4, <4>2
        <5>. QED
          BY <5>1 DEF Travels, LogTrue
      <4>. QED
        BY <4>1, <4>2
    <3>. QED
      BY <1>5, <3>3, <3>4 DEF LogTrue
  <2>. QED
    BY <2>3, <2>4 DEF LogSuccess
<1>. QED
  BY <1>7, <1>8 DEF Travels

(* A student who goes to another branch is no longer here.                 *)
LEMMA TransferJourney ==
    ASSUME IInv, Plans, NEW s \in Session, OnlyStarted(s), Travels(s),
           NEW st \in Student, NEW y \in Year, TransferStudent(st, y)
    PROVE  Travels(s)'
<1>1. UNCHANGED <<runs, assigned, task>>
  BY DEF TransferStudent
<1>2. Source[s] # Elsewhere
  BY YearAssumption DEF Year
<1>3. \A x \in Student : enrolled'[x] = IF x = st THEN (enrolled[st] \ {y}) \cup {Elsewhere}
                                                  ELSE enrolled[x]
  BY DEF TransferStudent, IInv, BranchOK
<1>4. \A x \in Student : /\ Here(x)' => Here(x) /\ enrolled'[x] = enrolled[x]
                         /\ Source[s] \in enrolled'[x] => Source[s] \in enrolled[x]
  BY <1>2, <1>3 DEF Here
<1>5. \A t \in Task : /\ (Left(t)' <=> Left(t)) /\ (Owes(t)' <=> Owes(t))
                      /\ task'[t].st = task[t].st
                      /\ Left(t) \/ Owes(t) => task[t].st \in Student
  <2>1. \A t \in Task : Left(t) \/ Owes(t) => task[t].st \in Student
    BY WalkerOfSession DEF Left, Owes, Begun, Acting
  <2>. QED
    BY <1>1, <2>1 DEF Left, Owes, Act
<1>6. LeftSource(s)'
  BY <1>4, <1>5 DEF Travels, LeftSource
<1>7. HasTarget(s)'
  BY <1>1, <1>4, <1>5 DEF Travels, HasTarget
<1>8. OneOwes'
  BY <1>1, <1>4, <1>5 DEF Travels, OneOwes
<1>9. Billed(s)'
  BY <1>1, <1>4 DEF Travels, Billed
<1>10. LogTrue(s)'
  BY <1>1, <1>4 DEF Travels, LogTrue
<1>. QED
  BY <1>6, <1>7, <1>8, <1>9, <1>10 DEF Travels

(* The steps of a task that move nobody.                                   *)
LEMMA QuietJourney ==
    ASSUME IInv, Plans, NEW s \in Session, OnlyStarted(s), Travels(s), NothingLogged,
           NEW t \in Task,
           \/ TaskBegin(t) \/ NextStudent(t) \/ SkipStudent(t) \/ FindSource(t)
           \/ SettleProfile(t) \/ CountStudent(t) \/ LogSuccess(t) \/ Notify(t) \/ Raise(t)
           \/ LogFailure(t) \/ CountFailure(t) \/ FailRun(t) \/ FailSession(t) \/ FlipYear(t)
           \/ FlipRaises(t) \/ NoFlip(t) \/ EndRun(t) \/ EndSession(t)
    PROVE  Travels(s)'
<1>1. UNCHANGED <<assigned, enrolled>>
  BY Zenon DEF TaskBegin, NextStudent, SkipStudent, FindSource, SettleProfile, CountStudent,
     LogSuccess, Notify, Raise, LogFailure, CountFailure, FailRun, FailSession, FlipYear,
     FlipRaises, NoFlip, EndRun, EndSession, people
(* What the step must not do for its own task.                             *)
<1>2. ASSUME \A u \in Task \ {t} : task'[u] = task[u],
             task'[t].pc \in {"settle", "fees", "count", "log"} =>
                 task[t].pc \in {"settle", "fees", "count", "log"} /\ task'[t].st = task[t].st,
             task'[t].pc \in {"leave", "settle", "fees"} =>
                 /\ task[t].pc \in {"leave", "settle", "fees"}
                 /\ task'[t].st = task[t].st /\ task'[t].acts = task[t].acts
      PROVE  Travels(s)'
  BY <1>1, <1>2, NobodyMoves DEF Owes, Act
<1>3. ASSUME NEW pc, Goto(t, pc), Begun(task[t]), pc \notin {"leave", "settle", "fees", "count", "log"}
      PROVE  Travels(s)'
  <2>1. task'[t].pc = pc /\ \A u \in Task \ {t} : task'[u] = task[u]
    BY <1>3, GotoRow
  <2>. QED
    BY <1>2, <1>3, <2>1
<1>4. CASE \/ SkipStudent(t) \/ LogSuccess(t) \/ Notify(t) \/ Raise(t) \/ LogFailure(t)
           \/ FailRun(t) \/ FailSession(t) \/ FlipYear(t) \/ EndRun(t) \/ EndSession(t)
  <2>1. Begun(task[t])
    BY <1>4 DEF SkipStudent, LogSuccess, Notify, Raise, LogFailure, FailRun, FailSession,
                FlipYear, EndRun, EndSession, At, Begun
  <2>2. PICK pc \in {"failed", "next", "notify", "count_failed", "escape", "fail_session",
                     "raised", "end", "end_session", "finished"} : Goto(t, pc)
    BY <1>4, Zenon DEF SkipStudent, LogSuccess, Notify, Raise, LogFailure, FailRun, FailSession,
                FlipYear, EndRun, EndSession
  <2>. QED
    BY <1>3, <2>1, <2>2
<1>5. CASE TaskBegin(t)
  BY <1>2, <1>5, TaskBeginRow
<1>6. CASE NextStudent(t)
  BY <1>2, <1>6, NextStudentRow
<1>7. CASE CountStudent(t) \/ CountFailure(t)
  <2>1. /\ CountStudent(t) => task[t].pc = "count" /\ task'[t].pc = "log"
        /\ CountFailure(t) => task'[t].pc = "next"
        /\ task'[t].st = task[t].st /\ task'[t].acts = task[t].acts
        /\ \A u \in Task \ {t} : task'[u] = task[u]
    BY <1>7, CountRow
  <2>. QED
    BY <1>2, <1>7, <2>1
<1>8. CASE FlipRaises(t) \/ NoFlip(t)
  BY <1>2, <1>8, EndsRow
<1>9. ASSUME Begun(task[t]), task[t].pc \in Acting
      PROVE  Act(t) \in Moves \/ Act(t) \in Leaves
  BY <1>9 DEF Plans, Planned, Act
(* The task finds no source enrollment and settles a student who leaves.   *)
<1>10. CASE FindSource(t)
  <2>1. Begun(task[t]) /\ task[t].pc = "source"
    BY <1>10 DEF FindSource, At, Begun
  <2>2. Src(t) = Source[s]
    BY <2>1, WalkerOfSession
  <2>3. CASE Act(t) \in Moves
    <3>1. PICK pc \in {"create", "failed"} : Goto(t, pc)
      BY <1>10, <2>3, FirstSteps DEF FindSource
    <3>. QED
      BY <1>3, <2>1, <3>1
  <2>4. CASE Act(t) \in Leaves
    <3>1. Act(t) \notin Moves
      BY <2>4 DEF Moves, Leaves
    <3>2. PICK pc \in {"leave", "settle"} :
              Goto(t, pc) /\ (pc = "settle" => Source[s] \notin enrolled[task[t].st])
      BY <1>10, <2>2, <2>4, <3>1, FirstSteps DEF FindSource
    <3>3. /\ task'[t].pc = pc /\ task'[t].st = task[t].st /\ task'[t].acts = task[t].acts
          /\ \A u \in Task \ {t} : task'[u] = task[u]
      BY <2>1, <3>2, GotoRow
    <3>4. ~Owes(t)'
      BY <3>1, <3>3 DEF Owes, Act
    <3>5. \A u \in Task : Owes(u)' => Owes(u) /\ task'[u].st = task[u].st
      BY <3>3, <3>4 DEF Owes, Act
    <3>6. HasTarget(s)' /\ OneOwes' /\ Billed(s)'
      BY <1>1, <3>5 DEF Travels, HasTarget, OneOwes, Billed, Here
    <3>7. LeftSource(s)'
      BY <1>1, <3>2, <3>3 DEF Travels, LeftSource, Left
    <3>8. LogTrue(s)'
      BY <1>1 DEF Travels, LogTrue, NothingLogged
    <3>. QED
      BY <3>6, <3>7, <3>8 DEF Travels
  <2>. QED
    BY <1>9, <2>1, <2>3, <2>4 DEF Acting
<1>11. CASE SettleProfile(t)
  <2>1. Begun(task[t]) /\ task[t].pc = "settle"
    BY <1>11 DEF SettleProfile, At, Begun
  <2>2. After(t) \in {"fees", "count"}
    BY <1>9, <2>1, AfterMoving, AfterLeaving DEF Acting
  <2>3. /\ task'[t].pc = After(t) /\ task'[t].st = task[t].st /\ task'[t].acts = task[t].acts
        /\ \A u \in Task \ {t} : task'[u] = task[u]
    BY <1>11, <2>1, GotoRow DEF SettleProfile
  <2>. QED
    BY <1>2, <2>1, <2>2, <2>3
<1>. QED
  BY <1>4, <1>5, <1>6, <1>7, <1>8, <1>10, <1>11

(* A row that is not, or no longer, at work.                               *)
LEMMA OutsideJourney ==
    ASSUME NEW s \in Session, Travels(s), NothingLogged, UNCHANGED <<assigned, enrolled>>,
           \A u \in Task : task'[u] = task[u] \/ ~Begun(task'[u])
    PROVE  Travels(s)'
<1>1. \A u \in Task : task'[u].pc \in Acting => task'[u] = task[u]
  BY DEF Begun, Acting
<1>. QED
  BY <1>1, NobodyMoves DEF Acting, Owes, Act

(* Every step keeps the journeys in order.                                 *)
LEMMA NextJourneys ==
    ASSUME IInv, AssignedOK, Plans, Journeys, Next
    PROVE  Journeys'
<1>1. RunsKept /\ (NothingLogged \/ \E t \in Task : LogSuccess(t))
  BY RunsSteps
<1>. SUFFICES ASSUME NEW s \in Session, OnlyStarted(s)' PROVE Travels(s)'
  BY DEF Journeys
<1>2. OnlyStarted(s)
  BY <1>1, OnlyStartedBefore
<1>3. Travels(s)
  BY <1>2 DEF Journeys
<1>4. ASSUME NEW t \in Task, LogSuccess(t) PROVE Travels(s)'
  BY <1>2, <1>3, <1>4, LogJourney
<1>5. CASE NothingLogged
  <2>1. ASSUME UNCHANGED <<assigned, enrolled, task>> PROVE Travels(s)'
    BY <1>3, <1>5, <2>1, OutsideJourney
  <2>2. ASSUME NEW o \in Session, StartPromotion(o) PROVE Travels(s)'
    BY <2>1, <2>2 DEF StartPromotion, people
  <2>3. ASSUME NEW r \in Request, NEW o \in Session,
               \/ \E st \in Student, a \in Actions : BeginOverride(r, o, st, a)
               \/ \E st \in Student, placed \in BOOLEAN : BeginPlace(r, o, st, placed)
               \/ BeginApprove(r, o) \/ BeginReopen(r, o)
               \/ BeginPrepare(r, o) \/ BeginMapClasses(r, o)
               \/ BeginValidate(r, o) \/ BeginLock(r, o) \/ BeginUnlock(r, o)
               \/ BeginInvalidate(r, o) \/ BeginStart(r, o)
        PROVE  Travels(s)'
    BY <2>1, <2>3, Zenon
       DEF BeginOverride, BeginPlace, BeginApprove, BeginReopen, BeginPrepare, BeginMapClasses,
           BeginSections, BeginValidate, BeginLock, BeginUnlock, BeginInvalidate, BeginStart,
           people
  <2>4. ASSUME NEW r \in Request,
               \/ CommitOverride(r) \/ CommitApprove(r) \/ CommitReopen(r)
               \/ CommitSections(r) \/ CommitPlace(r) \/ CommitValidate(r) \/ CommitLock(r)
               \/ CommitUnlock(r) \/ CommitInvalidate(r) \/ CommitStart(r)
        PROVE  Travels(s)'
    BY <2>1, <2>4, Zenon
       DEF CommitOverride, CommitApprove, CommitReopen, CommitSections, CommitPlace,
           CommitValidate, CommitLock, CommitUnlock, CommitInvalidate, CommitStart, people
  <2>5. ASSUME \/ \E t \in Task : RunNotFound(t) \/ Crash(t)
               \/ \E r \in Request, t \in Task : SendTask(r, t)
               \/ \E o \in Session, t \in Task : Resume(o, t)
               \/ \E r \in Request : Abort(r)
        PROVE  Travels(s)'
    <3>1. UNCHANGED <<assigned, enrolled>>
      BY <2>5, Zenon DEF RunNotFound, Crash, SendTask, Resume, Abort, people
    <3>. QED
      BY <1>3, <1>5, <2>5, <3>1, OutsideRow, OutsideJourney
  <2>6. ASSUME NEW t \in Task, TaskStep(t) PROVE Travels(s)'
    <3>1. CASE CreateTarget(t)
      BY <1>2, <1>3, <3>1, CreateJourney
    <3>2. CASE LeaveSource(t)
      BY <1>2, <1>3, <3>2, LeaveJourney
    <3>3. CASE AssignFees(t)
      BY <1>2, <1>3, <3>3, AssignJourney
    <3>4. CASE RunNotFound(t) \/ Crash(t)
      BY <2>5, <3>4
    <3>. QED
      BY <1>2, <1>3, <1>5, <2>6, <3>1, <3>2, <3>3, <3>4, QuietJourney DEF TaskStep, StudentStep
  <2>7. ASSUME NEW st \in Student, NEW y \in Year, TransferStudent(st, y) PROVE Travels(s)'
    BY <1>2, <1>3, <2>7, TransferJourney
  <2>8. ASSUME EditFees PROVE Travels(s)'
    BY <2>1, <2>8 DEF EditFees, people
  <2>. QED
    BY <2>2, <2>3, <2>4, <2>5, <2>6, <2>7, <2>8, Zenon DEF Next
<1>. QED
  BY <1>1, <1>4, <1>5

LEMMA NextAssigned ==
    ASSUME IInv, Plans, AssignedOK, Next PROVE AssignedOK'
<1>1. ASSUME UNCHANGED assigned PROVE AssignedOK'
  BY <1>1 DEF AssignedOK
<1>2. ASSUME NEW t \in Task, AssignFees(t) PROVE AssignedOK'
  <2>1. Begun(task[t]) /\ task[t].pc \in Acting
    BY <1>2 DEF AssignFees, At, Begun, Acting
  <2>2. task[t].st \in Student
    BY <2>1 DEF Plans, Planned
  <2>3. task[t].run \in 1..Len(runs) /\ runs \in Seq(Run)
    BY <2>1 DEF IInv, TaskOK, Works, RunsOK
  <2>4. Sid(t) \in Session
    <3>1. runs[task[t].run] \in Run
      BY <2>3
    <3>. QED
      BY <3>1 DEF Run, Sid
  <2>5. Tgt(t) \in Year
    BY <2>4 DEF Tgt, Year
  <2>6. assigned' = [assigned EXCEPT ![task[t].st][Tgt(t)] = @ + 1]
    BY <1>2 DEF AssignFees
  <2>. QED
    BY <2>2, <2>5, <2>6 DEF AssignedOK
<1>3. ASSUME NEW t \in Task, TaskStep(t), ~AssignFees(t) PROVE UNCHANGED assigned
  BY <1>3, Zenon
     DEF TaskStep, StudentStep, TaskBegin, RunNotFound, NextStudent, SkipStudent, FindSource,
         CreateTarget, LeaveSource, SettleProfile, CountStudent, LogSuccess,
         Notify, Raise, LogFailure, CountFailure, FailRun, FailSession, FlipYear, FlipRaises,
         NoFlip, EndRun, EndSession, Crash, people
<1>4. ASSUME NEW r \in Request, NEW s \in Session,
             \/ \E st \in Student, a \in Actions : BeginOverride(r, s, st, a)
             \/ \E st \in Student, placed \in BOOLEAN : BeginPlace(r, s, st, placed)
             \/ BeginApprove(r, s) \/ BeginReopen(r, s)
             \/ BeginPrepare(r, s) \/ BeginMapClasses(r, s)
             \/ BeginValidate(r, s) \/ BeginLock(r, s) \/ BeginUnlock(r, s)
             \/ BeginInvalidate(r, s) \/ BeginStart(r, s)
      PROVE  UNCHANGED assigned
  BY <1>4, Zenon
     DEF BeginOverride, BeginPlace, BeginApprove, BeginReopen, BeginPrepare, BeginMapClasses,
         BeginSections, BeginValidate, BeginLock, BeginUnlock, BeginInvalidate, BeginStart,
         people
<1>5. ASSUME NEW r \in Request,
             \/ CommitOverride(r) \/ CommitApprove(r) \/ CommitReopen(r)
             \/ CommitSections(r) \/ CommitPlace(r) \/ CommitValidate(r) \/ CommitLock(r)
             \/ CommitUnlock(r) \/ CommitInvalidate(r) \/ CommitStart(r) \/ Abort(r)
      PROVE  UNCHANGED assigned
  BY <1>5, Zenon
     DEF CommitOverride, CommitApprove, CommitReopen, CommitSections, CommitPlace,
         CommitValidate, CommitLock, CommitUnlock, CommitInvalidate, CommitStart, Abort, people
<1>6. ASSUME \/ \E s \in Session : StartPromotion(s)
             \/ \E r \in Request, t \in Task : SendTask(r, t)
             \/ \E s \in Session, t \in Task : Resume(s, t)
             \/ \E st \in Student, y \in Year : TransferStudent(st, y)
             \/ EditFees
      PROVE  UNCHANGED assigned
  BY <1>6, Zenon DEF StartPromotion, SendTask, Resume, TransferStudent, EditFees, people
<1>. QED
  BY <1>1, <1>2, <1>3, <1>4, <1>5, <1>6, Zenon DEF Next

-----------------------------------------------------------------------------
(* A start that has been checked against the year.                         *)

(* The year turns only while nobody is starting, and the turn touches no   *)
(* request.                                                                *)
LEMMA YearsSteps ==
    ASSUME Next
    PROVE  \/ UNCHANGED years
           \/ BranchFree /\ UNCHANGED txn
<1>1. ASSUME NEW t \in Task, TaskStep(t) PROVE UNCHANGED years \/ (BranchFree /\ UNCHANGED txn)
  BY <1>1, Zenon
     DEF TaskStep, StudentStep, TaskBegin, RunNotFound, NextStudent, SkipStudent, FindSource,
         CreateTarget, LeaveSource, SettleProfile, AssignFees, CountStudent, LogSuccess,
         Notify, Raise, LogFailure, CountFailure, FailRun, FailSession, FlipYear, FlipRaises,
         NoFlip, EndRun, EndSession, Crash
<1>2. ASSUME NEW r \in Request, NEW s \in Session,
             \/ \E st \in Student, a \in Actions : BeginOverride(r, s, st, a)
             \/ \E st \in Student, placed \in BOOLEAN : BeginPlace(r, s, st, placed)
             \/ BeginApprove(r, s) \/ BeginReopen(r, s)
             \/ BeginPrepare(r, s) \/ BeginMapClasses(r, s)
             \/ BeginValidate(r, s) \/ BeginLock(r, s) \/ BeginUnlock(r, s)
             \/ BeginInvalidate(r, s) \/ BeginStart(r, s)
      PROVE  UNCHANGED years
  BY <1>2, Zenon
     DEF BeginOverride, BeginPlace, BeginApprove, BeginReopen, BeginPrepare, BeginMapClasses,
         BeginSections, BeginValidate, BeginLock, BeginUnlock, BeginInvalidate, BeginStart
<1>3. ASSUME NEW r \in Request,
             \/ CommitOverride(r) \/ CommitApprove(r) \/ CommitReopen(r)
             \/ CommitSections(r) \/ CommitPlace(r) \/ CommitValidate(r) \/ CommitLock(r)
             \/ CommitUnlock(r) \/ CommitInvalidate(r) \/ CommitStart(r) \/ Abort(r)
      PROVE  UNCHANGED years
  BY <1>3, Zenon
     DEF CommitOverride, CommitApprove, CommitReopen, CommitSections, CommitPlace,
         CommitValidate, CommitLock, CommitUnlock, CommitInvalidate, CommitStart, Abort
<1>4. ASSUME \/ \E s \in Session : StartPromotion(s)
             \/ \E r \in Request, t \in Task : SendTask(r, t)
             \/ \E s \in Session, t \in Task : Resume(s, t)
             \/ \E st \in Student, y \in Year : TransferStudent(st, y)
             \/ EditFees
      PROVE  UNCHANGED years
  BY <1>4, Zenon DEF StartPromotion, SendTask, Resume, TransferStudent, EditFees
<1>. QED
  BY <1>1, <1>2, <1>3, <1>4, Zenon DEF Next

(* Who is starting was starting before, or has just looked at the year.    *)
LEMMA StartingSteps ==
    ASSUME IInv, Next, NEW q \in Request, Starting(q)'
    PROVE  \/ Starting(q) /\ txn'[q].s = txn[q].s
           \/ CanProceed(txn'[q].s) /\ UNCHANGED years
<1>1. DOMAIN txn = Request
  BY DEF IInv, TxnOK
<1>2. ASSUME UNCHANGED txn PROVE Starting(q) /\ txn'[q].s = txn[q].s
  BY <1>2 DEF Starting
<1>3. ASSUME NEW r, NEW x, txn' = [txn EXCEPT ![r] = x], x.pc \notin {"send", "commit_start"}
      PROVE  Starting(q) /\ txn'[q].s = txn[q].s
  BY <1>1, <1>3 DEF Starting
<1>4. ASSUME NEW t \in Task, TaskStep(t) PROVE UNCHANGED txn
  BY <1>4, Zenon
     DEF TaskStep, StudentStep, TaskBegin, RunNotFound, NextStudent, SkipStudent, FindSource,
         CreateTarget, LeaveSource, SettleProfile, AssignFees, CountStudent, LogSuccess,
         Notify, Raise, LogFailure, CountFailure, FailRun, FailSession, FlipYear, FlipRaises,
         NoFlip, EndRun, EndSession, Crash
<1>5. ASSUME NEW r \in Request, NEW s \in Session,
             \/ \E st \in Student, a \in Actions : BeginOverride(r, s, st, a)
             \/ \E st \in Student, placed \in BOOLEAN : BeginPlace(r, s, st, placed)
             \/ BeginApprove(r, s) \/ BeginReopen(r, s)
             \/ BeginPrepare(r, s) \/ BeginMapClasses(r, s)
             \/ BeginValidate(r, s) \/ BeginLock(r, s) \/ BeginUnlock(r, s)
             \/ BeginInvalidate(r, s)
      PROVE  Starting(q) /\ txn'[q].s = txn[q].s
  <2>1. ASSUME NEW st \in Student, NEW a \in Actions, BeginOverride(r, s, st, a)
        PROVE  Starting(q) /\ txn'[q].s = txn[q].s
    BY <1>3, <2>1 DEF BeginOverride, Begin
  <2>2. ASSUME NEW st \in Student, NEW placed \in BOOLEAN, BeginPlace(r, s, st, placed)
        PROVE  Starting(q) /\ txn'[q].s = txn[q].s
    BY <1>3, <2>2 DEF BeginPlace, Begin
  <2>3. ASSUME BeginApprove(r, s) \/ BeginReopen(r, s) \/ BeginInvalidate(r, s)
        PROVE  Starting(q) /\ txn'[q].s = txn[q].s
    <3>1. CASE BeginApprove(r, s)
      BY <1>3, <3>1 DEF BeginApprove, Begin
    <3>2. CASE BeginReopen(r, s)
      BY <1>3, <3>2 DEF BeginReopen, Begin
    <3>3. CASE BeginInvalidate(r, s)
      BY <1>3, <3>3 DEF BeginInvalidate, Begin
    <3>. QED
      BY <2>3, <3>1, <3>2, <3>3
  <2>4. ASSUME BeginPrepare(r, s) \/ BeginMapClasses(r, s)
        PROVE  Starting(q) /\ txn'[q].s = txn[q].s
    <3>1. PICK starts \in BOOLEAN : BeginSections(r, s, starts)
      BY <2>4 DEF BeginPrepare, BeginMapClasses
    <3> DEFINE x == [pc |-> "sections", s |-> s, starts |-> starts,
                     first |-> session[s].preparation = "not_started"]
    <3>2. txn' = [txn EXCEPT ![r] = x]
      BY <3>1, Zenon DEF BeginSections, Begin
    <3>3. x.pc \notin {"send", "commit_start"}
      OBVIOUS
    <3> HIDE DEF x
    <3>. QED
      BY <1>3, <3>2, <3>3, Zenon
  <2>5. ASSUME BeginValidate(r, s) \/ BeginLock(r, s) \/ BeginUnlock(r, s)
        PROVE  Starting(q) /\ txn'[q].s = txn[q].s
    <3>1. CASE BeginValidate(r, s)
      BY <1>3, <3>1 DEF BeginValidate, Begin
    <3>2. CASE BeginLock(r, s)
      BY <1>3, <3>2 DEF BeginLock, Begin
    <3>3. CASE BeginUnlock(r, s)
      BY <1>3, <3>3 DEF BeginUnlock, Begin
    <3>. QED
      BY <2>5, <3>1, <3>2, <3>3
  <2>. QED
    BY <1>5, <2>1, <2>2, <2>3, <2>4, <2>5
<1>6. ASSUME NEW r \in Request, NEW s \in Session, BeginStart(r, s)
      PROVE  \/ Starting(q) /\ txn'[q].s = txn[q].s
             \/ CanProceed(txn'[q].s) /\ UNCHANGED years
  <2>1. /\ txn' = [txn EXCEPT ![r] = [pc |-> "send", s |-> s]]
        /\ CanProceed(s) /\ UNCHANGED years
    BY <1>6 DEF BeginStart, Begin
  <2>2. CASE q = r
    BY <1>1, <2>1, <2>2
  <2>3. CASE q # r
    BY <1>1, <2>1, <2>3 DEF Starting
  <2>. QED
    BY <2>2, <2>3
<1>7. ASSUME NEW r \in Request,
             \/ CommitOverride(r) \/ CommitApprove(r) \/ CommitReopen(r)
             \/ CommitSections(r) \/ CommitPlace(r) \/ CommitValidate(r) \/ CommitLock(r)
             \/ CommitUnlock(r) \/ CommitInvalidate(r) \/ CommitStart(r) \/ Abort(r)
      PROVE  Starting(q) /\ txn'[q].s = txn[q].s
  <2>1. Finish(r)
    BY <1>7, Zenon
       DEF CommitOverride, CommitApprove, CommitReopen, CommitSections, CommitPlace,
           CommitValidate, CommitLock, CommitUnlock, CommitInvalidate, CommitStart, Abort
  <2>. QED
    BY <1>3, <2>1 DEF Finish, Idle
<1>8. ASSUME NEW r \in Request, NEW t \in Task, SendTask(r, t)
      PROVE  Starting(q) /\ txn'[q].s = txn[q].s
  BY <1>1, <1>8 DEF SendTask, Starting
<1>9. ASSUME \/ \E s \in Session : StartPromotion(s)
             \/ \E s \in Session, t \in Task : Resume(s, t)
             \/ \E st \in Student, y \in Year : TransferStudent(st, y)
             \/ EditFees
      PROVE  UNCHANGED txn
  BY <1>9, Zenon DEF StartPromotion, Resume, TransferStudent, EditFees
<1>. QED
  BY <1>2, <1>4, <1>5, <1>6, <1>7, <1>8, <1>9, Zenon DEF Next

LEMMA NextInTime == ASSUME IInv, StartInTime, Next PROVE StartInTime'
<1>1. ASSUME NEW q \in Request, Starting(q)' PROVE CanProceed(txn'[q].s) /\ UNCHANGED years
  <2>1. CASE Starting(q) /\ txn'[q].s = txn[q].s
    <3>1. ~BranchFree
      BY <2>1 DEF BranchFree
    <3>. QED
      BY <2>1, <3>1, YearsSteps DEF StartInTime
  <2>. QED
    BY <1>1, <2>1, StartingSteps
<1>2. ASSUME NEW q \in Request, Starting(q)' PROVE CanProceed(txn[q].s)'
  BY <1>1, <1>2 DEF CanProceed, years
<1>. QED
  BY <1>2 DEF StartInTime

-----------------------------------------------------------------------------
(* The theorems about the students.                                        *)

LEMMA InitJInv == Init => JInv
<1>. SUFFICES ASSUME Init PROVE JInv
  OBVIOUS
<1>1. IInv
  BY InitIInv
<1>2. AssignedOK
  BY DEF Init, AssignedOK
<1>3. Plans
  BY DEF Init, Plans, Begun, Unused
<1>4. StartInTime
  BY DEF Init, StartInTime, Starting, Idle
<1>5. \A t \in Task : task[t].pc = "unused"
  BY DEF Init, Unused
<1>6. ASSUME NEW s \in Session PROVE Travels(s)
  <2>1. LeftSource(s) /\ HasTarget(s) /\ OneOwes
    BY <1>5 DEF LeftSource, HasTarget, OneOwes, Left, Owes
  <2>2. Billed(s)
    BY DEF Init, Billed, Year
  <2>3. LogTrue(s)
    BY DEF Init, LogTrue
  <2>. QED
    BY <2>1, <2>2, <2>3 DEF Travels
<1>. QED
  BY <1>1, <1>2, <1>3, <1>4, <1>6 DEF JInv, Journeys

LEMMA NextJInv == JInv /\ [Next]_vars => JInv'
<1>. SUFFICES ASSUME JInv, [Next]_vars PROVE JInv'
  OBVIOUS
<1>1. IInv'
  BY NextIInv DEF JInv
<1>2. CASE Next
  BY <1>1, <1>2, NextAssigned, NextPlans, NextJourneys, NextInTime DEF JInv
<1>3. CASE UNCHANGED vars
  <2>1. UNCHANGED <<enrolled, assigned, current, rollover, runs, txn, task>>
    BY <1>3 DEF vars, people, years
  <2>2. Plans' /\ AssignedOK'
    BY <2>1, SamePlans DEF JInv, AssignedOK
  <2>3. StartInTime'
    BY <2>1 DEF JInv, StartInTime, Starting, CanProceed
  <2>4. Journeys'
    BY <2>1 DEF JInv, Journeys, OnlyStarted, Travels, LeftSource, HasTarget, OneOwes, Billed,
                LogTrue, Left, Owes, Act, Here
  <2>. QED
    BY <1>1, <2>2, <2>3, <2>4 DEF JInv
<1>. QED
  BY <1>2, <1>3

LEMMA JInvariance == Spec => []JInv
BY InitJInv, NextJInv, PTL DEF Spec

(* A log row that says "succeeded" is true, for any number of tasks that   *)
(* handle the run, fail halfway, die and are sent again: the student has   *)
(* left the source year, and nobody has put him back.                      *)
THEOREM LogIsTrue == Spec => []LogTellsTruth
<1>1. ASSUME JInv PROVE LogTellsTruth
  <2>1. ASSUME NEW i \in 1..Len(runs) PROVE runs[i].s \in Session
    <3>1. runs[i] \in Run
      BY <1>1, <2>1 DEF JInv, IInv, RunsOK
    <3>. QED
      BY <3>1 DEF Run
  <2>. QED
    BY <1>1, <2>1 DEF JInv, Journeys, Travels, LogTrue, LogTellsTruth
<1>. QED
  BY <1>1, JInvariance, PTL

(* A student has at most one fee assignment for the target year, however   *)
(* many tasks take him: the unique active enrollment lets one of them      *)
(* through, and that one bills him once.                                   *)
THEOREM StudentsBilledOnce == Spec => []BilledOnce
<1>1. ASSUME JInv PROVE BilledOnce
  BY <1>1 DEF JInv, Journeys, Travels, Billed, Here, BilledOnce
<1>. QED
  BY <1>1, JInvariance, PTL

(* A student's last active enrollment is ended only by a task that         *)
(* graduates him or lets him go, never on the way to his target year.      *)
THEOREM NobodyFallsOut == Spec => PromotedStaysEnrolled
<1>1. ASSUME JInv, Next, NEW st \in Student, NEW s \in Session, OnlyStarted(s),
             enrolled[st] # {}, enrolled'[st] = {}
      PROVE  \E t \in Task : At(t, "leave") /\ task[t].st = st /\ Act(t) \in Leaves
  <2>1. enrolled'[st] # enrolled[st]
    BY <1>1
  <2>2. enrolled \in [Student -> SUBSET (Year \cup {Elsewhere})]
    BY <1>1 DEF JInv, IInv, BranchOK
  <2>3. ASSUME NEW x \in Student, NEW y \in Year, TransferStudent(x, y) PROVE FALSE
    <3>1. enrolled' = [enrolled EXCEPT ![x] = (@ \ {y}) \cup {Elsewhere}]
      BY <2>3 DEF TransferStudent
    <3>. QED
      BY <1>1, <2>1, <2>2, <3>1
  <2>4. ASSUME NEW t \in Task, CreateTarget(t) PROVE FALSE
    <3>1. \/ UNCHANGED enrolled
          \/ enrolled' = [enrolled EXCEPT ![task[t].st] = @ \cup {Tgt(t)}]
      BY <2>4 DEF CreateTarget
    <3>. QED
      BY <1>1, <2>1, <2>2, <3>1
  <2>5. ASSUME NEW t \in Task, LeaveSource(t)
        PROVE  At(t, "leave") /\ task[t].st = st /\ Act(t) \in Leaves
    <3>1. At(t, "leave") /\ Begun(task[t])
      BY <2>5 DEF LeaveSource, At, Begun
    <3>2. enrolled' = [enrolled EXCEPT ![task[t].st] = @ \ {Src(t)}]
      BY <2>5 DEF LeaveSource
    <3>3. task[t].st = st
      BY <2>1, <2>2, <3>2
    <3>4. Src(t) = Source[s] /\ Source[s] # Target[s] /\ Source[s] # Elsewhere
      BY <1>1, <3>1, WalkerOfSession DEF JInv
    <3>5. enrolled'[st] = enrolled[st] \ {Source[s]}
      BY <2>2, <3>2, <3>3, <3>4
    <3>6. Elsewhere \notin enrolled[st] /\ Target[s] \notin enrolled[st]
      BY <1>1, <3>4, <3>5
    <3>7. ~Owes(t)
      BY <1>1, <3>3, <3>6 DEF JInv, Journeys, Travels, HasTarget, Here
    <3>8. Act(t) \in Moves \cup Leaves
      BY <1>1, <3>1 DEF JInv, Plans, Planned, Act, At, Acting
    <3>. QED
      BY <3>1, <3>3, <3>7, <3>8 DEF Owes, At
  <2>6. ASSUME NEW t \in Task, TaskStep(t), ~CreateTarget(t), ~LeaveSource(t) PROVE FALSE
    <3>1. UNCHANGED enrolled
      BY <2>6, Zenon
         DEF TaskStep, StudentStep, TaskBegin, RunNotFound, NextStudent, SkipStudent, FindSource,
             SettleProfile, AssignFees, CountStudent, LogSuccess, Notify, Raise, LogFailure,
             CountFailure, FailRun, FailSession, FlipYear, FlipRaises, NoFlip, EndRun,
             EndSession, Crash, people
    <3>. QED
      BY <2>1, <3>1
  <2>7. ASSUME NEW r \in Request, NEW o \in Session,
               \/ \E x \in Student, a \in Actions : BeginOverride(r, o, x, a)
               \/ \E x \in Student, placed \in BOOLEAN : BeginPlace(r, o, x, placed)
               \/ BeginApprove(r, o) \/ BeginReopen(r, o)
               \/ BeginPrepare(r, o) \/ BeginMapClasses(r, o)
               \/ BeginValidate(r, o) \/ BeginLock(r, o) \/ BeginUnlock(r, o)
               \/ BeginInvalidate(r, o) \/ BeginStart(r, o)
        PROVE  UNCHANGED enrolled
    BY <2>7, Zenon
       DEF BeginOverride, BeginPlace, BeginApprove, BeginReopen, BeginPrepare, BeginMapClasses,
           BeginSections, BeginValidate, BeginLock, BeginUnlock, BeginInvalidate, BeginStart,
           people
  <2>8. ASSUME NEW r \in Request,
               \/ CommitOverride(r) \/ CommitApprove(r) \/ CommitReopen(r)
               \/ CommitSections(r) \/ CommitPlace(r) \/ CommitValidate(r) \/ CommitLock(r)
               \/ CommitUnlock(r) \/ CommitInvalidate(r) \/ CommitStart(r) \/ Abort(r)
        PROVE  UNCHANGED enrolled
    BY <2>8, Zenon
       DEF CommitOverride, CommitApprove, CommitReopen, CommitSections, CommitPlace,
           CommitValidate, CommitLock, CommitUnlock, CommitInvalidate, CommitStart, Abort, people
  <2>9. ASSUME \/ \E o \in Session : StartPromotion(o)
               \/ \E r \in Request, t \in Task : SendTask(r, t)
               \/ \E o \in Session, t \in Task : Resume(o, t)
               \/ EditFees
        PROVE  UNCHANGED enrolled
    BY <2>9, Zenon DEF StartPromotion, SendTask, Resume, EditFees, people
  <2>. QED
    BY <1>1, <2>1, <2>3, <2>4, <2>5, <2>6, <2>7, <2>8, <2>9, Zenon DEF Next
<1>2. JInv /\ [Next]_vars =>
          [\A st \in Student :
               /\ \E s \in Session : OnlyStarted(s)
               /\ enrolled[st] # {} /\ enrolled'[st] = {}
               => \E t \in Task : At(t, "leave") /\ task[t].st = st /\ Act(t) \in Leaves]_vars
  BY <1>1
<1>. QED
  BY <1>2, JInvariance, PTL DEF Spec, PromotedStaysEnrolled

(* The year does not turn under a start, whatever tasks are still at work: *)
(* what was checked of it holds when the start commits.                    *)
THEOREM StartsInTime == Spec => StartsBeforeTurn
<1>1. ASSUME JInv, Next, NEW s \in Session, Len(runs') > Len(runs), runs'[Len(runs')].s = s
      PROVE  CanProceed(s)
  <2>1. runs \in Seq(Run) /\ Len(runs) \in Nat
    BY <1>1 DEF JInv, IInv, RunsOK
  <2>2. RunsKept
    BY <1>1, RunsSteps DEF JInv
  <2>3. PICK r \in Request : CommitStart(r)
    BY <1>1, <2>1, <2>2 DEF RunsKept
  <2>. DEFINE new == [s |-> txn[r].s, status |-> "running", moved |-> 0, graduated |-> 0,
                      failed |-> 0, log |-> [st \in Student |-> "none"]]
  <2>4. runs' = Append(runs, new) /\ new.s = txn[r].s
    BY <2>3 DEF CommitStart
  <2>. HIDE DEF new
  <2>5. runs'[Len(runs')] = new
    BY <2>1, <2>4
  <2>6. Starting(r)
    BY <2>3 DEF CommitStart, Starting
  <2>7. CanProceed(txn[r].s)
    BY <1>1, <2>6 DEF JInv, StartInTime
  <2>. QED
    BY <1>1, <2>4, <2>5, <2>7
<1>2. JInv /\ [Next]_vars =>
          [\A s \in Session : Len(runs') > Len(runs) /\ runs'[Len(runs')].s = s =>
               CanProceed(s)]_vars
  BY <1>1
<1>. QED
  BY <1>2, JInvariance, PTL DEF Spec, StartsBeforeTurn

(* Two requests may see that nothing is running and start; when either of  *)
(* them commits nothing is running, so no session is executed twice at a   *)
(* time and no two of a branch are.                                        *)
THEOREM StartsAreAlone == Spec => StartsAlone
<1>1. ASSUME JInv, Next, Len(runs') > Len(runs) PROVE NoneRunning
  <2>1. runs \in Seq(Run) /\ Len(runs) \in Nat
    BY <1>1 DEF JInv, IInv, RunsOK
  <2>2. RunsKept
    BY <1>1, RunsSteps DEF JInv
  <2>3. PICK r \in Request : CommitStart(r)
    BY <1>1, <2>1, <2>2 DEF RunsKept
  <2>4. Starting(r)
    BY <2>3 DEF CommitStart, Starting
  <2>. QED
    BY <1>1, <2>4 DEF JInv, IInv, StartAlone, NoneRunning
<1>2. JInv /\ [Next]_vars => [Len(runs') > Len(runs) => NoneRunning]_vars
  BY <1>1
<1>. QED
  BY <1>2, JInvariance, PTL DEF Spec, StartsAlone
=============================================================================
