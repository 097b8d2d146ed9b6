----------------------- MODULE ClassRegister_proofs -----------------------
(***************************************************************************)
(* Proofs about ClassRegister, for any class and any number of requests:   *)
(* every mark that needs an audit has one, and every audit its record.     *)
(***************************************************************************)
EXTENDS ClassRegister, FiniteSetTheorems, TLAPS

(* What a request has seen is still there when it writes: records and      *)
(* leave requests are never deleted.                                       *)
SeenStays ==
    \A r \in Request :
        /\ req[r].op = "mark" => req[r].seen \subseteq Recorded
        /\ req[r].op = "correct" => req[r].rows \subseteq Recorded
        /\ req[r].op = "review" => leave[req[r].leave] # None

IInv == TypeOK /\ SeenStays /\ MarksAreAudited

-----------------------------------------------------------------------------
(* What a request has loaded, by its operation.                            *)
Shape(t) ==
    /\ t.op = "open" => t.fresh \in BOOLEAN /\ t.fill \subseteq Student
    /\ t.op = "mark" => /\ t.rows \subseteq Student /\ t.late \in BOOLEAN
                        /\ t.out \subseteq t.rows /\ t.seen \subseteq t.rows
                        /\ t.to \in [t.rows -> Status]
    /\ t.op = "correct" => t.rows \subseteq Student /\ t.to \in Status
    /\ t.op = "apply" => t.student \in Student
    /\ t.op = "review" => t.leave \in Request /\ t.to \in {"approved", "rejected"}

LEMMA UnderShape == ASSUME NEW t \in Under PROVE Shape(t)
  <1>1. CASE t = Nothing
    BY <1>1 DEF Nothing, Shape
  <1>2. CASE t \in Opening
    BY <1>2 DEF Opening, Shape
  <1>3. CASE t \in Markings
    <2>1. PICK rows \in SUBSET Student : t \in Marking(rows)
      BY <1>3 DEF Markings
    <2>2. /\ t.op = "mark" /\ t.rows = rows /\ t.late \in BOOLEAN
          /\ t.out \in SUBSET rows /\ t.seen \in SUBSET rows
          /\ t.to \in [rows -> Status]
      BY <2>1 DEF Marking
    <2> QED BY <2>2 DEF Shape
  <1>4. CASE t \in Correction
    BY <1>4 DEF Correction, Shape
  <1>5. CASE t \in Application
    BY <1>5 DEF Application, Shape
  <1>6. CASE t \in Review
    BY <1>6 DEF Review, Shape
  <1> QED BY <1>1, <1>2, <1>3, <1>4, <1>5, <1>6 DEF Under

LEMMA NothingUnder == Nothing \in Under /\ Nothing.op = "nothing"
  BY DEF Under, Nothing

LEMMA MoveTyped ==
    ASSUME TypeOK, NEW r \in Request, NEW t \in Under,
           NEW to \in {"begun", "flushed", "done"}, Move(r, to, t)
    PROVE  /\ pc' \in [Request -> {"idle", "begun", "flushed", "done"}]
           /\ req' \in [Request -> Under]
           /\ req'[r] = t
           /\ \A q \in Request \ {r} : req'[q] = req[q]
  BY DEF TypeOK, Move

LEMMA EntryIsRecord ==
    ASSUME NEW i \in Request, NEW s \in Status, NEW l \in BOOLEAN, NEW o \in BOOLEAN
    PROVE  /\ Entry(i, s, l, o) \in Record
           /\ Entry(i, s, l, o) # None
           /\ Entry(i, s, l, o).id = i
           /\ Entry(i, s, l, o).late = l
           /\ Entry(i, s, l, o).out = o
  BY NoneAssumption DEF Entry, Record

(* Writing records: each of them keeps its id, or has the writer's.        *)
LEMMA PutTyped ==
    ASSUME TypeOK, NEW entry, DOMAIN entry \subseteq Student,
           \A e \in DOMAIN entry : entry[e] \in Record, Put(entry)
    PROVE  /\ mark' \in [Student -> Record \cup {None}]
           /\ \A e \in DOMAIN entry : mark'[e] = entry[e]
           /\ \A e \in Student \ DOMAIN entry : mark'[e] = mark[e]
           /\ Recorded \subseteq Recorded'
  BY NoneAssumption DEF TypeOK, Put, Recorded

LEMMA SnapshotIsBoard == ASSUME TypeOK PROVE Snapshot \in Board
  <1> DEFINE P == {e \in Recorded : mark[e].status = "present"}
  <1>1. P \subseteq Student
    BY DEF Recorded
  <1>2. Cardinality(P) \in Nat /\ Cardinality(Student) \in Nat
        /\ Cardinality(P) <= Cardinality(Student)
    BY <1>1, StudentAssumption, FS_Subset, FS_CardinalityType
  <1>3. Cardinality(P) \in 0..Cardinality(Student)
    BY <1>2
  <1> QED BY <1>3 DEF Snapshot, Board

-----------------------------------------------------------------------------
(* A step that writes no record and no audit, and under which the requests *)
(* keep what they have loaded, keeps the rest of the invariant.            *)
LEMMA FrameKeeps ==
    ASSUME IInv, UNCHANGED <<mark, audit>>, NEW r \in Request,
           \A q \in Request \ {r} : req'[q] = req[q],
           \A l \in Request : leave[l] # None => leave'[l] # None,
           req'[r].op = "mark" => req'[r].seen \subseteq Recorded,
           req'[r].op = "correct" => req'[r].rows \subseteq Recorded,
           req'[r].op = "review" => leave[req'[r].leave] # None,
           TypeOK'
    PROVE  IInv'
  <1>1. Recorded' = Recorded
    BY DEF Recorded
  <1>2. SeenStays'
    <2> SUFFICES ASSUME NEW q \in Request
                 PROVE  /\ req'[q].op = "mark" => req'[q].seen \subseteq Recorded
                        /\ req'[q].op = "correct" => req'[q].rows \subseteq Recorded
                        /\ req'[q].op = "review" => leave'[req'[q].leave] # None
      BY <1>1 DEF SeenStays
    <2>1. req'[q] \in Under
      BY DEF TypeOK
    <2>2. req'[q].op = "review" => req'[q].leave \in Request
      BY <2>1, UnderShape DEF Shape
    <2>3. CASE q = r
      BY <2>2, <2>3
    <2>4. CASE q # r
      BY <2>2, <2>4 DEF IInv, SeenStays
    <2> QED BY <2>3, <2>4
  <1>3. MarksAreAudited'
    BY <1>1 DEF IInv, MarksAreAudited
  <1> QED BY <1>2, <1>3 DEF IInv

(* A request that writes records, keeping the ids there are, and with the  *)
(* audits its records need, keeps the rest of the invariant.               *)
LEMMA WriteKeeps ==
    ASSUME IInv, NEW r \in Request, NEW entry, NEW new,
           DOMAIN entry \subseteq Student,
           \A e \in DOMAIN entry : entry[e] \in Record,
           \A e \in DOMAIN entry : mark[e] # None => entry[e].id = mark[e].id,
           Put(entry), audit' = audit \cup new,
           \A a \in new : a.student \in DOMAIN entry /\ entry[a.student].id = a.record,
           \A e \in DOMAIN entry :
               /\ entry[e].late =>
                    [student |-> e, record |-> entry[e].id, type |-> "late"] \in audit'
               /\ entry[e].out =>
                    [student |-> e, record |-> entry[e].id, type |-> "geo"] \in audit',
           req'[r] = Nothing, \A q \in Request \ {r} : req'[q] = req[q],
           \A l \in Request : leave[l] # None => leave'[l] # None,
           TypeOK'
    PROVE  IInv'
  <1>1. /\ \A e \in DOMAIN entry : mark'[e] = entry[e]
        /\ \A e \in Student \ DOMAIN entry : mark'[e] = mark[e]
        /\ Recorded \subseteq Recorded'
    BY PutTyped DEF IInv
  <1>2. SeenStays'
    <2> SUFFICES ASSUME NEW q \in Request
                 PROVE  /\ req'[q].op = "mark" => req'[q].seen \subseteq Recorded'
                        /\ req'[q].op = "correct" => req'[q].rows \subseteq Recorded'
                        /\ req'[q].op = "review" => leave'[req'[q].leave] # None
      BY DEF SeenStays
    <2>1. CASE q = r
      BY <2>1, NothingUnder
    <2>2. CASE q # r
      <3>1. req'[q] = req[q] /\ req[q] \in Under
        BY <2>2 DEF IInv, TypeOK
      <3> QED BY <3>1, <1>1, UnderShape DEF Shape, IInv, SeenStays
    <2> QED BY <2>1, <2>2
  <1>3. ASSUME NEW e \in Recorded'
        PROVE  /\ mark'[e].late =>
                    [student |-> e, record |-> mark'[e].id, type |-> "late"] \in audit'
               /\ mark'[e].out =>
                    [student |-> e, record |-> mark'[e].id, type |-> "geo"] \in audit'
    <2>1. e \in Student /\ mark'[e] # None
      BY <1>3 DEF Recorded
    <2>2. CASE e \in DOMAIN entry
      BY <2>2, <1>1
    <2>3. CASE e \notin DOMAIN entry
      <3>1. mark'[e] = mark[e] /\ e \in Recorded
        BY <2>1, <2>3, <1>1 DEF Recorded
      <3> QED BY <3>1 DEF IInv, MarksAreAudited
    <2> QED BY <2>2, <2>3
  <1>4. ASSUME NEW a \in audit'
        PROVE  mark'[a.student] # None /\ mark'[a.student].id = a.record
    <2>1. CASE a \in new
      BY <2>1, <1>1, NoneAssumption
    <2>2. CASE a \in audit
      <3>1. /\ a.student \in Student
            /\ mark[a.student] # None /\ mark[a.student].id = a.record
        BY <2>2 DEF IInv, TypeOK, MarksAreAudited
      <3>2. CASE a.student \in DOMAIN entry
        BY <3>1, <3>2, <1>1, NoneAssumption
      <3>3. CASE a.student \notin DOMAIN entry
        BY <3>1, <3>3, <1>1
      <3> QED BY <3>2, <3>3
    <2> QED BY <1>4, <2>1, <2>2
  <1>5. MarksAreAudited'
    BY <1>3, <1>4 DEF MarksAreAudited
  <1> QED BY <1>2, <1>5 DEF IInv

-----------------------------------------------------------------------------
(* The kinds of steps a request takes: it begins, it locks what it writes, *)
(* it ends without having touched a record, or it writes records.          *)
LEMMA BeginKeeps ==
    ASSUME IInv, NEW r \in Request, NEW t \in Under, Load(r, t),
           t.op = "mark" => t.seen \subseteq Recorded,
           t.op = "correct" => t.rows \subseteq Recorded,
           t.op = "review" => leave[t.leave] # None,
           UNCHANGED <<session, mark, audit, leave, board, poll>>
    PROVE  IInv'
  <1>1. TypeOK /\ Move(r, "begun", t)
    BY DEF IInv, Load
  <1>2. /\ pc' \in [Request -> {"idle", "begun", "flushed", "done"}]
        /\ req' \in [Request -> Under]
        /\ req'[r] = t
        /\ \A q \in Request \ {r} : req'[q] = req[q]
    BY <1>1, MoveTyped
  <1>3. TypeOK'
    BY <1>1, <1>2 DEF TypeOK
  <1> QED BY <1>2, <1>3, FrameKeeps

LEMMA FlushKeeps ==
    ASSUME IInv, NEW r \in Request, Flush(r), board' = None,
           UNCHANGED <<session, mark, audit, leave, poll>>
    PROVE  IInv'
  <1>1. TypeOK /\ Move(r, "flushed", req[r]) /\ req[r] \in Under
    BY DEF IInv, Flush, TypeOK
  <1>2. /\ pc' \in [Request -> {"idle", "begun", "flushed", "done"}]
        /\ req' \in [Request -> Under]
        /\ req'[r] = req[r]
        /\ \A q \in Request \ {r} : req'[q] = req[q]
    BY <1>1, MoveTyped
  <1>3. TypeOK'
    BY <1>1, <1>2 DEF TypeOK
  <1>4. /\ req'[r].op = "mark" => req'[r].seen \subseteq Recorded
        /\ req'[r].op = "correct" => req'[r].rows \subseteq Recorded
        /\ req'[r].op = "review" => leave[req'[r].leave] # None
    BY <1>2 DEF IInv, SeenStays
  <1> QED BY <1>2, <1>3, <1>4, FrameKeeps

LEMMA EndKeeps ==
    ASSUME IInv, NEW r \in Request, End(r),
           session' \in SessionStatus \cup {"none"},
           leave' \in [Request -> LeaveRequest \cup {None}],
           \A l \in Request : leave[l] # None => leave'[l] # None,
           UNCHANGED <<mark, audit, board, poll>>
    PROVE  IInv'
  <1>1. TypeOK /\ Move(r, "done", Nothing) /\ Nothing \in Under
    BY NothingUnder DEF IInv, End
  <1>2. /\ pc' \in [Request -> {"idle", "begun", "flushed", "done"}]
        /\ req' \in [Request -> Under]
        /\ req'[r] = Nothing
        /\ \A q \in Request \ {r} : req'[q] = req[q]
    BY <1>1, MoveTyped
  <1>3. TypeOK'
    BY <1>1, <1>2 DEF TypeOK
  <1> QED BY <1>2, <1>3, NothingUnder, FrameKeeps

LEMMA CommitKeeps ==
    ASSUME IInv, NEW r \in Request, NEW entry, NEW new, End(r),
           DOMAIN entry \subseteq Student,
           \A e \in DOMAIN entry : entry[e] \in Record,
           \A e \in DOMAIN entry : mark[e] # None => entry[e].id = mark[e].id,
           Put(entry), audit' = audit \cup new,
           new \subseteq [student : Student, record : Request, type : {"late", "geo", "edit"}],
           \A a \in new : a.student \in DOMAIN entry /\ entry[a.student].id = a.record,
           \A e \in DOMAIN entry :
               /\ entry[e].late =>
                    [student |-> e, record |-> entry[e].id, type |-> "late"] \in audit'
               /\ entry[e].out =>
                    [student |-> e, record |-> entry[e].id, type |-> "geo"] \in audit',
           session' \in SessionStatus \cup {"none"},
           leave' \in [Request -> LeaveRequest \cup {None}],
           \A l \in Request : leave[l] # None => leave'[l] # None,
           UNCHANGED <<board, poll>>
    PROVE  IInv'
  <1>1. TypeOK /\ Move(r, "done", Nothing) /\ Nothing \in Under
    BY NothingUnder DEF IInv, End
  <1>2. /\ pc' \in [Request -> {"idle", "begun", "flushed", "done"}]
        /\ req' \in [Request -> Under]
        /\ req'[r] = Nothing
        /\ \A q \in Request \ {r} : req'[q] = req[q]
    BY <1>1, MoveTyped
  <1>3. mark' \in [Student -> Record \cup {None}]
    BY <1>1, PutTyped
  <1>4. TypeOK'
    BY <1>1, <1>2, <1>3 DEF TypeOK
  <1> QED BY <1>2, <1>4, WriteKeeps

(* An entry for a student who has a record, under the record's own id and  *)
(* with its lateness and place: the audits it needs are there.             *)
LEMMA SameMarks ==
    ASSUME IInv, NEW e \in Recorded, NEW s \in Status
    PROVE  LET n == Entry(mark[e].id, s, mark[e].late, mark[e].out) IN
           /\ e \in Student /\ mark[e] \in Record /\ n \in Record /\ n.id = mark[e].id
           /\ n.late => [student |-> e, record |-> n.id, type |-> "late"] \in audit
           /\ n.out  => [student |-> e, record |-> n.id, type |-> "geo"] \in audit
  <1>1. e \in Student /\ mark[e] \in Record
    BY DEF Recorded, IInv, TypeOK
  <1>2. mark[e].id \in Request /\ mark[e].late \in BOOLEAN /\ mark[e].out \in BOOLEAN
    BY <1>1 DEF Record
  <1> QED BY <1>1, <1>2, EntryIsRecord DEF IInv, MarksAreAudited

(* A new entry, or one that says neither late nor out.                     *)
LEMMA IdForIsRequest ==
    ASSUME IInv, NEW r \in Request, NEW e \in Student
    PROVE  /\ IdFor(r, e) \in Request
           /\ mark[e] # None => IdFor(r, e) = mark[e].id
  BY DEF IInv, TypeOK, IdFor, Record

-----------------------------------------------------------------------------
LEMMA OpenKept == ASSUME IInv, NEW r \in Request, BeginOpen(r) PROVE IInv'
  <1>1. PICK fill \in {{}, Student \ Recorded} :
            Load(r, [op |-> "open", fresh |-> session = "none", fill |-> fill])
    BY DEF BeginOpen
  <1> DEFINE t == [op |-> "open", fresh |-> session = "none", fill |-> fill]
  <1>2. (session = "none") \in BOOLEAN /\ fill \in SUBSET Student
    OBVIOUS
  <1>3. t \in Under /\ t.op = "open"
    BY <1>2 DEF Under, Opening
  <1>4. UNCHANGED <<session, mark, audit, leave, board, poll>>
    BY DEF BeginOpen
  <1> HIDE DEF t
  <1> QED BY <1>1, <1>3, <1>4, BeginKeeps DEF t

LEMMA CommitOpenKept == ASSUME IInv, NEW r \in Request, CommitOpen(r) PROVE IInv'
  <1> DEFINE entry == [e \in req[r].fill |-> Entry(IdFor(r, e), "absent", FALSE, FALSE)]
  <1>1. req[r].fill \subseteq Student
    BY UnderShape DEF IInv, TypeOK, CommitOpen, At, Shape
  <1>2. DOMAIN entry = req[r].fill
    OBVIOUS
  <1>3. ASSUME NEW e \in DOMAIN entry
        PROVE  /\ entry[e] \in Record
               /\ mark[e] # None => entry[e].id = mark[e].id
               /\ entry[e].late = FALSE /\ entry[e].out = FALSE
    <2>1. e \in Student /\ entry[e] = Entry(IdFor(r, e), "absent", FALSE, FALSE)
      BY <1>1, <1>3
    <2>2. IdFor(r, e) \in Request /\ (mark[e] # None => IdFor(r, e) = mark[e].id)
      BY <2>1, IdForIsRequest
    <2> QED BY <2>1, <2>2, EntryIsRecord DEF Status
  <1>4. End(r) /\ Put(entry) /\ UNCHANGED <<audit, leave, board, poll>>
    BY DEF CommitOpen
  <1>5. session' \in SessionStatus \cup {"none"}
    BY DEF CommitOpen, IInv, TypeOK, SessionStatus
  <1>6. audit' = audit \cup {} /\ leave' \in [Request -> LeaveRequest \cup {None}]
    BY <1>4 DEF IInv, TypeOK
  <1> HIDE DEF entry
  <1>7. \A e \in DOMAIN entry :
            /\ entry[e].late =>
                 [student |-> e, record |-> entry[e].id, type |-> "late"] \in audit'
            /\ entry[e].out =>
                 [student |-> e, record |-> entry[e].id, type |-> "geo"] \in audit'
    BY <1>3
  <1>8. /\ DOMAIN entry \subseteq Student
        /\ \A e \in DOMAIN entry : entry[e] \in Record
        /\ \A e \in DOMAIN entry : mark[e] # None => entry[e].id = mark[e].id
        /\ \A l \in Request : leave[l] # None => leave'[l] # None
    BY <1>1, <1>2, <1>3, <1>4
  <1> DEFINE new == {}
  <1>9. /\ audit' = audit \cup new
        /\ new \subseteq [student : Student, record : Request, type : {"late", "geo", "edit"}]
        /\ \A a \in new : a.student \in DOMAIN entry /\ entry[a.student].id = a.record
    BY <1>6
  <1> HIDE DEF new
  <1> QED BY <1>4, <1>5, <1>6, <1>7, <1>8, <1>9, CommitKeeps

LEMMA SetStatusKept == ASSUME IInv, NEW r \in Request, SetStatus(r) PROVE IInv'
  <1>1. session' \in SessionStatus \cup {"none"} /\ End(r)
        /\ UNCHANGED <<mark, audit, leave, board, poll>>
    BY DEF SetStatus
  <1>2. leave' \in [Request -> LeaveRequest \cup {None}]
    BY <1>1 DEF IInv, TypeOK
  <1> QED BY <1>1, <1>2, EndKeeps

LEMMA FailKept == ASSUME IInv, NEW r \in Request, Fail(r) PROVE IInv'
  <1>1. End(r) /\ UNCHANGED <<session, mark, audit, leave, board, poll>>
    BY DEF Fail
  <1>2. /\ session' \in SessionStatus \cup {"none"}
        /\ leave' \in [Request -> LeaveRequest \cup {None}]
    BY <1>1 DEF IInv, TypeOK
  <1> QED BY <1>1, <1>2, EndKeeps

-----------------------------------------------------------------------------
LEMMA MarkKept == ASSUME IInv, NEW r \in Request, BeginMark(r) PROVE IInv'
  <1>1. PICK rows \in (SUBSET Student) \ {{}} :
            \E want \in [rows -> Wanted], out \in SUBSET rows, late \in {FALSE, SessionMode} :
                Load(r, [op |-> "mark", rows |-> rows, late |-> late, out |-> out,
                         seen |-> rows \cap Recorded,
                         to |-> [e \in rows |-> IF e \in out THEN "flagged"
                                                ELSE IF OnLeave(e) THEN "leave" ELSE want[e]]])
    BY DEF BeginMark
  <1>2. PICK want \in [rows -> Wanted], out \in SUBSET rows, late \in {FALSE, SessionMode} :
                Load(r, [op |-> "mark", rows |-> rows, late |-> late, out |-> out,
                         seen |-> rows \cap Recorded,
                         to |-> [e \in rows |-> IF e \in out THEN "flagged"
                                                ELSE IF OnLeave(e) THEN "leave" ELSE want[e]]])
    BY <1>1
  <1> DEFINE to == [e \in rows |-> IF e \in out THEN "flagged"
                                   ELSE IF OnLeave(e) THEN "leave" ELSE want[e]]
             t  == [op |-> "mark", rows |-> rows, late |-> late, out |-> out,
                    seen |-> rows \cap Recorded, to |-> to]
  <1>3. to \in [rows -> Status]
    BY WantedAssumption DEF Status
  <1>4. late \in BOOLEAN /\ rows \in SUBSET Student /\ rows \cap Recorded \in SUBSET rows
    BY ModeAssumption
  <1>5. Load(r, t)
    BY <1>2
  <1> HIDE DEF to
  <1>6. t \in Marking(rows) /\ t.op = "mark" /\ t.seen \subseteq Recorded
    BY <1>3, <1>4 DEF Marking
  <1> HIDE DEF t
  <1>7. t \in Under
    BY <1>4, <1>6 DEF Under, Markings
  <1>8. UNCHANGED <<session, mark, audit, leave, board, poll>>
    BY DEF BeginMark
  <1> QED BY <1>5, <1>6, <1>7, <1>8, BeginKeeps

LEMMA FlushMarkKept == ASSUME IInv, NEW r \in Request, FlushMark(r) PROVE IInv'
  BY FlushKeeps DEF FlushMark

(* The id under which a mark is audited is the id its record gets: what    *)
(* was seen is still there, and what was not has not been made since.      *)
LEMMA CommitMarkKept == ASSUME IInv, NEW r \in Request, CommitMark(r) PROVE IInv'
  <1> DEFINE t == req[r]
             entry == [e \in t.rows |-> Entry(IdFor(r, e), t.to[e], t.late, e \in t.out)]
             new == Audits(r, t)
             Id(e) == IF e \in t.seen THEN mark[e].id ELSE r
  <1>1. /\ t.rows \subseteq Student /\ t.late \in BOOLEAN
        /\ t.out \subseteq t.rows /\ t.seen \subseteq t.rows
        /\ t.to \in [t.rows -> Status]
        /\ t.seen \subseteq Recorded
    BY UnderShape DEF IInv, TypeOK, CommitMark, Flushed, Shape, SeenStays
  <1>2. DOMAIN entry = t.rows
    OBVIOUS
  <1>3. ASSUME NEW e \in t.rows
        PROVE  /\ entry[e] \in Record
               /\ mark[e] # None => entry[e].id = mark[e].id
               /\ entry[e].id = IdFor(r, e)
               /\ entry[e].late = t.late /\ entry[e].out = (e \in t.out)
    <2> DEFINE o == e \in t.out
    <2>1. e \in Student /\ entry[e] = Entry(IdFor(r, e), t.to[e], t.late, o)
          /\ t.to[e] \in Status /\ o \in BOOLEAN
      BY <1>1, <1>3
    <2>2. IdFor(r, e) \in Request /\ (mark[e] # None => IdFor(r, e) = mark[e].id)
      BY <2>1, IdForIsRequest
    <2> HIDE DEF o, entry
    <2>3. /\ entry[e] \in Record /\ entry[e].id = IdFor(r, e)
          /\ entry[e].late = t.late /\ entry[e].out = o
      BY <1>1, <2>1, <2>2, EntryIsRecord
    <2> QED BY <2>2, <2>3 DEF o
  <1>4. ASSUME NEW e \in Audited(t)
        PROVE  e \in t.rows /\ Id(e) = entry[e].id /\ Id(e) \in Request
    <2>1. e \in t.rows
      BY <1>1, <1>4 DEF Audited
    <2>2. e \in t.seen => mark[e] # None
      BY <1>1 DEF Recorded
    <2>3. e \notin t.seen => mark[e] = None
      BY <1>4 DEF CommitMark, Dangling
    <2>4. Id(e) = IdFor(r, e)
      BY <2>2, <2>3 DEF IdFor
    <2> QED BY <1>1, <1>3, <2>1, <2>4, IdForIsRequest
  <1>5. new = {[student |-> e, record |-> Id(e), type |-> "late"] :
                    e \in IF t.late THEN t.rows ELSE {}}
              \cup {[student |-> e, record |-> Id(e), type |-> "geo"] : e \in t.out}
    BY DEF Audits
  <1>6. /\ End(r) /\ Put(entry) /\ audit' = audit \cup new
        /\ session' = "completed" /\ UNCHANGED <<leave, board, poll>>
    BY DEF CommitMark
  <1>7. /\ session' \in SessionStatus \cup {"none"}
        /\ leave' \in [Request -> LeaveRequest \cup {None}]
    BY <1>6 DEF IInv, TypeOK, SessionStatus
  <1> HIDE DEF entry, new, Id, t
  <1>8. (t.late => \A e \in t.rows : e \in Audited(t)) /\ (\A e \in t.out : t.late \/ e \in Audited(t))
        /\ t.out \subseteq Audited(t)
    BY <1>1 DEF Audited
  <1>9. ASSUME NEW a \in new
        PROVE  /\ a \in [student : Student, record : Request, type : {"late", "geo", "edit"}]
               /\ a.student \in DOMAIN entry /\ entry[a.student].id = a.record
    <2>1. \/ \E e \in Audited(t) : a = [student |-> e, record |-> Id(e), type |-> "late"]
          \/ \E e \in Audited(t) : a = [student |-> e, record |-> Id(e), type |-> "geo"]
      BY <1>5, <1>8, <1>9
    <2> QED BY <2>1, <1>1, <1>2, <1>4
  <1>10. ASSUME NEW e \in DOMAIN entry
         PROVE  /\ entry[e].late =>
                     [student |-> e, record |-> entry[e].id, type |-> "late"] \in audit'
                /\ entry[e].out =>
                     [student |-> e, record |-> entry[e].id, type |-> "geo"] \in audit'
    <2>1. e \in t.rows /\ entry[e].late = t.late /\ entry[e].out = (e \in t.out)
      BY <1>2, <1>3, <1>10
    <2>2. CASE t.late
      <3>1. [student |-> e, record |-> Id(e), type |-> "late"] \in new
        BY <2>1, <2>2, <1>5
      <3>2. e \in t.out => [student |-> e, record |-> Id(e), type |-> "geo"] \in new
        BY <1>5
      <3> QED BY <2>1, <2>2, <3>1, <3>2, <1>4, <1>6, <1>8
    <2>3. CASE ~t.late
      <3>2. e \in t.out => [student |-> e, record |-> Id(e), type |-> "geo"] \in new
        BY <1>5
      <3> QED BY <2>1, <2>3, <3>2, <1>4, <1>6, <1>8
    <2> QED BY <2>2, <2>3
  <1>11. /\ DOMAIN entry \subseteq Student
         /\ \A e \in DOMAIN entry : entry[e] \in Record
         /\ \A e \in DOMAIN entry : mark[e] # None => entry[e].id = mark[e].id
         /\ new \subseteq [student : Student, record : Request, type : {"late", "geo", "edit"}]
         /\ \A a \in new : a.student \in DOMAIN entry /\ entry[a.student].id = a.record
         /\ \A l \in Request : leave[l] # None => leave'[l] # None
    BY <1>1, <1>2, <1>3, <1>6, <1>9
  <1> QED BY <1>6, <1>7, <1>10, <1>11, CommitKeeps

-----------------------------------------------------------------------------
(* A commit that writes entries with the ids and marks there are, and adds *)
(* audits of kind `edit', keeps the invariant.                             *)
LEMMA RewriteKeeps ==
    ASSUME IInv, NEW r \in Request, NEW entry, NEW new, End(r),
           DOMAIN entry \subseteq Recorded,
           \A e \in DOMAIN entry :
               /\ entry[e] \in Record /\ entry[e].id = mark[e].id
               /\ entry[e].late =>
                    [student |-> e, record |-> entry[e].id, type |-> "late"] \in audit
               /\ entry[e].out =>
                    [student |-> e, record |-> entry[e].id, type |-> "geo"] \in audit,
           Put(entry), audit' = audit \cup new,
           \A a \in new : \E e \in DOMAIN entry :
               a = [student |-> e, record |-> mark[e].id, type |-> "edit"],
           leave' \in [Request -> LeaveRequest \cup {None}],
           \A l \in Request : leave[l] # None => leave'[l] # None,
           UNCHANGED <<session, board, poll>>
    PROVE  IInv'
  <1>1. DOMAIN entry \subseteq Student
    BY DEF Recorded
  <1>2. ASSUME NEW a \in new
        PROVE  /\ a \in [student : Student, record : Request, type : {"late", "geo", "edit"}]
               /\ a.student \in DOMAIN entry /\ entry[a.student].id = a.record
    <2>1. PICK e \in DOMAIN entry :
              a = [student |-> e, record |-> mark[e].id, type |-> "edit"]
      BY <1>2
    <2>2. entry[e] \in Record /\ entry[e].id = mark[e].id /\ e \in Student
      BY <1>1
    <2>3. mark[e].id \in Request
      BY <2>2 DEF Record
    <2> QED BY <2>1, <2>2, <2>3
  <1>3. session' \in SessionStatus \cup {"none"}
    BY DEF IInv, TypeOK
  <1>4. /\ \A e \in DOMAIN entry : entry[e] \in Record
        /\ \A e \in DOMAIN entry : mark[e] # None => entry[e].id = mark[e].id
        /\ new \subseteq [student : Student, record : Request, type : {"late", "geo", "edit"}]
        /\ \A a \in new : a.student \in DOMAIN entry /\ entry[a.student].id = a.record
        /\ \A e \in DOMAIN entry :
               /\ entry[e].late =>
                    [student |-> e, record |-> entry[e].id, type |-> "late"] \in audit'
               /\ entry[e].out =>
                    [student |-> e, record |-> entry[e].id, type |-> "geo"] \in audit'
    BY <1>2
  <1> QED BY <1>1, <1>3, <1>4, CommitKeeps

LEMMA SaveKept == ASSUME IInv, NEW r \in Request, SaveRecords(r) PROVE IInv'
  <1>0. PICK rows \in (SUBSET Recorded) \ {{}} : \E to \in [rows -> Wanted] :
            Put([e \in rows |-> Entry(mark[e].id, to[e], FALSE, FALSE)])
    BY DEF SaveRecords
  <1>1. PICK to \in [rows -> Wanted] :
            Put([e \in rows |-> Entry(mark[e].id, to[e], FALSE, FALSE)])
    BY <1>0
  <1> DEFINE entry == [e \in rows |-> Entry(mark[e].id, to[e], FALSE, FALSE)]
             new == {}
  <1>2. DOMAIN entry = rows /\ rows \subseteq Recorded /\ Put(entry)
    BY <1>1
  <1>3. ASSUME NEW e \in DOMAIN entry
        PROVE  /\ entry[e] \in Record /\ entry[e].id = mark[e].id
               /\ entry[e].late = FALSE /\ entry[e].out = FALSE
    <2>1. e \in Recorded /\ entry[e] = Entry(mark[e].id, to[e], FALSE, FALSE)
      BY <1>2, <1>3
    <2>2. mark[e] \in Record
      BY <2>1 DEF Recorded, IInv, TypeOK
    <2>3. mark[e].id \in Request /\ to[e] \in Status
      BY <2>2, <1>2, <1>3, WantedAssumption DEF Record, Status
    <2> QED BY <2>1, <2>3, EntryIsRecord
  <1>4. End(r) /\ UNCHANGED <<session, audit, leave, board, poll>> /\ audit' = audit \cup new
    BY DEF SaveRecords
  <1>5. \A a \in new : \E e \in DOMAIN entry :
            a = [student |-> e, record |-> mark[e].id, type |-> "edit"]
    OBVIOUS
  <1> HIDE DEF entry, new
  <1>6. \A e \in DOMAIN entry :
               /\ entry[e] \in Record /\ entry[e].id = mark[e].id
               /\ entry[e].late =>
                    [student |-> e, record |-> entry[e].id, type |-> "late"] \in audit
               /\ entry[e].out =>
                    [student |-> e, record |-> entry[e].id, type |-> "geo"] \in audit
    BY <1>3
  <1>7. /\ leave' \in [Request -> LeaveRequest \cup {None}]
        /\ \A l \in Request : leave[l] # None => leave'[l] # None
        /\ DOMAIN entry \subseteq Recorded
    BY <1>2, <1>4 DEF IInv, TypeOK
  <1> QED BY <1>2, <1>4, <1>5, <1>6, <1>7, RewriteKeeps

LEMMA CorrectKept == ASSUME IInv, NEW r \in Request, BeginCorrect(r) PROVE IInv'
  <1>1. PICK e \in Recorded, to \in Status :
            Load(r, [op |-> "correct", rows |-> {e}, to |-> to])
    BY DEF BeginCorrect
  <1> DEFINE t == [op |-> "correct", rows |-> {e}, to |-> to]
  <1>2. {e} \in SUBSET Student
    BY DEF Recorded
  <1>3. t \in Under /\ t.op = "correct" /\ t.rows \subseteq Recorded
    BY <1>2 DEF Under, Correction
  <1>4. Load(r, t) /\ UNCHANGED <<session, mark, audit, leave, board, poll>>
    BY <1>1 DEF BeginCorrect
  <1> HIDE DEF t
  <1> QED BY <1>3, <1>4, BeginKeeps

LEMMA FlushCorrectKept == ASSUME IInv, NEW r \in Request, FlushCorrect(r) PROVE IInv'
  BY FlushKeeps DEF FlushCorrect

LEMMA CommitCorrectKept == ASSUME IInv, NEW r \in Request, CommitCorrect(r) PROVE IInv'
  <1> DEFINE entry == [e \in req[r].rows |-> Entry(mark[e].id, req[r].to, mark[e].late, mark[e].out)]
             new == {[student |-> e, record |-> mark[e].id, type |-> "edit"] : e \in req[r].rows}
  <1>1. req[r].rows \subseteq Recorded /\ req[r].to \in Status
    BY UnderShape DEF IInv, TypeOK, CommitCorrect, Flushed, Shape, SeenStays
  <1>2. DOMAIN entry = req[r].rows
    OBVIOUS
  <1>3. \A e \in DOMAIN entry :
            entry[e] = Entry(mark[e].id, req[r].to, mark[e].late, mark[e].out)
    OBVIOUS
  <1>4. /\ End(r) /\ Put(entry) /\ audit' = audit \cup new
        /\ UNCHANGED <<session, leave, board, poll>>
    BY DEF CommitCorrect
  <1>5. \A a \in new : \E e \in DOMAIN entry :
            a = [student |-> e, record |-> mark[e].id, type |-> "edit"]
    OBVIOUS
  <1> HIDE DEF entry, new
  <1>6. \A e \in DOMAIN entry :
               /\ entry[e] \in Record /\ entry[e].id = mark[e].id
               /\ entry[e].late =>
                    [student |-> e, record |-> entry[e].id, type |-> "late"] \in audit
               /\ entry[e].out =>
                    [student |-> e, record |-> entry[e].id, type |-> "geo"] \in audit
    BY <1>1, <1>2, <1>3, SameMarks
  <1>7. /\ leave' \in [Request -> LeaveRequest \cup {None}]
        /\ \A l \in Request : leave[l] # None => leave'[l] # None
        /\ DOMAIN entry \subseteq Recorded
    BY <1>1, <1>2, <1>4 DEF IInv, TypeOK
  <1> QED BY <1>4, <1>5, <1>6, <1>7, RewriteKeeps

-----------------------------------------------------------------------------
LEMMA ApplyKept == ASSUME IInv, NEW r \in Request, BeginApply(r) PROVE IInv'
  <1>1. PICK e \in Student : Load(r, [op |-> "apply", student |-> e])
    BY DEF BeginApply
  <1> DEFINE t == [op |-> "apply", student |-> e]
  <1>2. t \in Under /\ t.op = "apply"
    BY DEF Under, Application
  <1>3. Load(r, t) /\ UNCHANGED <<session, mark, audit, leave, board, poll>>
    BY <1>1 DEF BeginApply
  <1> HIDE DEF t
  <1> QED BY <1>2, <1>3, BeginKeeps

LEMMA CommitApplyKept == ASSUME IInv, NEW r \in Request, CommitApply(r) PROVE IInv'
  <1> DEFINE n == [student |-> req[r].student, status |-> "pending"]
  <1>1. req[r].student \in Student
    BY UnderShape DEF IInv, TypeOK, CommitApply, At, Shape
  <1>2. n \in LeaveRequest /\ n # None
    BY <1>1, NoneAssumption DEF LeaveRequest
  <1>3. End(r) /\ leave' = [leave EXCEPT ![r] = n] /\ UNCHANGED <<session, mark, audit, board, poll>>
    BY DEF CommitApply
  <1> HIDE DEF n
  <1>4. /\ leave' \in [Request -> LeaveRequest \cup {None}]
        /\ \A l \in Request : leave[l] # None => leave'[l] # None
        /\ session' \in SessionStatus \cup {"none"}
    BY <1>2, <1>3 DEF IInv, TypeOK
  <1> QED BY <1>3, <1>4, EndKeeps

LEMMA ReviewKept == ASSUME IInv, NEW r \in Request, BeginReview(r) PROVE IInv'
  <1>1. PICK l \in Request, to \in {"approved", "rejected"} :
            leave[l] # None /\ Load(r, [op |-> "review", leave |-> l, to |-> to])
    BY DEF BeginReview
  <1> DEFINE t == [op |-> "review", leave |-> l, to |-> to]
  <1>2. t \in Under /\ t.op = "review" /\ leave[t.leave] # None
    BY <1>1 DEF Under, Review
  <1>3. Load(r, t) /\ UNCHANGED <<session, mark, audit, leave, board, poll>>
    BY <1>1 DEF BeginReview
  <1> HIDE DEF t
  <1> QED BY <1>2, <1>3, BeginKeeps

LEMMA CommitReviewKept == ASSUME IInv, NEW r \in Request, CommitReview(r) PROVE IInv'
  <1> DEFINE l == req[r].leave
             turned == {e \in Recorded : /\ req[r].to = "approved"
                                         /\ e = leave[l].student /\ mark[e].status = "absent"}
             entry == [e \in turned |-> Entry(mark[e].id, "leave", mark[e].late, mark[e].out)]
             new == {}
             n == [student |-> leave[l].student, status |-> req[r].to]
  <1>1. l \in Request /\ req[r].to \in {"approved", "rejected"} /\ leave[l] # None
    BY UnderShape DEF IInv, TypeOK, CommitReview, At, Shape, SeenStays
  <1>2. leave[l].student \in Student
    BY <1>1 DEF IInv, TypeOK, LeaveRequest
  <1>3. n \in LeaveRequest /\ n # None
    BY <1>1, <1>2, NoneAssumption DEF LeaveRequest
  <1>4. DOMAIN entry \subseteq Recorded
    OBVIOUS
  <1>5. \A e \in DOMAIN entry :
            entry[e] = Entry(mark[e].id, "leave", mark[e].late, mark[e].out)
    OBVIOUS
  <1>6. /\ End(r) /\ Put(entry) /\ leave' = [leave EXCEPT ![l] = n]
        /\ UNCHANGED <<session, audit, board, poll>>
    BY DEF CommitReview
  <1>7. /\ audit' = audit \cup new
        /\ \A a \in new : \E e \in DOMAIN entry :
               a = [student |-> e, record |-> mark[e].id, type |-> "edit"]
    BY <1>6
  <1> HIDE DEF entry, new, turned, n, l
  <1>8. \A e \in DOMAIN entry :
               /\ entry[e] \in Record /\ entry[e].id = mark[e].id
               /\ entry[e].late =>
                    [student |-> e, record |-> entry[e].id, type |-> "late"] \in audit
               /\ entry[e].out =>
                    [student |-> e, record |-> entry[e].id, type |-> "geo"] \in audit
    <2>1. "leave" \in Status
      BY DEF Status
    <2> QED BY <2>1, <1>4, <1>5, SameMarks
  <1>9. /\ leave' \in [Request -> LeaveRequest \cup {None}]
        /\ \A k \in Request : leave[k] # None => leave'[k] # None
    BY <1>1, <1>3, <1>6 DEF IInv, TypeOK
  <1> QED BY <1>4, <1>6, <1>7, <1>8, <1>9, RewriteKeeps

-----------------------------------------------------------------------------
(* A step of the board touches neither records nor requests.               *)
LEMMA BoardKeeps ==
    ASSUME IInv, UNCHANGED <<session, mark, audit, leave, pc, req>>,
           board' \in Board \cup {None}, poll' \in [Poller -> Board \cup {None}]
    PROVE  IInv'
  <1>1. TypeOK'
    BY DEF IInv, TypeOK
  <1>2. Recorded' = Recorded
    BY DEF Recorded
  <1>3. SeenStays' /\ MarksAreAudited'
    BY <1>2 DEF IInv, SeenStays, MarksAreAudited
  <1> QED BY <1>1, <1>3 DEF IInv

LEMMA CountKept == ASSUME IInv, NEW p \in Poller, Count(p) PROVE IInv'
  BY SnapshotIsBoard, BoardKeeps DEF Count, IInv, TypeOK

LEMMA KeepKept == ASSUME IInv, NEW p \in Poller, Keep(p) PROVE IInv'
  BY BoardKeeps DEF Keep, IInv, TypeOK

LEMMA ExpireKept == ASSUME IInv, Expire PROVE IInv'
  BY BoardKeeps DEF Expire, IInv, TypeOK

LEMMA StutterKept == ASSUME IInv, UNCHANGED vars PROVE IInv'
  BY BoardKeeps DEF vars, IInv, TypeOK

LEMMA InitKept == ASSUME Init PROVE IInv
  <1>1. TypeOK
    BY NothingUnder DEF Init, TypeOK
  <1>2. SeenStays /\ MarksAreAudited
    BY NothingUnder DEF Init, SeenStays, MarksAreAudited, Recorded
  <1> QED BY <1>1, <1>2 DEF IInv

LEMMA NextKept == ASSUME IInv, [Next]_vars PROVE IInv'
  <1>1. ASSUME NEW r \in Request, Begin(r) PROVE IInv'
    BY <1>1, OpenKept, MarkKept, CorrectKept, ApplyKept, ReviewKept, SetStatusKept, SaveKept
    DEF Begin
  <1>2. ASSUME NEW r \in Request, Flushing(r) PROVE IInv'
    BY <1>2, FlushMarkKept, FlushCorrectKept DEF Flushing
  <1>3. ASSUME NEW r \in Request, Commit(r) PROVE IInv'
    BY <1>3, CommitOpenKept, CommitMarkKept, CommitCorrectKept, CommitApplyKept, CommitReviewKept
    DEF Commit
  <1>4. ASSUME NEW r \in Request, Fail(r) PROVE IInv'
    BY <1>4, FailKept
  <1>5. ASSUME NEW p \in Poller, Count(p) \/ Keep(p) PROVE IInv'
    BY <1>5, CountKept, KeepKept
  <1>6. CASE Expire
    BY <1>6, ExpireKept
  <1>7. CASE UNCHANGED vars
    BY <1>7, StutterKept
  <1> QED BY <1>1, <1>2, <1>3, <1>4, <1>5, <1>6, <1>7 DEF Next

-----------------------------------------------------------------------------
LEMMA Inductive == Spec => []IInv
  <1>1. Init => IInv
    BY InitKept
  <1>2. IInv /\ [Next]_vars => IInv'
    BY NextKept
  <1> QED BY <1>1, <1>2, PTL DEF Spec

(* The register, the requests under way, the cached board and the counts   *)
(* about to be cached keep their types.                                    *)
THEOREM Types == Spec => []TypeOK
  <1>1. IInv => TypeOK
    BY DEF IInv
  <1> QED BY <1>1, Inductive, PTL

(* A record marked late or from outside the fence has its audit, and every *)
(* audit its record, for any class and any number of requests at once.     *)
THEOREM AuditsAndMarksAgree == Spec => []MarksAreAudited
  <1>1. IInv => MarksAreAudited
    BY DEF IInv
  <1> QED BY <1>1, Inductive, PTL

=============================================================================
