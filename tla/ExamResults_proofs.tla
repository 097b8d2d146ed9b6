------------------------- MODULE ExamResults_proofs -------------------------
(***************************************************************************)
(* Proofs about ExamResults: the publications of an exam are one chain,    *)
(* the results shown are those of the last one, and marks never go back.   *)
(***************************************************************************)
EXTENDS ExamResults, SequenceTheorems, TLAPS

Revising == {"revise_read", "revise_insert", "revise_store"}
Storing  == {"publish_store", "revise_store"}
Carrying == {"compute_cache", "publish_lock", "publish_read", "publish_insert",
             "publish_store", "revise_insert", "revise_store"}

(* A snapshot, wherever it is kept, covers submitted marks only; the cards *)
(* to store are those of the snapshot.                                     *)
Covered ==
    /\ token # NoToken => DOMAIN token.snap \subseteq Submitted
    /\ \A r \in Request : txn[r].pc \in Carrying => DOMAIN txn[r].snap \subseteq Submitted
    /\ \A r \in Request : txn[r].pc \in Storing => txn[r].todo \subseteq DOMAIN txn[r].snap
    /\ \A i \in 1..Len(pubs) : DOMAIN pubs[i].snap \subseteq Submitted

(* A revision starts from a publication that exists, and once its marks    *)
(* are read they cover at least those of that publication.                 *)
Based ==
    \A r \in Request :
        /\ txn[r].pc \in Revising => txn[r].base \in 1..Len(pubs)
        /\ txn[r].pc \in Revising \ {"revise_read"} =>
               /\ txn[r].base < MaxRevisions
               /\ DOMAIN pubs[txn[r].base].snap \subseteq DOMAIN txn[r].snap

(* Who stores cards is alone: a first publication finds no other, and a    *)
(* revision starts from the latest.                                        *)
Alone ==
    /\ \A r \in Request :
        /\ txn[r].pc = "publish_store" => pubs = <<>> /\ MaxRevisions > 0
        /\ txn[r].pc = "revise_store" => txn[r].base = Len(pubs)
    /\ \A p, q \in Request : txn[p].pc \in Storing /\ txn[q].pc \in Storing => p = q

(* A save of an entry that was read, and a grant, find the entry.          *)
Existing ==
    \A r \in Request :
        txn[r].pc = "grace" \/ (txn[r].pc = "save" /\ txn[r].read # NoEntry) =>
            marks[txn[r].s] # NoEntry

Rest == RevisionsLinear /\ ResultsOfCurrent /\ Covered /\ Based /\ Alone
IInv == TypeOK /\ Existing /\ Rest

-----------------------------------------------------------------------------
(* What a request carries, by where it is.                                 *)
LEMMA LocalShape ==
    ASSUME NEW t \in Local
    PROVE  /\ t.pc \in {"save", "patch"} =>
                  t.s \in Student /\ t.mark \in Mark /\ t.read \in Entry \cup {NoEntry}
           /\ t.pc = "grace" => t.s \in Student /\ t.grace \in Grace /\ t.version \in Nat \ {0}
           /\ t.pc \in Carrying => t.snap \in Snap
           /\ t.pc \in Storing => t.todo \in SUBSET Student
           /\ t.pc \in Revising => t.base \in 1..MaxRevisions
  BY DEF Local, Carrying, Storing, Revising

LEMMA IdleLocal == Idle \in Local
  BY DEF Idle, Local

LEMMA SnapshotInSnap == ASSUME TypeOK PROVE Snapshot \in Snap /\ DOMAIN Snapshot = Submitted
  <1>1. \A s \in Submitted : /\ marks[s] \in Entry
                             /\ marks[s].status \in {"submitted", "locked"}
    BY DEF TypeOK, Submitted, NoEntry, Entry
  <1>2. \A s \in Submitted : [mark |-> marks[s].mark, grace |-> marks[s].grace,
                              status |-> marks[s].status] \in Row
    BY <1>1 DEF Entry, Row
  <1>3. Snapshot \in [Submitted -> Row]
    BY <1>2 DEF Snapshot
  <1>4. Submitted \in SUBSET Student
    BY DEF Submitted
  <1> QED BY <1>3, <1>4 DEF Snap

LEMMA SnapShape ==
    ASSUME NEW f \in Snap
    PROVE  /\ DOMAIN f \in SUBSET Student
           /\ \A s \in DOMAIN f : f[s] \in Row /\ Final(f[s]) \in Shown
  <1>1. PICK D \in SUBSET Student : f \in [D -> Row]
    BY DEF Snap
  <1>2. \A s \in D : f[s] \in Row /\ Final(f[s]) \in Shown
    BY <1>1 DEF Row, Shown, Final
  <1> QED BY <1>1, <1>2

(* A step in which a request goes on to l, and nothing is published.       *)
Sound(r, l) ==
    /\ l.pc \in Carrying => DOMAIN l.snap \subseteq Submitted
    /\ l.pc \in Revising => l.base \in 1..Len(pubs)
    /\ l.pc \in Revising \ {"revise_read"} =>
           /\ l.base < MaxRevisions
           /\ DOMAIN pubs[l.base].snap \subseteq DOMAIN l.snap
    /\ l.pc = "publish_store" => pubs = <<>> /\ MaxRevisions > 0
    /\ l.pc = "revise_store" => l.base = Len(pubs)
    /\ l.pc \in Storing => l.todo \subseteq DOMAIN l.snap
    /\ l.pc \in Storing => \A q \in Request \ {r} : txn[q].pc \notin Storing

LEMMA LocalStep ==
    ASSUME TypeOK, Rest, NEW r \in Request, NEW l, Sound(r, l),
           Submitted \subseteq Submitted',
           txn' = [txn EXCEPT ![r] = l],
           token' # NoToken => DOMAIN token'.snap \subseteq Submitted',
           UNCHANGED <<pubs, result>>
    PROVE  Rest'
  <1> USE DEF Rest
  <1>0. /\ txn'[r] = l
        /\ \A q \in Request \ {r} : txn'[q] = txn[q]
    BY DEF TypeOK
  <1>1. RevisionsLinear'
    BY DEF RevisionsLinear
  <1>2. ResultsOfCurrent'
    BY DEF ResultsOfCurrent
  <1>3. Covered'
    <2>1. \A q \in Request : txn'[q].pc \in Carrying => DOMAIN txn'[q].snap \subseteq Submitted'
      BY <1>0 DEF Covered, Sound
    <2>2. \A q \in Request :
             txn'[q].pc \in Storing => txn'[q].todo \subseteq DOMAIN txn'[q].snap
      BY <1>0 DEF Covered, Sound
    <2> QED BY <2>1, <2>2 DEF Covered
  <1>4. Based'
    BY <1>0 DEF Based, Sound
  <1>5. Alone'
    <2>1. \A q \in Request :
             /\ txn'[q].pc = "publish_store" => pubs = <<>> /\ MaxRevisions > 0
             /\ txn'[q].pc = "revise_store" => txn'[q].base = Len(pubs)
      BY <1>0 DEF Alone, Sound
    <2>2. \A p, q \in Request : txn'[p].pc \in Storing /\ txn'[q].pc \in Storing => p = q
      BY <1>0 DEF Alone, Sound
    <2> QED BY <2>1, <2>2 DEF Alone
  <1> QED BY <1>1, <1>2, <1>3, <1>4, <1>5

(* A request that ends, or goes on without a snapshot.                     *)
LEMMA QuietSound ==
    ASSUME NEW r, NEW l, l.pc \notin Carrying \cup Revising
    PROVE  Sound(r, l)
  BY DEF Sound, Carrying, Revising, Storing

LEMMA EndStep ==
    ASSUME TypeOK, Rest, NEW r \in Request, End(r),
           Submitted \subseteq Submitted',
           token' # NoToken => DOMAIN token'.snap \subseteq Submitted',
           UNCHANGED <<pubs, result>>
    PROVE  Rest'
  <1>1. Sound(r, Idle)
    BY QuietSound DEF Idle, Carrying, Revising
  <1> QED BY <1>1, LocalStep DEF End, Step

-----------------------------------------------------------------------------
(* The entries: every write keeps their type and never turns them back.    *)
Forward == \A s \in Student : Rank(marks[s].status) <= Rank(marks'[s].status)
MarksOK == marks \in [Student -> Entry \cup {NoEntry}]

LEMMA Ranked ==
    /\ \A e \in Entry : e.status \in {"draft", "submitted", "locked"} /\ Rank(e.status) \in 1..3
    /\ Rank(NoEntry.status) = 0
    /\ \A e \in Entry \cup {NoEntry} :
           e.status \in {"submitted", "locked"} <=> Rank(e.status) >= 2
  BY DEF Entry, NoEntry, Rank

LEMMA ForwardCovers ==
    ASSUME MarksOK, MarksOK', Forward
    PROVE  Submitted \subseteq Submitted'
  <1>1. ASSUME NEW s \in Submitted PROVE s \in Submitted'
    <2>1. s \in Student /\ marks[s] \in Entry \cup {NoEntry} /\ marks'[s] \in Entry \cup {NoEntry}
      BY DEF Submitted, MarksOK
    <2>2. Rank(marks[s].status) >= 2 /\ Rank(marks'[s].status) \in 0..3
             /\ Rank(marks[s].status) \in 0..3
      BY <2>1, Ranked DEF Submitted
    <2>3. Rank(marks'[s].status) >= 2
      BY <2>1, <2>2 DEF Forward
    <2> QED BY <2>1, <2>3, Ranked DEF Submitted
  <1> QED BY <1>1

LEMMA Unmoved == ASSUME MarksOK, UNCHANGED marks PROVE MarksOK' /\ Forward
  <1>1. \A s \in Student : Rank(marks[s].status) \in 0..3
    BY Ranked DEF MarksOK
  <1> QED BY <1>1 DEF MarksOK, Forward

(* What the three kinds of write leave of an entry.                        *)
LEMMA EditedShape ==
    ASSUME NEW m \in Entry, NEW x \in Mark, NEW v \in Nat \ {0}
    PROVE  Edited(m, x, v) \in Entry /\ Edited(m, x, v).status = m.status
  BY DEF Edited, Entry

LEMMA GrantedShape ==
    ASSUME NEW m \in Entry, NEW x \in Grace, NEW v \in Nat \ {0}
    PROVE  Granted(m, x, v) \in Entry /\ Granted(m, x, v).status = m.status
  BY DEF Granted, Entry

LEMMA MovedShape ==
    ASSUME NEW m \in Entry, NEW x \in {"submitted", "locked"}
    PROVE  Moved(m, x) \in Entry /\ Moved(m, x).status = x
  <1> DEFINE v == m.version + 1
  <1>1. v \in Nat \ {0}
    BY DEF Entry
  <1>2. Moved(m, x) = [m EXCEPT !.status = x, !.version = v]
    BY DEF Moved
  <1> HIDE DEF v
  <1> QED BY <1>1, <1>2 DEF Entry

(* One entry is written and keeps its status, or is created.               *)
LEMMA OneEntry ==
    ASSUME MarksOK, NEW s \in Student, NEW e \in Entry,
           marks[s] = NoEntry \/ e.status = marks[s].status,
           marks' = [marks EXCEPT ![s] = e]
    PROVE  MarksOK' /\ Forward
  <1>1. MarksOK'
    BY DEF MarksOK
  <1>2. \A u \in Student : Rank(marks[u].status) \in 0..3 /\ Rank(marks'[u].status) \in 0..3
    BY <1>1, Ranked DEF MarksOK
  <1>3. ASSUME NEW u \in Student PROVE Rank(marks[u].status) <= Rank(marks'[u].status)
    <2>1. CASE u # s
      BY <1>2, <2>1 DEF MarksOK
    <2>2. CASE u = s
      BY <1>2, <2>2, Ranked DEF MarksOK
    <2> QED BY <2>1, <2>2
  <1> QED BY <1>1, <1>3 DEF Forward

LEMMA SaveForward ==
    ASSUME TypeOK, Existing, NEW r \in Request, CommitSave(r)
    PROVE  MarksOK' /\ Forward
  <1> DEFINE t == txn[r]
  <1>0. MarksOK
    BY DEF TypeOK, MarksOK
  <1>1. t \in Local /\ t.pc = "save"
    BY DEF TypeOK, CommitSave
  <1>2. t.s \in Student /\ t.mark \in Mark /\ t.read \in Entry \cup {NoEntry}
    BY <1>1, LocalShape
  <1>3. CASE Create(r)
    <2>1. CASE marks[t.s] = NoEntry
      <3> DEFINE e == [mark |-> t.mark, grace |-> 0, status |-> "draft", version |-> 1]
      <3>1. e \in Entry
        BY <1>2, GraceAssumption DEF Entry
      <3>2. marks' = [marks EXCEPT ![t.s] = e]
        BY <1>3, <2>1 DEF Create
      <3> HIDE DEF e
      <3> QED BY <1>0, <1>2, <2>1, <3>1, <3>2, OneEntry
    <2>2. CASE marks[t.s] # NoEntry /\ marks[t.s].status = "draft"
      <3> DEFINE m == marks[t.s]
                 e == Edited(m, t.mark, m.version + 1)
      <3>1. m \in Entry /\ m.version + 1 \in Nat \ {0}
        BY <1>0, <1>2, <2>2 DEF MarksOK, Entry
      <3>2. e \in Entry /\ e.status = m.status
        BY <1>2, <3>1, EditedShape
      <3>3. marks' = [marks EXCEPT ![t.s] = e]
        BY <1>3, <2>2 DEF Create
      <3> HIDE DEF e
      <3> QED BY <1>0, <1>2, <3>2, <3>3, OneEntry
    <2>3. CASE marks[t.s] # NoEntry /\ marks[t.s].status # "draft"
      BY <1>0, <1>3, <2>3, Unmoved DEF Create
    <2> QED BY <2>1, <2>2, <2>3
  <1>4. CASE t.read # NoEntry /\ marks' = [marks EXCEPT ![t.s] = Saved(r)]
    <2> DEFINE m == marks[t.s]
               v == t.read.version + 1
               e == Edited(m, t.mark, v)
    <2>1. t.read \in Entry /\ m \in Entry
      BY <1>0, <1>1, <1>2, <1>4 DEF MarksOK, Existing
    <2>2. v \in Nat \ {0}
      BY <2>1 DEF Entry
    <2>3. marks' = [marks EXCEPT ![t.s] = e]
      BY <1>4 DEF Saved
    <2>4. e \in Entry /\ e.status = m.status
      BY <1>2, <2>1, <2>2, EditedShape
    <2> HIDE DEF e
    <2> QED BY <1>0, <1>2, <2>3, <2>4, OneEntry
  <1> QED BY <1>3, <1>4 DEF CommitSave

LEMMA PatchForward ==
    ASSUME TypeOK, NEW r \in Request, CommitPatch(r)
    PROVE  MarksOK' /\ Forward
  <1> DEFINE t == txn[r]  m == marks[t.s]
             e == Edited(m, t.mark, m.version + 1)
  <1>0. MarksOK
    BY DEF TypeOK, MarksOK
  <1>1. t.s \in Student /\ t.mark \in Mark
    BY LocalShape DEF TypeOK, CommitPatch
  <1>2. CASE m.status = "draft" /\ m.version = t.read.version
    <2>1. m \in Entry /\ m.version + 1 \in Nat \ {0}
      BY <1>0, <1>1, <1>2 DEF MarksOK, NoEntry, Entry
    <2>2. e \in Entry /\ e.status = m.status
      BY <1>1, <2>1, EditedShape
    <2>3. marks' = [marks EXCEPT ![t.s] = e]
      BY <1>2 DEF CommitPatch
    <2> HIDE DEF e
    <2> QED BY <1>0, <1>1, <2>2, <2>3, OneEntry
  <1>3. CASE ~(m.status = "draft" /\ m.version = t.read.version)
    BY <1>0, <1>3, Unmoved DEF CommitPatch
  <1> QED BY <1>2, <1>3

LEMMA GraceForward ==
    ASSUME TypeOK, Existing, NEW r \in Request, CommitGrace(r)
    PROVE  MarksOK' /\ Forward
  <1> DEFINE t == txn[r]  m == marks[t.s]
             e == Granted(m, t.grace, t.version)
  <1>0. MarksOK
    BY DEF TypeOK, MarksOK
  <1>1. t.s \in Student /\ t.grace \in Grace /\ t.version \in Nat \ {0}
    BY LocalShape DEF TypeOK, CommitGrace
  <1>2. m \in Entry
    BY <1>0, <1>1 DEF MarksOK, Existing, CommitGrace
  <1>3. e \in Entry /\ e.status = m.status
    BY <1>1, <1>2, GrantedShape
  <1>4. marks' = [marks EXCEPT ![t.s] = e]
    BY DEF CommitGrace
  <1> HIDE DEF e
  <1> QED BY <1>0, <1>1, <1>3, <1>4, OneEntry

(* An UPDATE of all entries with one status moves them to the next.        *)
LEMMA AllEntries ==
    ASSUME MarksOK, NEW S \in SUBSET Student, NEW from, NEW to,
           \/ from = "draft" /\ to = "submitted"
           \/ from = "submitted" /\ to = "locked",
           \A s \in S : marks[s].status = from,
           marks' = [s \in Student |->
                        IF s \in S THEN Moved(marks[s], to) ELSE marks[s]]
    PROVE  MarksOK' /\ Forward
  <1>1. ASSUME NEW u \in Student
        PROVE  /\ marks'[u] \in Entry \cup {NoEntry}
               /\ Rank(marks[u].status) <= Rank(marks'[u].status)
    <2>1. CASE u \in S
      <3>1. marks[u] \in Entry /\ marks[u].status = from
        BY <2>1 DEF MarksOK, NoEntry
      <3>2. marks'[u] = Moved(marks[u], to)
        BY <2>1
      <3>3. Moved(marks[u], to) \in Entry /\ Moved(marks[u], to).status = to
        BY <3>1, MovedShape
      <3>4. Rank(from) <= Rank(to)
        BY DEF Rank
      <3> QED BY <3>1, <3>2, <3>3, <3>4
    <2>2. CASE u \notin S
      <3>1. marks'[u] = marks[u] /\ Rank(marks[u].status) \in 0..3
        BY <2>2, Ranked DEF MarksOK
      <3> QED BY <3>1 DEF MarksOK
    <2> QED BY <2>1, <2>2
  <1>2. marks' \in [Student -> Entry \cup {NoEntry}]
    BY <1>1
  <1> QED BY <1>1, <1>2 DEF MarksOK, Forward

LEMMA SubmitForward == ASSUME TypeOK, Submit PROVE MarksOK' /\ Forward
  <1>1. MarksOK /\ Drafts \in SUBSET Student /\ \A s \in Drafts : marks[s].status = "draft"
    BY DEF TypeOK, MarksOK, Drafts
  <1> QED BY <1>1, AllEntries DEF Submit

LEMMA LockForward ==
    ASSUME TypeOK, NEW r \in Request, CommitPublish(r)
    PROVE  MarksOK' /\ Forward
  <1> DEFINE S == {s \in Student : marks[s].status = "submitted"}
  <1>1. MarksOK /\ S \in SUBSET Student /\ \A s \in S : marks[s].status = "submitted"
    BY DEF TypeOK, MarksOK
  <1>2. marks' = [s \in Student |->
                     IF s \in S THEN Moved(marks[s], "locked") ELSE marks[s]]
    BY DEF CommitPublish
  <1> HIDE DEF S
  <1> QED BY <1>1, <1>2, AllEntries

-----------------------------------------------------------------------------
(* Steps that publish nothing.                                             *)
TokenOK == token \in [by : Request \cup {"client"}, snap : Snap] \cup {NoToken}
CardOK  == card \in [Student -> Shown \cup {NoCard}]
Finds(l) == l.pc = "grace" \/ (l.pc = "save" /\ l.read # NoEntry) => marks[l.s] # NoEntry

LEMMA Goes ==
    ASSUME IInv, NEW r \in Request, NEW l \in Local, Step(r, l), Sound(r, l), Finds(l),
           TokenOK', CardOK', token' # NoToken => DOMAIN token'.snap \subseteq Submitted,
           UNCHANGED <<marks, exam, pubs, result>>
    PROVE  IInv'
  <1>1. TypeOK'
    BY DEF IInv, TypeOK, Step, TokenOK, CardOK
  <1>2. Existing'
    <2>1. txn'[r] = l /\ \A q \in Request \ {r} : txn'[q] = txn[q]
      BY DEF IInv, TypeOK, Step
    <2> QED BY <2>1 DEF IInv, Existing, Finds
  <1>3. Submitted' = Submitted
    BY DEF Submitted
  <1>4. Rest'
    BY <1>3, LocalStep DEF IInv, Step
  <1> QED BY <1>1, <1>2, <1>4 DEF IInv

LEMMA Kept ==
    ASSUME IInv, UNCHANGED <<token, card>>
    PROVE  TokenOK' /\ CardOK' /\ (token' # NoToken => DOMAIN token'.snap \subseteq Submitted)
  BY DEF IInv, TypeOK, TokenOK, CardOK, Rest, Covered

LEMMA EndGoes ==
    ASSUME IInv, NEW r \in Request, End(r), UNCHANGED <<marks, exam, pubs, result, card>>,
           token' \in {token, NoToken}
    PROVE  IInv'
  <1>1. Idle \in Local /\ Finds(Idle) /\ Sound(r, Idle)
    BY IdleLocal, QuietSound DEF Idle, Finds, Carrying, Revising
  <1>2. TokenOK' /\ CardOK' /\ (token' # NoToken => DOMAIN token'.snap \subseteq Submitted)
    BY DEF IInv, TypeOK, TokenOK, CardOK, Rest, Covered
  <1> QED BY <1>1, <1>2, Goes DEF End

(* A write of an entry, the end of its request.                            *)
LEMMA Writes ==
    ASSUME IInv, MarksOK', Forward, UNCHANGED <<exam, pubs, result, card, token>>,
           txn' = txn \/ \E r \in Request : End(r)
    PROVE  IInv'
  <1>0. Submitted \subseteq Submitted' /\ MarksOK
    BY ForwardCovers DEF IInv, TypeOK, MarksOK
  <1>1. TypeOK'
    BY IdleLocal DEF IInv, TypeOK, MarksOK, End, Step
  <1>2. Existing'
    <2>1. ASSUME NEW s \in Student, marks[s] # NoEntry PROVE marks'[s] # NoEntry
      <3>1. marks[s] \in Entry
        BY <1>0, <2>1 DEF MarksOK
      <3>2. Rank(marks'[s].status) \in 1..3
        <4>1. marks'[s] \in Entry \cup {NoEntry}
          BY DEF MarksOK
        <4> QED BY <3>1, <4>1, Ranked DEF Forward
      <3> QED BY <3>2, Ranked
    <2>2. ASSUME NEW q \in Request,
                 txn[q].pc = "grace" \/ (txn[q].pc = "save" /\ txn[q].read # NoEntry)
          PROVE  txn[q].s \in Student /\ marks[txn[q].s] # NoEntry
      BY <2>2, LocalShape DEF IInv, TypeOK, Existing
    <2>3. \A q \in Request : txn'[q] = txn[q] \/ txn'[q] = Idle
      BY DEF IInv, TypeOK, End, Step
    <2> QED BY <2>1, <2>2, <2>3 DEF Existing, Idle
  <1>3. Rest'
    <2>1. token' # NoToken => DOMAIN token'.snap \subseteq Submitted'
      BY <1>0 DEF IInv, Rest, Covered
    <2>2. CASE txn' = txn
      <3>1. RevisionsLinear' /\ ResultsOfCurrent'
        BY DEF IInv, Rest, RevisionsLinear, ResultsOfCurrent
      <3>2. Covered'
        BY <1>0, <2>2 DEF IInv, Rest, Covered
      <3>3. Based' /\ Alone'
        BY <2>2 DEF IInv, Rest, Based, Alone
      <3> QED BY <3>1, <3>2, <3>3 DEF Rest
    <2>3. CASE \E r \in Request : End(r)
      BY <1>0, <2>1, <2>3, EndStep DEF IInv
    <2> QED BY <2>2, <2>3
  <1> QED BY <1>1, <1>2, <1>3 DEF IInv

LEMMA EntrySteps ==
    ASSUME IInv, NEW r \in Request,
           \/ BeginSave(r)  \/ CommitSave(r)
           \/ BeginPatch(r) \/ CommitPatch(r)
           \/ BeginGrace(r) \/ ReadGrace(r)   \/ CommitGrace(r)
    PROVE  IInv' /\ Forward
  <1>0. TypeOK /\ Existing /\ MarksOK
    BY DEF IInv, TypeOK, MarksOK
  <1>1. CASE BeginSave(r)
    <2>1. PICK s \in Student, m \in Mark :
             Step(r, [pc |-> "save", s |-> s, mark |-> m, read |-> marks[s]])
      BY <1>1 DEF BeginSave
    <2> DEFINE l == [pc |-> "save", s |-> s, mark |-> m, read |-> marks[s]]
    <2>2. l \in Local /\ Finds(l) /\ l.pc = "save"
      BY <1>0 DEF Local, Finds, MarksOK
    <2>3. Sound(r, l)
      BY <2>2, QuietSound DEF Carrying, Revising
    <2> HIDE DEF l
    <2> QED BY <1>0, <1>1, <2>1, <2>2, <2>3, Goes, Kept, Unmoved DEF BeginSave, l
  <1>2. CASE BeginPatch(r)
    <2>1. PICK s \in Student, m \in Mark :
             Step(r, [pc |-> "patch", s |-> s, mark |-> m, read |-> marks[s]])
      BY <1>2 DEF BeginPatch, Drafts
    <2> DEFINE l == [pc |-> "patch", s |-> s, mark |-> m, read |-> marks[s]]
    <2>2. l \in Local /\ Finds(l) /\ l.pc = "patch"
      BY <1>0 DEF Local, Finds, MarksOK
    <2>3. Sound(r, l)
      BY <2>2, QuietSound DEF Carrying, Revising
    <2> HIDE DEF l
    <2> QED BY <1>0, <1>2, <2>1, <2>2, <2>3, Goes, Kept, Unmoved DEF BeginPatch, l
  <1>3. CASE BeginGrace(r)
    <2> DEFINE l == [pc |-> "grace_read"]
    <2>1. l \in Local /\ Finds(l) /\ Sound(r, l)
      BY QuietSound DEF Local, Finds, Carrying, Revising
    <2> QED BY <1>0, <1>3, <2>1, Goes, Kept, Unmoved DEF BeginGrace
  <1>4. CASE ReadGrace(r)
    <2>1. PICK s \in Student, g \in Grace :
             /\ marks[s] # NoEntry
             /\ Step(r, [pc |-> "grace", s |-> s, grace |-> g,
                         version |-> marks[s].version + 1])
      BY <1>4 DEF ReadGrace
    <2> DEFINE v == marks[s].version + 1
               l == [pc |-> "grace", s |-> s, grace |-> g, version |-> v]
    <2>2. v \in Nat \ {0}
      BY <1>0, <2>1 DEF MarksOK, Entry
    <2>3. l \in Local /\ Finds(l) /\ l.pc = "grace" /\ Step(r, l)
      BY <2>1, <2>2 DEF Local, Finds
    <2>4. Sound(r, l)
      BY <2>3, QuietSound DEF Carrying, Revising
    <2> HIDE DEF l
    <2> QED BY <1>0, <1>4, <2>3, <2>4, Goes, Kept, Unmoved DEF ReadGrace
  <1>5. CASE CommitSave(r)
    BY <1>0, <1>5, SaveForward, Writes DEF CommitSave
  <1>6. CASE CommitPatch(r)
    BY <1>0, <1>6, PatchForward, Writes DEF CommitPatch
  <1>7. CASE CommitGrace(r)
    BY <1>0, <1>7, GraceForward, Writes DEF CommitGrace
  <1> QED BY <1>1, <1>2, <1>3, <1>4, <1>5, <1>6, <1>7

LEMMA SubmitStep == ASSUME IInv, Submit PROVE IInv' /\ Forward
  BY SubmitForward, Writes DEF IInv, Submit

-----------------------------------------------------------------------------
(* Computing, and the steps of a publication or revision up to its commit. *)
LEMMA ComputeSteps ==
    ASSUME IInv, NEW r \in Request,
           BeginCompute(r) \/ ComputeRead(r) \/ ComputeCache(r) \/ CommitCompute(r)
    PROVE  IInv'
  <1>1. CASE BeginCompute(r)
    <2> DEFINE l == [pc |-> "compute_read"]
    <2>1. l \in Local /\ Finds(l) /\ Sound(r, l)
      BY QuietSound DEF Local, Finds, Carrying, Revising
    <2> QED BY <1>1, <2>1, Goes, Kept DEF BeginCompute
  <1>2. CASE ComputeRead(r)
    <2>1. CASE End(r)
      BY <1>2, <2>1, EndGoes DEF ComputeRead
    <2>2. CASE Step(r, [pc |-> "compute_cache", snap |-> Snapshot])
      <3> DEFINE l == [pc |-> "compute_cache", snap |-> Snapshot]
      <3>1. l \in Local /\ Finds(l) /\ Sound(r, l)
        BY SnapshotInSnap DEF IInv, Local, Finds, Sound, Revising, Storing
      <3> HIDE DEF l
      <3> QED BY <1>2, <2>2, <3>1, Goes, Kept DEF ComputeRead, l
    <2> QED BY <1>2, <2>1, <2>2 DEF ComputeRead
  <1>3. CASE ComputeCache(r)
    <2> DEFINE l == [pc |-> "compute_save"]
    <2>1. l \in Local /\ Finds(l) /\ Sound(r, l)
      BY QuietSound DEF Local, Finds, Carrying, Revising
    <2>2. txn[r].pc \in Carrying /\ txn[r].snap \in Snap
      BY <1>3, LocalShape DEF IInv, TypeOK, ComputeCache, Carrying
    <2>3. TokenOK' /\ (token' # NoToken => DOMAIN token'.snap \subseteq Submitted)
      BY <1>3, <2>2 DEF ComputeCache, TokenOK, IInv, Rest, Covered
    <2>4. CardOK'
      BY <1>3 DEF ComputeCache, CardOK, IInv, TypeOK
    <2> QED BY <1>3, <2>1, <2>3, <2>4, Goes DEF ComputeCache
  <1>4. CASE CommitCompute(r)
    <2>1. token' = token
             \/ (token # NoToken /\ token' = [by |-> "client", snap |-> token.snap])
      <3>1. token.by = r => token # NoToken /\ token \in [by : Request \cup {"client"}, snap : Snap]
        BY RequestAssumption DEF NoToken, IInv, TypeOK
      <3> QED BY <1>4, <3>1 DEF CommitCompute
    <2>2. TokenOK' /\ (token' # NoToken => DOMAIN token'.snap \subseteq Submitted)
      BY <2>1 DEF TokenOK, IInv, TypeOK, Rest, Covered
    <2>3. TypeOK'
      BY <1>4, <2>2, IdleLocal DEF CommitCompute, IInv, TypeOK, TokenOK, End, Step
    <2>4. Existing'
      BY <1>4 DEF CommitCompute, IInv, TypeOK, Existing, End, Step, Idle
    <2>5. Submitted' = Submitted
      BY <1>4 DEF CommitCompute, Submitted
    <2>6. Rest'
      BY <1>4, <2>2, <2>5, EndStep DEF CommitCompute, IInv
    <2> QED BY <2>3, <2>4, <2>6 DEF IInv
  <1> QED BY <1>1, <1>2, <1>3, <1>4

LEMMA PublishSteps ==
    ASSUME IInv, NEW r \in Request,
           BeginPublish(r) \/ PublishLock(r) \/ PublishRead(r) \/ PublishInsert(r)
    PROVE  IInv'
  <1> DEFINE t == txn[r]
  <1>0. t \in Local /\ (t.pc \in Carrying => t.snap \in Snap /\ DOMAIN t.snap \subseteq Submitted)
    BY LocalShape DEF IInv, TypeOK, Rest, Covered
  <1>1. CASE BeginPublish(r)
    <2> DEFINE l == [pc |-> "publish_lock", snap |-> token.snap]
    <2>1. token.snap \in Snap /\ DOMAIN token.snap \subseteq Submitted
      BY <1>1 DEF BeginPublish, IInv, TypeOK, NoToken, Rest, Covered
    <2>2. l \in Local /\ Finds(l) /\ Sound(r, l)
      BY <2>1 DEF Local, Finds, Sound, Revising, Storing
    <2> QED BY <1>1, <2>2, Goes, Kept DEF BeginPublish
  <1>2. ASSUME t.pc \in {"publish_lock", "publish_read"}, NEW pc \in {"publish_read", "publish_insert"},
               Step(r, [t EXCEPT !.pc = pc]), UNCHANGED <<marks, exam, pubs, result, card, token>>
        PROVE  IInv'
    <2> DEFINE l == [t EXCEPT !.pc = pc]
    <2>1. t \in [pc : {"publish_lock", "publish_read"}, snap : Snap]
      BY <1>0, <1>2 DEF Local
    <2>2. l \in Local /\ l.pc = pc /\ l.snap = t.snap
      BY <2>1 DEF Local
    <2>3. Finds(l) /\ Sound(r, l)
      BY <1>0, <1>2, <2>2 DEF Finds, Sound, Revising, Storing, Carrying
    <2> HIDE DEF l
    <2> QED BY <1>2, <2>2, <2>3, Goes, Kept DEF l
  <1>3. CASE PublishLock(r)
    BY <1>2, <1>3 DEF PublishLock
  <1>4. CASE PublishRead(r)
    BY <1>2, <1>4, EndGoes DEF PublishRead
  <1>5. CASE PublishInsert(r)
    <2>1. CASE Insertable
      <3> DEFINE l == [pc |-> "publish_store", snap |-> t.snap, todo |-> DOMAIN t.snap]
      <3>1. pubs = <<>>
        <4>1. pubs \in Seq(Pub) /\ (Len(pubs) > 0 => pubs[Len(pubs)].current)
          BY DEF IInv, TypeOK, Rest, RevisionsLinear
        <4>2. Len(pubs) = 0
          BY <2>1, <4>1 DEF Insertable, CurrentPubs
        <4> QED BY <4>1, <4>2
      <3>2. t.snap \in Snap /\ DOMAIN t.snap \subseteq Submitted /\ DOMAIN t.snap \in SUBSET Student
        BY <1>0, <1>5, SnapShape DEF PublishInsert, Carrying
      <3>3. l \in Local /\ Finds(l)
        BY <3>2 DEF Local, Finds
      <3>4. \A q \in Request \ {r} : txn[q].pc \notin Storing
        BY <1>5 DEF PublishInsert, IndexFree, Storing
      <3>5. Sound(r, l)
        BY <1>5, <3>1, <3>2, <3>4, BoundAssumption DEF PublishInsert, Sound, Revising
      <3>6. Step(r, l)
        BY <1>5, <2>1 DEF PublishInsert
      <3> HIDE DEF l
      <3> QED BY <1>5, <3>3, <3>5, <3>6, Goes, Kept DEF PublishInsert
    <2>2. CASE ~Insertable
      BY <1>5, <2>2, EndGoes DEF PublishInsert
    <2> QED BY <2>1, <2>2
  <1> QED BY <1>1, <1>3, <1>4, <1>5

LEMMA StoreStep == ASSUME IInv, NEW r \in Request, StoreCard(r) PROVE IInv'
  <1> DEFINE t == txn[r]
  <1>1. PICK s \in t.todo :
           /\ card' = [card EXCEPT ![s] = Final(t.snap[s])]
           /\ Step(r, [t EXCEPT !.todo = @ \ {s}])
    BY DEF StoreCard
  <1> DEFINE l == [t EXCEPT !.todo = @ \ {s}]
  <1>2. t \in Local /\ t.pc \in {"publish_store", "revise_store"}
    BY DEF IInv, TypeOK, StoreCard
  <1>3. /\ l \in Local /\ l.pc = t.pc /\ l.snap = t.snap
        /\ l.todo \subseteq t.todo
        /\ t.pc = "revise_store" => l.base = t.base
    BY <1>2 DEF Local
  <1>4. Sound(r, l) /\ Finds(l)
    BY <1>2, <1>3 DEF Sound, Finds, IInv, Rest, Covered, Based, Alone, Carrying, Revising, Storing
  <1>5. TokenOK' /\ (token' # NoToken => DOMAIN token'.snap \subseteq Submitted)
    BY DEF StoreCard, IInv, TypeOK, TokenOK, Rest, Covered
  <1>6. CardOK'
    <2>1. s \in Student
      BY <1>1, <1>2, LocalShape DEF Storing
    <2>2. s \in DOMAIN t.snap
      BY <1>1, <1>2 DEF IInv, Rest, Covered, Storing
    <2> QED BY <1>1, <1>2, <2>1, <2>2, LocalShape, SnapShape DEF CardOK, IInv, TypeOK, Carrying
  <1> HIDE DEF l
  <1> QED BY <1>1, <1>3, <1>4, <1>5, <1>6, Goes DEF StoreCard, l

-----------------------------------------------------------------------------
(* Commits: what is appended extends the chain, and every result moves.    *)
LEMMA ResultsType ==
    ASSUME TypeOK, NEW f \in Snap, NEW n \in 1..MaxRevisions
    PROVE  ResultsOf(f, n) \in [Student -> [pub : 1..MaxRevisions, shown : Shown] \cup {NoResult}]
  <1>1. \A s \in DOMAIN f : Final(f[s]) \in Shown
    BY SnapShape
  <1>2. ASSUME NEW s \in Student
        PROVE  (IF s \in DOMAIN f THEN [pub |-> n, shown |-> Final(f[s])] ELSE result[s])
                   \in [pub : 1..MaxRevisions, shown : Shown] \cup {NoResult}
    BY <1>1 DEF TypeOK
  <1> QED BY <1>2 DEF ResultsOf

LEMMA PublishCommit == ASSUME IInv, NEW r \in Request, CommitPublish(r) PROVE IInv' /\ Forward
  <1> DEFINE t == txn[r]
             p == [no |-> 1, parent |-> 0, current |-> TRUE, snap |-> t.snap]
  <1>0. /\ TypeOK /\ t \in Local /\ t.pc = "publish_store" /\ t.snap \in Snap
        /\ pubs = <<>> /\ MaxRevisions > 0 /\ MaxRevisions \in Nat
        /\ DOMAIN t.snap \subseteq Submitted
    BY LocalShape, BoundAssumption
    DEF IInv, TypeOK, Rest, Covered, Alone, CommitPublish, Carrying
  <1>1. MarksOK' /\ Forward /\ Submitted \subseteq Submitted'
    BY <1>0, LockForward, ForwardCovers DEF MarksOK, TypeOK
  <1>2. p \in Pub
    BY <1>0 DEF Pub
  <1>3. pubs' = <<p>> /\ pubs' \in Seq(Pub) /\ Len(pubs') = 1 /\ pubs'[1] = p
    BY <1>0, <1>2 DEF CommitPublish
  <1>4. result' = ResultsOf(t.snap, 1)
    BY <1>0 DEF CommitPublish
  <1>5. /\ txn'[r] = Idle
        /\ \A q \in Request \ {r} : txn'[q] = txn[q]
    BY <1>0 DEF TypeOK, CommitPublish, End, Step
  <1>6. \A q \in Request : txn[q].pc \notin Revising /\ (q # r => txn[q].pc \notin Storing)
    BY <1>0 DEF IInv, Rest, Based, Alone, CommitPublish, Storing
  <1>7. TypeOK'
    <2>1. ResultsOf(t.snap, 1) \in [Student -> [pub : 1..MaxRevisions, shown : Shown] \cup {NoResult}]
      BY <1>0, ResultsType
    <2>2. txn' \in [Request -> Local]
      BY <1>0, IdleLocal DEF TypeOK, CommitPublish, End, Step
    <2> QED BY <1>0, <1>1, <1>3, <1>4, <2>1, <2>2 DEF TypeOK, MarksOK, CommitPublish
  <1>8. Existing'
    <2>1. ASSUME NEW s \in Student, marks[s] # NoEntry PROVE marks'[s] # NoEntry
      <3>1. marks[s] \in Entry /\ marks'[s] \in Entry \cup {NoEntry}
        BY <1>0, <1>1, <2>1 DEF MarksOK, TypeOK
      <3>2. Rank(marks'[s].status) \in 1..3
        BY <3>1, <1>1, Ranked DEF Forward
      <3> QED BY <3>2, Ranked
    <2>2. ASSUME NEW q \in Request,
                 txn[q].pc = "grace" \/ (txn[q].pc = "save" /\ txn[q].read # NoEntry)
          PROVE  txn[q].s \in Student /\ marks[txn[q].s] # NoEntry
      BY <2>2, LocalShape DEF IInv, TypeOK, Existing
    <2> QED BY <1>5, <2>1, <2>2 DEF Existing, Idle
  <1>9. RevisionsLinear'
    BY <1>3 DEF RevisionsLinear
  <1>10. ResultsOfCurrent'
    BY <1>0, <1>3, <1>4 DEF IInv, Rest, ResultsOfCurrent, ResultsOf
  <1>11. Covered'
    <2>1. token' = NoToken
      BY DEF CommitPublish
    <2> QED BY <1>0, <1>1, <1>3, <1>5, <2>1 DEF IInv, Rest, Covered, Idle, Carrying, Storing
  <1>12. Based' /\ Alone'
    BY <1>5, <1>6 DEF Based, Alone, Idle, Revising, Storing
  <1> QED BY <1>1, <1>7, <1>8, <1>9, <1>10, <1>11, <1>12 DEF IInv, Rest

(* The chain after a revision: the base is no longer current, the rest is  *)
(* as before, and the new publication follows it.                          *)
LEMMA Superseded ==
    ASSUME pubs \in Seq(Pub), Len(pubs) \in Nat \ {0}, NEW p \in Pub,
           pubs' = Append([pubs EXCEPT ![Len(pubs)].current = FALSE], p)
    PROVE  /\ pubs' \in Seq(Pub)
           /\ Len(pubs') = Len(pubs) + 1
           /\ pubs'[Len(pubs) + 1] = p
           /\ \A i \in 1..Len(pubs) :
                  /\ pubs'[i].no = pubs[i].no
                  /\ pubs'[i].parent = pubs[i].parent
                  /\ pubs'[i].snap = pubs[i].snap
                  /\ i < Len(pubs) => pubs'[i].current = pubs[i].current
                  /\ i = Len(pubs) => pubs'[i].current = FALSE
  <1> DEFINE n == Len(pubs)
             last == [pubs[n] EXCEPT !.current = FALSE]
             old == [pubs EXCEPT ![n] = last]
  <1>1. pubs[n] \in Pub
    OBVIOUS
  <1>2. /\ last \in Pub /\ last.no = pubs[n].no /\ last.parent = pubs[n].parent
        /\ last.snap = pubs[n].snap /\ last.current = FALSE
    BY <1>1 DEF Pub
  <1> HIDE DEF last
  <1>3. old \in Seq(Pub) /\ Len(old) = n /\ old[n] = last
        /\ \A i \in 1..n : i # n => old[i] = pubs[i]
    BY <1>2, ExceptSeq
  <1>4. pubs' = Append(old, p)
    BY DEF last
  <1> HIDE DEF old
  <1>5. /\ pubs' \in Seq(Pub) /\ Len(pubs') = n + 1 /\ pubs'[n + 1] = p
        /\ \A i \in 1..n : pubs'[i] = old[i]
    <2> DEFINE new == Append(old, p)
    <2>1. /\ new \in Seq(Pub) /\ Len(new) = n + 1 /\ new[n + 1] = p
          /\ \A i \in 1..n : new[i] = old[i]
      BY <1>3, AppendProperties
    <2>2. pubs' = new
      BY <1>4
    <2> HIDE DEF new
    <2> QED BY <2>1, <2>2
  <1>6. ASSUME NEW i \in 1..n
        PROVE  /\ pubs'[i].no = pubs[i].no
               /\ pubs'[i].parent = pubs[i].parent
               /\ pubs'[i].snap = pubs[i].snap
               /\ i < n => pubs'[i].current = pubs[i].current
               /\ i = n => pubs'[i].current = FALSE
    <2>1. CASE i = n
      <3>1. pubs'[i] = last /\ pubs[i] = pubs[n]
        BY <1>3, <1>5, <2>1
      <3>2. /\ pubs'[i].no = pubs[i].no
            /\ pubs'[i].parent = pubs[i].parent
            /\ pubs'[i].snap = pubs[i].snap
        BY <1>2, <3>1
      <3>3. pubs'[i].current = FALSE
        BY <1>2, <3>1
      <3>4. ~(i < n)
        BY <2>1
      <3> QED BY <3>2, <3>3, <3>4, Zenon
    <2>2. CASE i # n
      BY <1>3, <1>5, <2>2
    <2> QED BY <2>1, <2>2
  <1> QED BY <1>5, <1>6

LEMMA ReviseSteps ==
    ASSUME IInv, NEW r \in Request, BeginRevise(r) \/ ReviseRead(r) \/ ReviseInsert(r)
    PROVE  IInv'
  <1> DEFINE t == txn[r]
  <1>0. /\ TypeOK /\ t \in Local /\ Len(pubs) \in Nat /\ Len(pubs) <= MaxRevisions
        /\ MaxRevisions \in Nat
    BY BoundAssumption DEF IInv, TypeOK
  <1>1. CASE BeginRevise(r)
    <2>1. PICK i \in CurrentPubs : Step(r, [pc |-> "revise_read", base |-> i])
      BY <1>1 DEF BeginRevise
    <2> DEFINE l == [pc |-> "revise_read", base |-> i]
    <2>2. i \in 1..Len(pubs) /\ i \in 1..MaxRevisions
      BY <1>0 DEF CurrentPubs
    <2>3. l \in Local /\ Finds(l) /\ Sound(r, l)
      BY <2>2 DEF Local, Finds, Sound, Carrying, Storing
    <2> HIDE DEF l
    <2> QED BY <1>1, <2>1, <2>3, Goes, Kept DEF BeginRevise, l
  <1>2. CASE ReviseRead(r)
    <2> DEFINE l == [pc |-> "revise_insert", base |-> t.base, snap |-> Snapshot]
    <2>1. t.base \in 1..Len(pubs) /\ t.base \in 1..MaxRevisions /\ t.base < MaxRevisions
      BY <1>0, <1>2 DEF ReviseRead, IInv, Rest, Based, Revising
    <2>2. DOMAIN pubs[t.base].snap \subseteq Submitted
      BY <2>1 DEF IInv, Rest, Covered
    <2>3. l \in Local /\ Finds(l) /\ Sound(r, l)
      BY <1>0, <2>1, <2>2, SnapshotInSnap DEF Local, Finds, Sound, Storing
    <2> HIDE DEF l
    <2> QED BY <1>2, <2>3, Goes, Kept DEF ReviseRead, l
  <1>3. CASE ReviseInsert(r)
    <2>1. CASE CurrentPubs \subseteq {t.base}
      <3> DEFINE l == [pc |-> "revise_store", base |-> t.base, snap |-> t.snap,
                       todo |-> DOMAIN t.snap]
      <3>1. /\ t.base \in 1..Len(pubs) /\ t.base \in 1..MaxRevisions /\ t.base < MaxRevisions
            /\ DOMAIN pubs[t.base].snap \subseteq DOMAIN t.snap
            /\ t.snap \in Snap /\ DOMAIN t.snap \subseteq Submitted
        BY <1>0, <1>3, LocalShape
        DEF ReviseInsert, IInv, Rest, Based, Covered, Revising, Carrying
      <3>2. t.base = Len(pubs)
        <4>1. Len(pubs) \in CurrentPubs
          BY <1>0, <3>1 DEF CurrentPubs, IInv, Rest, RevisionsLinear
        <4> QED BY <2>1, <4>1
      <3>3. \A q \in Request \ {r} : txn[q].pc \notin Storing
        BY <1>3 DEF ReviseInsert, IndexFree, Storing
      <3>4. DOMAIN t.snap \in SUBSET Student
        BY <3>1, SnapShape
      <3>5. l \in Local /\ Finds(l) /\ Sound(r, l)
        BY <3>1, <3>2, <3>3, <3>4 DEF Local, Finds, Sound
      <3>6. Step(r, l)
        BY <1>3, <2>1 DEF ReviseInsert
      <3> HIDE DEF l
      <3> QED BY <1>3, <3>5, <3>6, Goes, Kept DEF ReviseInsert
    <2>2. CASE ~(CurrentPubs \subseteq {t.base})
      BY <1>3, <2>2, EndGoes DEF ReviseInsert
    <2> QED BY <2>1, <2>2
  <1> QED BY <1>1, <1>2, <1>3

LEMMA ReviseCommit == ASSUME IInv, NEW r \in Request, CommitRevise(r) PROVE IInv'
  <1> DEFINE t == txn[r]
             n == Len(pubs)
             p == [no |-> pubs[t.base].no + 1, parent |-> t.base,
                   current |-> TRUE, snap |-> t.snap]
  <1>0. /\ TypeOK /\ t \in Local /\ t.pc = "revise_store" /\ t.snap \in Snap
        /\ pubs \in Seq(Pub) /\ n \in Nat \ {0} /\ n < MaxRevisions /\ MaxRevisions \in Nat
        /\ t.base = n /\ DOMAIN pubs[n].snap \subseteq DOMAIN t.snap
        /\ DOMAIN t.snap \subseteq Submitted /\ pubs[n].no = n
    BY LocalShape, BoundAssumption
    DEF IInv, TypeOK, Rest, RevisionsLinear, Covered, Based, Alone, CommitRevise,
        Carrying, Revising
  <1>1. p \in Pub
    BY <1>0 DEF Pub
  <1>2. pubs' = Append([pubs EXCEPT ![n].current = FALSE], p)
    BY <1>0 DEF CommitRevise
  <1>3. /\ pubs' \in Seq(Pub) /\ Len(pubs') = n + 1 /\ pubs'[n + 1] = p
        /\ \A i \in 1..n :
               /\ pubs'[i].no = pubs[i].no
               /\ pubs'[i].parent = pubs[i].parent
               /\ pubs'[i].snap = pubs[i].snap
               /\ i < n => pubs'[i].current = pubs[i].current
               /\ i = n => pubs'[i].current = FALSE
    <2> HIDE DEF p
    <2> QED BY <1>0, <1>1, <1>2, Superseded
  <1>4. result' = ResultsOf(t.snap, n + 1)
    BY DEF CommitRevise
  <1>5. /\ txn'[r] = Idle
        /\ \A q \in Request \ {r} : txn'[q] = txn[q]
    BY <1>0 DEF TypeOK, CommitRevise, End, Step
  <1>6. Submitted' = Submitted
    BY DEF CommitRevise, Submitted
  <1>7. TypeOK'
    <2>1. ResultsOf(t.snap, n + 1) \in
              [Student -> [pub : 1..MaxRevisions, shown : Shown] \cup {NoResult}]
      BY <1>0, ResultsType
    <2>2. txn' \in [Request -> Local]
      BY <1>0, IdleLocal DEF TypeOK, CommitRevise, End, Step
    <2> QED BY <1>0, <1>3, <1>4, <2>1, <2>2 DEF TypeOK, CommitRevise
  <1>8. Existing'
    BY <1>5 DEF IInv, Existing, CommitRevise, Idle
  <1>9. RevisionsLinear'
    <2>1. ASSUME NEW i \in 1..Len(pubs')
          PROVE  /\ pubs'[i].no = i
                 /\ pubs'[i].parent = i - 1
                 /\ pubs'[i].current <=> i = Len(pubs')
      <3>1. CASE i = n + 1
        BY <1>0, <1>3, <3>1
      <3>2. CASE i \in 1..n
        <4>1. pubs[i].no = i /\ pubs[i].parent = i - 1 /\ (pubs[i].current <=> i = n)
          BY <3>2 DEF IInv, Rest, RevisionsLinear
        <4>2. i # Len(pubs') /\ pubs'[i].no = i /\ pubs'[i].parent = i - 1
          BY <1>0, <1>3, <3>2, <4>1
        <4>3. ~pubs'[i].current
          BY <1>0, <1>3, <3>2, <4>1
        <4> QED BY <4>2, <4>3
      <3> QED BY <1>0, <1>3, <3>1, <3>2
    <2> QED BY <2>1 DEF RevisionsLinear
  <1>10. ResultsOfCurrent'
    <2>1. \A s \in Student :
             result[s] = IF s \in DOMAIN pubs[n].snap
                         THEN [pub |-> n, shown |-> Final(pubs[n].snap[s])] ELSE NoResult
      BY <1>0 DEF IInv, Rest, ResultsOfCurrent
    <2>2. pubs' # <<>> /\ pubs'[Len(pubs')].snap = t.snap /\ Len(pubs') = n + 1
      BY <1>0, <1>3
    <2>3. \A s \in Student :
             result'[s] = IF s \in DOMAIN t.snap
                          THEN [pub |-> n + 1, shown |-> Final(t.snap[s])] ELSE NoResult
      BY <1>0, <1>4, <2>1 DEF ResultsOf
    <2> QED BY <2>2, <2>3 DEF ResultsOfCurrent, Final
  <1>11. Covered'
    <2>1. \A i \in 1..Len(pubs') : DOMAIN pubs'[i].snap \subseteq Submitted
      BY <1>0, <1>3 DEF IInv, Rest, Covered
    <2> QED BY <1>5, <1>6, <2>1 DEF CommitRevise, IInv, Rest, Covered, Idle, Carrying, Storing
  <1>12. Based'
    <2>1. ASSUME NEW q \in Request, txn'[q].pc \in Revising
          PROVE  /\ q # r
                 /\ txn[q].base \in 1..n
                 /\ pubs'[txn[q].base].snap = pubs[txn[q].base].snap
      BY <1>0, <1>3, <1>5, <2>1 DEF IInv, Rest, Based, Idle, Revising
    <2> QED BY <1>0, <1>3, <1>5, <2>1 DEF IInv, Rest, Based
  <1>13. Alone'
    <2>1. \A q \in Request : txn'[q].pc \notin Storing
      BY <1>0, <1>5 DEF IInv, Rest, Alone, Idle, Storing
    <2> QED BY <2>1 DEF Alone, Storing
  <1> QED BY <1>7, <1>8, <1>9, <1>10, <1>11, <1>12, <1>13 DEF IInv, Rest

-----------------------------------------------------------------------------
LEMMA InitIInv == Init => IInv
  <1> SUFFICES ASSUME Init PROVE IInv
    OBVIOUS
  <1>1. TypeOK
    BY IdleLocal, BoundAssumption DEF Init, TypeOK
  <1>2. Existing /\ RevisionsLinear /\ ResultsOfCurrent
    BY DEF Init, Existing, RevisionsLinear, ResultsOfCurrent, Idle
  <1>3. Covered /\ Based /\ Alone
    BY DEF Init, Covered, Based, Alone, Idle, Carrying, Revising, Storing
  <1> QED BY <1>1, <1>2, <1>3 DEF IInv, Rest

LEMMA NextIInv == IInv /\ [Next]_vars => IInv' /\ Forward
  <1> SUFFICES ASSUME IInv, [Next]_vars PROVE IInv' /\ Forward
    OBVIOUS
  <1>0. UNCHANGED marks => Forward
    BY Unmoved DEF IInv, TypeOK, MarksOK
  <1>1. CASE Submit
    BY <1>1, SubmitStep
  <1>2. CASE Expire
    <2>1. TypeOK'
      BY <1>2 DEF Expire, IInv, TypeOK
    <2>2. Existing' /\ RevisionsLinear' /\ ResultsOfCurrent'
      BY <1>2 DEF Expire, IInv, Rest, Existing, RevisionsLinear, ResultsOfCurrent
    <2>3. Covered' /\ Based' /\ Alone'
      BY <1>2 DEF Expire, IInv, Rest, Covered, Based, Alone, Submitted
    <2> QED BY <1>0, <1>2, <2>1, <2>2, <2>3 DEF Expire, IInv, Rest
  <1>3. ASSUME NEW r \in Request, BeginSave(r) \/ CommitSave(r) \/ BeginPatch(r) \/ CommitPatch(r)
                                  \/ BeginGrace(r) \/ ReadGrace(r) \/ CommitGrace(r)
        PROVE  IInv' /\ Forward
    BY <1>3, EntrySteps
  <1>4. ASSUME NEW r \in Request, BeginCompute(r) \/ ComputeRead(r) \/ ComputeCache(r)
                                  \/ CommitCompute(r)
        PROVE  IInv' /\ Forward
    BY <1>0, <1>4, ComputeSteps DEF BeginCompute, ComputeRead, ComputeCache, CommitCompute
  <1>5. ASSUME NEW r \in Request, BeginPublish(r) \/ PublishLock(r) \/ PublishRead(r)
                                  \/ PublishInsert(r)
        PROVE  IInv' /\ Forward
    BY <1>0, <1>5, PublishSteps DEF BeginPublish, PublishLock, PublishRead, PublishInsert
  <1>6. ASSUME NEW r \in Request, StoreCard(r) \/ CommitPublish(r)
        PROVE  IInv' /\ Forward
    BY <1>0, <1>6, StoreStep, PublishCommit DEF StoreCard
  <1>7. ASSUME NEW r \in Request, BeginRevise(r) \/ ReviseRead(r) \/ ReviseInsert(r)
                                  \/ CommitRevise(r)
        PROVE  IInv' /\ Forward
    BY <1>0, <1>7, ReviseSteps, ReviseCommit
    DEF BeginRevise, ReviseRead, ReviseInsert, CommitRevise
  <1>8. ASSUME NEW r \in Request, Deadlock(r) \/ Fail(r)
        PROVE  IInv' /\ Forward
    BY <1>0, <1>8, EndGoes DEF Deadlock, Fail
  <1>9. CASE UNCHANGED vars
    <2>1. IInv'
      BY <1>9 DEF vars, IInv, TypeOK, Rest, Existing, RevisionsLinear, ResultsOfCurrent,
                  Covered, Based, Alone, Submitted
    <2> QED BY <1>0, <1>9, <2>1 DEF vars
  <1> QED BY <1>1, <1>2, <1>3, <1>4, <1>5, <1>6, <1>7, <1>8, <1>9 DEF Next

(* The inductive invariant holds in every state of every exam.             *)
THEOREM Invariance == Spec => []IInv
  <1> QED BY InitIInv, NextIInv, PTL DEF Spec

(* The state keeps its shape, versions included.                           *)
THEOREM Types == Spec => []TypeOK
  <1>1. IInv => TypeOK
    BY DEF IInv
  <1> QED BY <1>1, Invariance, PTL

(* Publications form one chain with one current end (publish_results and   *)
(* revise_results, and the partial unique index they rely on).             *)
THEOREM Linear == Spec => []RevisionsLinear
  <1>1. IInv => RevisionsLinear
    BY DEF IInv, Rest
  <1> QED BY <1>1, Invariance, PTL

(* Students are shown the results of the current publication, all of them  *)
(* and nothing else (_persist_student_results).                            *)
THEOREM Shows == Spec => []ResultsOfCurrent
  <1>1. IInv => ResultsOfCurrent
    BY DEF IInv, Rest
  <1> QED BY <1>1, Invariance, PTL

(* Submitted and locked marks never become drafts again (the fields that   *)
(* the saves of an entry write).                                           *)
THEOREM NeverBack == Spec => MarksGoForward
  <1>1. IInv /\ [Next]_vars =>
            [\A s \in Student : Rank(marks[s].status) <= Rank(marks'[s].status)]_vars
    BY NextIInv DEF Forward
  <1> QED BY <1>1, Invariance, PTL DEF Spec, MarksGoForward
=============================================================================
