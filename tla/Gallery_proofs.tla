--------------------------- MODULE Gallery_proofs ---------------------------
(***************************************************************************)
(* Proofs about Gallery, for any albums, images, requests and tasks: no    *)
(* picture is lost before it is given up.                                  *)
(***************************************************************************)
EXTENDS Gallery, TLAPS

(* What requests work with.                                                *)
Titling      == [op : {"title"}, album : Album, slug : Slug, fresh : BOOLEAN]
Deletion(rows) == [op : {"delete"}, rows : {rows}, todo : SUBSET rows, ready : SUBSET rows,
                   keys : [rows -> Key \cup {None}], staged : SUBSET rows]
Deletions    == UNION {Deletion(rows) : rows \in SUBSET Image}
Dropping     == [op : {"drop"}, album : Album, slug : Slug,
                 rows : SUBSET Image, ready : SUBSET Image]
Moving(rows) == [op : {"move"}, rows : {rows}, todo : SUBSET rows,
                 to : Album, slug : Slug, was : [rows -> Row]]
Movings      == UNION {Moving(rows) : rows \in SUBSET Image}
Under        == {Nothing} \cup Titling \cup Deletions \cup Dropping \cup Movings

TaskState ==
    {Off} \cup [pc : {"sent"}, image : Image, tries : 0..Retries]
    \cup [pc : Working, image : Image, tries : 0..Retries,
          album : Album, active : BOOLEAN, slug : Slug]

AlbumRow == [active : BOOLEAN, slug : Slug]

Stored(i) == \E k \in files : k.image = i

(* A row names a file of its own, and one that is ready names one.         *)
Keyed(row, i) == /\ row.key # None => row.key.image = i
                 /\ row.status = "ready" => row.key # None

(* What a request works with is there, and it names files of the images.   *)
Fits(t) ==
    /\ t.op \in {"delete", "drop", "move"} => \A i \in t.rows : image[i] # None
    /\ t.op = "drop" => album[t.album] # None
    /\ t.op = "delete" => \A i \in t.rows : t.keys[i] # None => t.keys[i].image = i
    /\ t.op = "move" => /\ album[t.to] # None
                        /\ \A i \in t.rows : t.was[i].status = "ready" /\ Keyed(t.was[i], i)

(* The image has been processed: its row names a file, or a task or a move *)
(* is about to write such a row.                                           *)
RowMade(i)  == image[i] # None /\ image[i].key # None
TaskMade(i) == \E t \in Task : task[t].pc \in {"unstage", "save"} /\ task[t].image = i
MoveMade(i) == \E r \in Request : req[r].op = "move" /\ i \in req[r].rows
Made(i)     == RowMade(i) \/ TaskMade(i) \/ MoveMade(i)

(* A task has the picture.                                                 *)
Handled(i) == \E t \in Task : task[t].pc \in Working \ {"download"} /\ task[t].image = i

(* The inductive invariant, by the part of the state it is about: all of   *)
(* the state but what the school is charged.                               *)
RowsOK ==
    /\ album \in [Album -> AlbumRow \cup {None}]
    /\ image \in [Image -> Row \cup {None}]
    /\ \A i \in Image : image[i] # None => /\ album[image[i].album] # None
                                           /\ Keyed(image[i], i)
TasksOK ==
    /\ task \in [Task -> TaskState]
    /\ \A t \in Task : /\ task[t].pc # "off" => image[task[t].image] # None
                       /\ task[t].pc \in Working => album[task[t].album] # None
ReqsOK ==
    /\ pc \in [Request -> {"idle", "begun", "swept", "done"}]
    /\ req \in [Request -> Under]
    /\ \A r \in Request : Fits(req[r]) /\ (pc[r] = "swept" => req[r].op = "drop")
PurgeOK ==
    /\ purge \in [image : Image, object : BOOLEAN] \cup {None}
    /\ purge # None => image[purge.image] # None
StoreTyped ==
    /\ staging \subseteq Image /\ files \subseteq Key
    /\ upload \in [Image -> {"none", "kept", "given"}]

(* A picture that is kept and has been processed is in a file; one that    *)
(* has not been sent is nowhere.                                           *)
MadeStored == \A i \in Image : upload[i] = "kept" /\ Made(i) => Stored(i)
Unsent == \A i \in Image : upload[i] = "none" => i \notin staging /\ ~Made(i) /\ ~Handled(i)

StoreOK == StoreTyped /\ MadeStored /\ Unsent /\ UploadsSurvive

IInv == RowsOK /\ TasksOK /\ ReqsOK /\ PurgeOK /\ StoreOK

-----------------------------------------------------------------------------
(* What requests and tasks are made of.                                    *)
Shape(t) ==
    /\ t.op = "title" => t.album \in Album /\ t.slug \in Slug
    /\ t.op = "delete" => /\ t.rows \subseteq Image /\ t.todo \subseteq t.rows
                          /\ t.keys \in [t.rows -> Key \cup {None}]
    /\ t.op = "drop" => t.album \in Album /\ t.slug \in Slug /\ t.rows \subseteq Image
    /\ t.op = "move" => /\ t.rows \subseteq Image /\ t.todo \subseteq t.rows
                        /\ t.to \in Album /\ t.slug \in Slug /\ t.was \in [t.rows -> Row]

LEMMA UnderShape == ASSUME NEW t \in Under PROVE Shape(t)
  <1>1. CASE t = Nothing
    BY <1>1 DEF Nothing, Shape
  <1>2. CASE t \in Titling
    BY <1>2 DEF Titling, Shape
  <1>3. CASE t \in Deletions
    <2>1. PICK rows \in SUBSET Image : t \in Deletion(rows)
      BY <1>3 DEF Deletions
    <2>2. /\ t.op = "delete" /\ t.rows = rows /\ t.todo \in SUBSET rows
          /\ t.keys \in [rows -> Key \cup {None}]
      BY <2>1 DEF Deletion
    <2> QED BY <2>2 DEF Shape
  <1>4. CASE t \in Dropping
    BY <1>4 DEF Dropping, Shape
  <1>5. CASE t \in Movings
    <2>1. PICK rows \in SUBSET Image : t \in Moving(rows)
      BY <1>5 DEF Movings
    <2>2. /\ t.op = "move" /\ t.rows = rows /\ t.todo \in SUBSET rows
          /\ t.to \in Album /\ t.slug \in Slug /\ t.was \in [rows -> Row]
      BY <2>1 DEF Moving
    <2> QED BY <2>2 DEF Shape
  <1> QED BY <1>1, <1>2, <1>3, <1>4, <1>5 DEF Under

LEMMA NothingFits == Nothing \in Under /\ Fits(Nothing) /\ Nothing.op = "nothing"
  BY DEF Under, Nothing, Fits

LEMMA TaskShape ==
    ASSUME NEW u \in TaskState
    PROVE  /\ u.pc \in Working \cup {"off", "sent"}
           /\ u.pc = "off" => u = Off
           /\ u.pc # "off" => u.image \in Image /\ u.tries \in 0..Retries
           /\ u.pc \in Working => u.album \in Album /\ u.active \in BOOLEAN /\ u.slug \in Slug
  BY DEF TaskState, Off, Working

-----------------------------------------------------------------------------
(* Frames: what each part of the invariant asks of a step.                 *)
Grows == /\ \A i \in Image : image[i] # None => image'[i] # None
         /\ \A a \in Album : album[a] # None => album'[a] # None

LEMMA NoneApart == None \notin Slug /\ None \notin Album /\ None \notin Key
                   /\ None \notin Row /\ None \notin AlbumRow
  BY NoneAssumption DEF AlbumRow

LEMMA TasksSame == ASSUME IInv, Grows, UNCHANGED task PROVE TasksOK'
  <1>1. \A t \in Task : task[t] \in TaskState
    BY DEF IInv, TasksOK
  <1>2. \A t \in Task : /\ task[t].pc # "off" => task[t].image \in Image
                        /\ task[t].pc \in Working => task[t].album \in Album
    BY <1>1, TaskShape
  <1> QED BY <1>2 DEF IInv, TasksOK, Grows

LEMMA FitsGrows == ASSUME Grows, NEW t \in Under, Fits(t) PROVE Fits(t)'
  <1>1. Shape(t)
    BY UnderShape
  <1> QED BY <1>1 DEF Fits, Shape, Grows, Keyed

LEMMA ReqsSame == ASSUME IInv, Grows, UNCHANGED <<pc, req>> PROVE ReqsOK'
  BY FitsGrows DEF IInv, ReqsOK

LEMMA ReqsMoved ==
    ASSUME IInv, Grows, NEW r \in Request, NEW to \in {"begun", "swept", "done"},
           NEW x \in Under, Fits(x), Move(r, to, x),
           to = "swept" => x.op = "drop"
    PROVE  /\ ReqsOK'
           /\ req'[r] = x
           /\ \A q \in Request \ {r} : req'[q] = req[q]
  <1>1. /\ pc' \in [Request -> {"idle", "begun", "swept", "done"}]
        /\ req' \in [Request -> Under]
        /\ req'[r] = x
        /\ \A q \in Request \ {r} : req'[q] = req[q]
    BY DEF IInv, ReqsOK, Move
  <1>2. ASSUME NEW q \in Request PROVE Fits(req[q])'
    <2>1. CASE q = r
      <3>1. Fits(x)'
        BY FitsGrows
      <3> QED BY <2>1, <3>1, <1>1 DEF Fits, Keyed
    <2>2. CASE q # r
      <3>1. PICK y \in Under : y = req[q] /\ y = req'[q] /\ Fits(y)
        BY <2>2, <1>1 DEF IInv, ReqsOK
      <3>2. Fits(y)'
        BY <3>1, FitsGrows
      <3> QED BY <3>1, <3>2 DEF Fits, Keyed
    <2> QED BY <2>1, <2>2
  <1>3. \A q \in Request : pc'[q] = "swept" => req'[q].op = "drop"
    BY <1>1 DEF IInv, ReqsOK, Move
  <1> QED BY <1>1, <1>2, <1>3 DEF ReqsOK

LEMMA PurgeSame == ASSUME IInv, Grows, UNCHANGED purge PROVE PurgeOK'
  BY NoneApart DEF IInv, PurgeOK, Grows

LEMMA RowsSame == ASSUME IInv, UNCHANGED <<album, image>> PROVE RowsOK' /\ Grows
  BY DEF IInv, RowsOK, Grows, Keyed

(* What a task does to its own state, for the steps of Gallery that do it. *)
OthersSame(t) == \A u \in Task \ {t} : task'[u] = task[u]

LEMMA TaskSet ==
    ASSUME IInv, Grows, NEW t \in Task, NEW u \in TaskState,
           task' = [task EXCEPT ![t] = u],
           u.pc # "off" => image'[u.image] # None,
           u.pc \in Working => album'[u.album] # None
    PROVE  TasksOK' /\ task'[t] = u /\ OthersSame(t)
  <1>1. task' \in [Task -> TaskState] /\ task'[t] = u /\ OthersSame(t)
    BY DEF IInv, TasksOK, OthersSame
  <1>2. ASSUME NEW v \in Task
        PROVE  /\ task'[v].pc # "off" => image'[task'[v].image] # None
               /\ task'[v].pc \in Working => album'[task'[v].album] # None
    <2>1. CASE v = t
      BY <2>1, <1>1
    <2>2. CASE v # t
      <3>1. task'[v] = task[v] /\ task[v] \in TaskState
        BY <2>2, <1>1 DEF OthersSame, IInv, TasksOK
      <3>2. /\ task[v].pc # "off" => task[v].image \in Image
            /\ task[v].pc \in Working => task[v].album \in Album
        BY <3>1, TaskShape
      <3> QED BY <3>1, <3>2 DEF IInv, TasksOK, Grows
    <2> QED BY <2>1, <2>2
  <1> QED BY <1>1, <1>2 DEF TasksOK

LEMMA TaskGoes ==
    ASSUME IInv, Grows, NEW t \in Task, NEW to \in Working,
           task[t].pc \in Working, Goes(t, to)
    PROVE  /\ TasksOK' /\ OthersSame(t)
           /\ task'[t].pc = to /\ task'[t].image = task[t].image
  <1> DEFINE u == [task[t] EXCEPT !.pc = to]
  <1>1. task[t] \in [pc : Working, image : Image, tries : 0..Retries,
                     album : Album, active : BOOLEAN, slug : Slug]
    BY DEF IInv, TasksOK, TaskState, Off, Working
  <1>2. /\ u.pc = to /\ u.image = task[t].image /\ u.album = task[t].album
        /\ u \in TaskState
    BY <1>1 DEF TaskState
  <1>3. task' = [task EXCEPT ![t] = u]
    BY DEF Goes
  <1>4. /\ image'[task[t].image] # None /\ album'[task[t].album] # None
    BY <1>1 DEF IInv, TasksOK, Grows, Working
  <1> HIDE DEF u
  <1> QED BY <1>2, <1>3, <1>4, TaskSet

LEMMA TaskGone ==
    ASSUME IInv, Grows, NEW t \in Task, Gone(t)
    PROVE  TasksOK' /\ OthersSame(t) /\ task'[t].pc = "off"
  <1>1. Off \in TaskState /\ Off.pc = "off" /\ Off.pc \notin Working
    BY DEF TaskState, Off, Working
  <1> QED BY <1>1, TaskSet DEF Gone

LEMMA TaskAgain ==
    ASSUME IInv, Grows, NEW t \in Task, task[t].pc # "off", Again(t)
    PROVE  TasksOK' /\ OthersSame(t) /\ task'[t].pc \in {"off", "sent"}
  <1> DEFINE u == [pc |-> "sent", image |-> task[t].image, tries |-> task[t].tries + 1]
  <1>1. CASE task[t].tries < Retries
    <2>1. task[t].image \in Image /\ task[t].tries \in 0..Retries
      BY TaskShape DEF IInv, TasksOK
    <2>2. task[t].tries + 1 \in 0..Retries
      BY <1>1, <2>1, BoundAssumption
    <2>3. u \in TaskState /\ u.pc = "sent" /\ u.image = task[t].image /\ u.pc \notin Working
      BY <2>1, <2>2 DEF TaskState, Working
    <2>4. task' = [task EXCEPT ![t] = u]
      BY <1>1 DEF Again
    <2>5. image'[task[t].image] # None
      BY <2>1 DEF IInv, TasksOK, Grows
    <2> HIDE DEF u
    <2> QED BY <2>3, <2>4, <2>5, TaskSet
  <1>2. CASE ~(task[t].tries < Retries)
    BY <1>2, TaskGone DEF Again
  <1> QED BY <1>1, <1>2

LEMMA TaskSent ==
    ASSUME IInv, Grows, NEW t \in Task, NEW i \in Image, image[i] # None, Message(t, i)
    PROVE  TasksOK' /\ OthersSame(t) /\ task'[t].pc = "sent"
  <1> DEFINE u == [pc |-> "sent", image |-> i, tries |-> 0]
  <1>1. u \in TaskState /\ u.pc = "sent" /\ u.image = i /\ u.pc \notin Working
    BY BoundAssumption DEF TaskState, Working
  <1>2. task' = [task EXCEPT ![t] = u] /\ image'[i] # None
    BY DEF Message, Grows
  <1> HIDE DEF u
  <1> QED BY <1>1, <1>2, TaskSet

-----------------------------------------------------------------------------
(* What the part about storage asks of a step.                             *)
LEMMA StoreKept ==
    ASSUME IInv, StoreTyped',
           \A i \in Image : upload'[i] = upload[i] \/ (upload[i] = "kept" /\ upload'[i] = "given"),
           \A i \in Image : upload'[i] = "kept" /\ Stored(i) => Stored(i)',
           \A i \in Image : upload'[i] = "kept" /\ i \in staging => i \in staging' \/ Stored(i)',
           staging' \subseteq staging,
           \A i \in Image : Made(i)' => Made(i) \/ (Handled(i) /\ Stored(i)'),
           \A i \in Image : Handled(i)' => Handled(i) \/ i \in staging
    PROVE  StoreOK'
  <1>1. UploadsSurvive'
    <2> SUFFICES ASSUME NEW i \in Image, upload'[i] = "kept"
                 PROVE  i \in staging' \/ Stored(i)'
      BY DEF UploadsSurvive, Stored
    <2>1. i \in staging \/ Stored(i)
      BY DEF IInv, StoreOK, UploadsSurvive, Stored
    <2> QED BY <2>1
  <1>2. MadeStored'
    BY DEF IInv, StoreOK, MadeStored
  <1>3. Unsent'
    BY DEF IInv, StoreOK, Unsent
  <1> QED BY <1>1, <1>2, <1>3 DEF StoreOK

LEMMA StoreSame ==
    ASSUME IInv, UNCHANGED store,
           \A i \in Image : Made(i)' => Made(i),
           \A i \in Image : Handled(i)' => Handled(i) \/ i \in staging
    PROVE  StoreOK'
  <1>1. StoreTyped' /\ \A i \in Image : Stored(i)' <=> Stored(i)
    BY DEF IInv, StoreOK, StoreTyped, store, Stored
  <1>2. upload' = upload /\ staging' = staging
    BY DEF store
  <1>3. /\ \A i \in Image : upload'[i] = "kept" /\ Stored(i) => Stored(i)'
        /\ \A i \in Image : upload'[i] = "kept" /\ i \in staging => i \in staging' \/ Stored(i)'
        /\ \A i \in Image : Made(i)' => Made(i) \/ (Handled(i) /\ Stored(i)')
    BY <1>1, <1>2
  <1>4. /\ \A i \in Image : upload'[i] = upload[i] \/ (upload[i] = "kept" /\ upload'[i] = "given")
        /\ staging' \subseteq staging
    BY <1>2
  <1> QED BY <1>1, <1>3, <1>4, StoreKept

(* Which parts a step can make an image processed, or handled, by.         *)
LEMMA SameRows == ASSUME UNCHANGED image PROVE \A i \in Image : RowMade(i)' => RowMade(i)
  BY DEF RowMade
LEMMA SameTasks ==
    ASSUME UNCHANGED task
    PROVE  \A i \in Image : (TaskMade(i)' => TaskMade(i)) /\ (Handled(i)' => Handled(i))
  BY DEF TaskMade, Handled
LEMMA SameMoves == ASSUME UNCHANGED req PROVE \A i \in Image : MoveMade(i)' => MoveMade(i)
  BY DEF MoveMade

LEMMA MovesOf ==
    ASSUME NEW r \in Request, \A q \in Request \ {r} : req'[q] = req[q]
    PROVE  \A i \in Image :
             MoveMade(i)' => MoveMade(i) \/ (req'[r].op = "move" /\ i \in req'[r].rows)
  <1> SUFFICES ASSUME NEW i \in Image, MoveMade(i)'
               PROVE  MoveMade(i) \/ (req'[r].op = "move" /\ i \in req'[r].rows)
    OBVIOUS
  <1>1. PICK q \in Request : req'[q].op = "move" /\ i \in req'[q].rows
    BY DEF MoveMade
  <1>2. CASE q = r
    BY <1>1, <1>2
  <1>3. CASE q # r
    BY <1>1, <1>3 DEF MoveMade
  <1> QED BY <1>2, <1>3

LEMMA TasksOf ==
    ASSUME NEW t \in Task, OthersSame(t)
    PROVE  \A i \in Image :
             /\ TaskMade(i)' => \/ TaskMade(i)
                                \/ task'[t].pc \in {"unstage", "save"} /\ task'[t].image = i
             /\ Handled(i)' => \/ Handled(i)
                               \/ /\ task'[t].pc \in Working \ {"download"}
                                  /\ task'[t].image = i
  BY DEF TaskMade, Handled, OthersSame

(* Changes of one row.                                                     *)
LEMMA StatusSet ==
    ASSUME NEW row \in Row, NEW s \in {"pending", "failed"}
    PROVE  /\ [row EXCEPT !.status = s] \in Row
           /\ [row EXCEPT !.status = s].status = s
           /\ [row EXCEPT !.status = s].album = row.album
           /\ [row EXCEPT !.status = s].key = row.key
  BY DEF Row
LEMMA ActiveSet ==
    ASSUME NEW row \in Row
    PROVE  /\ [row EXCEPT !.active = FALSE] \in Row
           /\ [row EXCEPT !.active = FALSE].status = row.status
           /\ [row EXCEPT !.active = FALSE].album = row.album
           /\ [row EXCEPT !.active = FALSE].key = row.key
  BY DEF Row
LEMMA StagedSet ==
    ASSUME NEW row \in Row
    PROVE  /\ [row EXCEPT !.staged = FALSE] \in Row
           /\ [row EXCEPT !.staged = FALSE].status = row.status
           /\ [row EXCEPT !.staged = FALSE].album = row.album
           /\ [row EXCEPT !.staged = FALSE].key = row.key
  BY DEF Row
InPlace(row, a, k) == [row EXCEPT !.album = a, !.key = k]

LEMMA PlaceSet ==
    ASSUME NEW row \in Row, NEW a \in Album, NEW k \in Key
    PROVE  /\ InPlace(row, a, k) \in Row
           /\ InPlace(row, a, k).status = row.status
           /\ InPlace(row, a, k).album = a
           /\ InPlace(row, a, k).key = k
  BY DEF Row, InPlace
LEMMA KeyMade ==
    ASSUME NEW s \in Slug, NEW i \in Image, NEW n \in 0..Requests
    PROVE  KeyFor(s, i, n) \in Key /\ KeyFor(s, i, n).image = i /\ KeyFor(s, i, n) # None
  BY NoneApart DEF KeyFor, Key

(* The rows, when some images' are written.                                *)
LEMMA RowsSet ==
    ASSUME IInv, UNCHANGED album, image' \in [Image -> Row \cup {None}],
           \A i \in Image : \/ image'[i] = image[i]
                            \/ /\ image'[i] # None
                               /\ album[image'[i].album] # None /\ Keyed(image'[i], i)
    PROVE  RowsOK' /\ Grows
  BY DEF IInv, RowsOK, Grows, Keyed

-----------------------------------------------------------------------------
(* The steps of requests.                                                  *)
LEMMA RequestKeeps ==
    ASSUME IInv, RowsOK', Grows, TasksOK', UNCHANGED purge, UNCHANGED store,
           NEW r \in Request, NEW to \in {"begun", "swept", "done"},
           NEW x \in Under, Fits(x), Move(r, to, x),
           to = "swept" => x.op = "drop",
           \A i \in Image : (TaskMade(i)' => TaskMade(i)) /\ (Handled(i)' => Handled(i)),
           \A i \in Image : RowMade(i)' => Made(i),
           x.op = "move" => \A i \in x.rows : Made(i)
    PROVE  IInv'
  <1>1. ReqsOK' /\ req'[r] = x /\ \A q \in Request \ {r} : req'[q] = req[q]
    BY ReqsMoved
  <1>2. \A i \in Image : MoveMade(i)' => Made(i)
    BY <1>1, MovesOf DEF Made
  <1>3. \A i \in Image : Made(i)' => Made(i)
    BY <1>2 DEF Made
  <1>4. StoreOK'
    BY <1>3, StoreSame
  <1>5. PurgeOK'
    BY PurgeSame
  <1> QED BY <1>1, <1>4, <1>5 DEF IInv

LEMMA BeginKeeps ==
    ASSUME IInv, UNCHANGED <<album, image>>, UNCHANGED store, UNCHANGED jobs,
           NEW r \in Request, NEW to \in {"begun", "swept", "done"},
           NEW x \in Under, Fits(x), Move(r, to, x),
           to = "swept" => x.op = "drop",
           x.op = "move" => \A i \in x.rows : Made(i)
    PROVE  IInv'
  <1>1. RowsOK' /\ Grows
    BY RowsSame
  <1>2. UNCHANGED task /\ UNCHANGED purge /\ UNCHANGED image
    BY DEF jobs
  <1>3. TasksOK'
    BY <1>1, <1>2, TasksSame
  <1>4. \A i \in Image : (TaskMade(i)' => TaskMade(i)) /\ (Handled(i)' => Handled(i))
    BY <1>2, SameTasks
  <1>5. \A i \in Image : RowMade(i)' => Made(i)
    BY <1>2, SameRows DEF Made
  <1> QED BY <1>1, <1>2, <1>3, <1>4, <1>5, RequestKeeps

LEMMA EndKeeps ==
    ASSUME IInv, RowsOK', Grows, UNCHANGED store, UNCHANGED jobs,
           NEW r \in Request, End(r),
           \A i \in Image : RowMade(i)' => Made(i)
    PROVE  IInv'
  <1>1. UNCHANGED task /\ UNCHANGED purge /\ Move(r, "done", Nothing)
    BY DEF jobs, End
  <1>2. TasksOK'
    BY <1>1, TasksSame
  <1>3. \A i \in Image : (TaskMade(i)' => TaskMade(i)) /\ (Handled(i)' => Handled(i))
    BY <1>1, SameTasks
  <1> QED BY <1>1, <1>2, <1>3, NothingFits, RequestKeeps

LEMMA RollbackKeeps == ASSUME IInv, NEW r \in Request, Rollback(r) PROVE IInv'
  BY NothingFits, BeginKeeps DEF Rollback, End

LEMMA BeginTitleKeeps == ASSUME IInv, NEW r \in Request, BeginTitle(r) PROVE IInv'
  <1>1. PICK a \in Album, s \in Slug :
          Begin(r, [op |-> "title", album |-> a, slug |-> s, fresh |-> album[a] = None])
    BY DEF BeginTitle
  <1> DEFINE f == album[a] = None
             x == [op |-> "title", album |-> a, slug |-> s, fresh |-> f]
  <1>2. f \in BOOLEAN
    OBVIOUS
  <1>3. Begin(r, x)
    BY <1>1
  <1> HIDE DEF f
  <1>4. x \in Titling /\ x.op = "title"
    BY <1>2 DEF Titling
  <1> HIDE DEF x
  <1>5. x \in Under /\ Fits(x)
    BY <1>4 DEF Under, Fits
  <1> QED BY <1>3, <1>4, <1>5, BeginKeeps DEF Begin

LEMMA RowOf ==
    ASSUME IInv, NEW i \in Image, image[i] # None
    PROVE  /\ image[i] \in Row /\ image[i].album \in Album
           /\ image[i].key \in Key \cup {None}
           /\ album[image[i].album] # None /\ Keyed(image[i], i)
  <1>1. image[i] \in Row
    BY DEF IInv, RowsOK
  <1>2. image[i].album \in Album /\ image[i].key \in Key \cup {None}
    BY <1>1 DEF Row
  <1> QED BY <1>1, <1>2 DEF IInv, RowsOK

LEMMA AlbumOf ==
    ASSUME IInv, NEW a \in Album, album[a] # None
    PROVE  album[a] \in AlbumRow /\ album[a].slug \in Slug /\ album[a].active \in BOOLEAN
  BY DEF IInv, RowsOK, AlbumRow

LEMMA InAlbum ==
    ASSUME NEW a, NEW i \in In(a)
    PROVE  i \in Image /\ image[i] # None
  BY DEF In

LEMMA BeginDeleteKeeps == ASSUME IInv, NEW r \in Request, BeginDelete(r) PROVE IInv'
  <1>1. PICK a \in Album : \E rows \in (SUBSET In(a)) \ {{}} :
          Begin(r, [op |-> "delete", rows |-> rows, todo |-> rows, ready |-> Ready(rows),
                    keys |-> [i \in rows |-> image[i].key],
                    staged |-> {i \in rows : image[i].staged}])
    BY DEF BeginDelete
  <1>2. PICK rows \in (SUBSET In(a)) \ {{}} :
          Begin(r, [op |-> "delete", rows |-> rows, todo |-> rows, ready |-> Ready(rows),
                    keys |-> [i \in rows |-> image[i].key],
                    staged |-> {i \in rows : image[i].staged}])
    BY <1>1
  <1> DEFINE ready == Ready(rows)
             keys == [i \in rows |-> image[i].key]
             staged == {i \in rows : image[i].staged}
             x == [op |-> "delete", rows |-> rows, todo |-> rows, ready |-> ready,
                   keys |-> keys, staged |-> staged]
  <1>3. rows \in SUBSET Image /\ \A i \in rows : image[i] # None
    BY DEF In
  <1>4. ready \in SUBSET rows /\ staged \in SUBSET rows
    BY DEF Ready
  <1>5. /\ keys \in [rows -> Key \cup {None}]
        /\ \A i \in rows : keys[i] # None => keys[i].image = i
    BY <1>3, RowOf DEF Keyed
  <1>6. Begin(r, x)
    BY <1>2
  <1> HIDE DEF ready, keys, staged
  <1>7. x \in Deletion(rows) /\ x.op = "delete" /\ x.rows = rows /\ x.keys = keys
    BY <1>4, <1>5 DEF Deletion
  <1> HIDE DEF x
  <1>8. x \in Under
    BY <1>3, <1>7 DEF Under, Deletions
  <1>9. Fits(x)
    BY <1>3, <1>5, <1>7 DEF Fits
  <1> QED BY <1>6, <1>7, <1>8, <1>9, BeginKeeps DEF Begin

LEMMA BeginDropKeeps == ASSUME IInv, NEW r \in Request, BeginDrop(r) PROVE IInv'
  <1>1. PICK a \in Album :
          /\ Live(a)
          /\ Begin(r, [op |-> "drop", album |-> a, slug |-> album[a].slug, rows |-> In(a),
                       ready |-> Ready(In(a))])
    BY DEF BeginDrop
  <1> DEFINE slug == album[a].slug
             rows == In(a)
             ready == Ready(In(a))
             x == [op |-> "drop", album |-> a, slug |-> slug, rows |-> rows, ready |-> ready]
  <1>2. album[a] # None /\ slug \in Slug
    BY <1>1, AlbumOf DEF Live
  <1>3. rows \in SUBSET Image /\ \A i \in rows : image[i] # None
    BY DEF In
  <1>4. ready \in SUBSET Image
    BY DEF Ready, In
  <1>5. Begin(r, x)
    BY <1>1
  <1> HIDE DEF slug, rows, ready
  <1>6. x \in Dropping /\ x.op = "drop" /\ x.rows = rows /\ x.album = a
    BY <1>2, <1>3, <1>4 DEF Dropping
  <1> HIDE DEF x
  <1>7. x \in Under /\ Fits(x)
    BY <1>2, <1>3, <1>6 DEF Under, Fits
  <1> QED BY <1>5, <1>6, <1>7, BeginKeeps DEF Begin

LEMMA BeginMoveKeeps == ASSUME IInv, NEW r \in Request, BeginMove(r) PROVE IInv'
  <1>1. PICK a \in Album, b \in Album : \E rows \in SUBSET Ready(In(a)) \ {{}} :
          /\ Live(a) /\ Live(b)
          /\ Begin(r, [op |-> "move", rows |-> rows, todo |-> rows, to |-> b,
                       slug |-> album[b].slug, was |-> [i \in rows |-> image[i]]])
    BY DEF BeginMove
  <1>2. PICK rows \in SUBSET Ready(In(a)) \ {{}} :
          /\ Live(a) /\ Live(b)
          /\ Begin(r, [op |-> "move", rows |-> rows, todo |-> rows, to |-> b,
                       slug |-> album[b].slug, was |-> [i \in rows |-> image[i]]])
    BY <1>1
  <1> DEFINE slug == album[b].slug
             was == [i \in rows |-> image[i]]
             x == [op |-> "move", rows |-> rows, todo |-> rows, to |-> b, slug |-> slug,
                   was |-> was]
  <1>3. album[b] # None /\ slug \in Slug
    BY <1>2, AlbumOf DEF Live
  <1>4. /\ rows \in SUBSET Image
        /\ \A i \in rows : image[i] # None /\ image[i].status = "ready"
    BY DEF In, Ready
  <1>5. /\ was \in [rows -> Row]
        /\ \A i \in rows : was[i].status = "ready" /\ Keyed(was[i], i)
        /\ \A i \in rows : RowMade(i)
    BY <1>4, RowOf DEF Keyed, RowMade
  <1>6. Begin(r, x)
    BY <1>2
  <1> HIDE DEF slug, was
  <1>7. /\ x \in Moving(rows) /\ x.op = "move" /\ x.rows = rows /\ x.to = b /\ x.was = was
    BY <1>3, <1>5 DEF Moving
  <1> HIDE DEF x
  <1>8. x \in Under
    BY <1>4, <1>7 DEF Under, Movings
  <1>9. Fits(x)
    BY <1>3, <1>4, <1>5, <1>7 DEF Fits
  <1> QED BY <1>5, <1>6, <1>7, <1>8, <1>9, BeginKeeps DEF Begin, Made

LEMMA AlbumSet ==
    ASSUME IInv, UNCHANGED image, NEW a \in Album, NEW row \in AlbumRow,
           album' = [album EXCEPT ![a] = row]
    PROVE  RowsOK' /\ Grows
  <1>1. /\ album' \in [Album -> AlbumRow \cup {None}]
        /\ \A b \in Album : album[b] # None => album'[b] # None
    BY NoneApart DEF IInv, RowsOK
  <1>2. \A i \in Image : image[i] # None => /\ album'[image[i].album] # None
                                            /\ Keyed(image[i], i)
    BY <1>1, RowOf
  <1> QED BY <1>1, <1>2 DEF IInv, RowsOK, Grows, Keyed

LEMMA CommitTitleKeeps == ASSUME IInv, NEW r \in Request, CommitTitle(r) PROVE IInv'
  <1> DEFINE a == req[r].album
             row == [active |-> TRUE, slug |-> req[r].slug]
  <1>1. a \in Album /\ row \in AlbumRow
    BY UnderShape DEF CommitTitle, At, IInv, ReqsOK, Shape, AlbumRow
  <1>2. UNCHANGED image /\ album' = [album EXCEPT ![a] = row]
    BY DEF CommitTitle
  <1> HIDE DEF a, row
  <1>3. RowsOK' /\ Grows
    BY <1>1, <1>2, AlbumSet
  <1>4. \A i \in Image : RowMade(i)' => Made(i)
    BY <1>2, SameRows DEF Made
  <1> QED BY <1>3, <1>4, EndKeeps DEF CommitTitle

LEMMA PresignKeeps == ASSUME IInv, NEW r \in Request, Presign(r) PROVE IInv'
  <1>1. PICK a \in Album : \E new \in (SUBSET {i \in Image : image[i] = None}) \ {{}} :
          /\ Live(a)
          /\ image' = [i \in Image |-> IF i \notin new THEN image[i]
                     ELSE [album |-> a, active |-> TRUE, status |-> "pending",
                           staged |-> TRUE, key |-> None]]
    BY DEF Presign
  <1>2. PICK new \in (SUBSET {i \in Image : image[i] = None}) \ {{}} :
          /\ Live(a)
          /\ image' = [i \in Image |-> IF i \notin new THEN image[i]
                     ELSE [album |-> a, active |-> TRUE, status |-> "pending",
                           staged |-> TRUE, key |-> None]]
    BY <1>1
  <1> DEFINE row == [album |-> a, active |-> TRUE, status |-> "pending",
                     staged |-> TRUE, key |-> None]
  <1>3. /\ row \in Row /\ row.album = a /\ row.key = None /\ row.status = "pending"
        /\ row # None
    <2>1. row \in Row
      BY DEF Row
    <2>2. row.album = a /\ row.key = None /\ row.status = "pending"
      OBVIOUS
    <2> QED BY <2>1, <2>2, NoneApart
  <1>4. image' = [i \in Image |-> IF i \notin new THEN image[i] ELSE row]
    BY <1>2
  <1> HIDE DEF row
  <1>5. image' \in [Image -> Row \cup {None}]
    BY <1>3, <1>4 DEF IInv, RowsOK
  <1>6. (\A i \in Image : Keyed(row, i)) /\ album[a] # None
    BY <1>2, <1>3 DEF Live, Keyed
  <1>7. \A i \in Image : \/ image'[i] = image[i]
                         \/ /\ image'[i] # None
                            /\ album[image'[i].album] # None /\ Keyed(image'[i], i)
    BY <1>3, <1>4, <1>6
  <1>8. UNCHANGED album /\ End(r) /\ UNCHANGED store /\ UNCHANGED jobs
    BY DEF Presign
  <1>9. RowsOK' /\ Grows
    BY <1>5, <1>7, <1>8, RowsSet
  <1>10. \A i \in Image : RowMade(i)' => Made(i)
    BY <1>3, <1>4 DEF RowMade, Made
  <1> QED BY <1>8, <1>9, <1>10, EndKeeps

LEMMA DeactivatedRows ==
    ASSUME IInv, NEW rows \in SUBSET Image, \A i \in rows : image[i] # None,
           image' = Deactivated(rows)
    PROVE  /\ image' \in [Image -> Row \cup {None}]
           /\ \A i \in Image : \/ image'[i] = image[i]
                               \/ /\ image'[i] # None
                                  /\ album[image'[i].album] # None /\ Keyed(image'[i], i)
           /\ \A i \in Image : RowMade(i)' => Made(i)
           /\ \A i \in Image : image[i] # None => image'[i] # None
           /\ \A i \in Image : image[i] # None =>
                /\ image'[i] \in Row /\ image'[i].album = image[i].album
                /\ Keyed(image'[i], i)
  <1>1. ASSUME NEW i \in Image, i \in rows
        PROVE  /\ image'[i] \in Row /\ image'[i].album = image[i].album
               /\ image'[i].key = image[i].key /\ image'[i].status = image[i].status
               /\ image[i] # None /\ album[image[i].album] # None /\ Keyed(image[i], i)
    <2>1. image'[i] = [image[i] EXCEPT !.active = FALSE]
      BY <1>1 DEF Deactivated
    <2> QED BY <1>1, <2>1, RowOf, ActiveSet
  <1>2. \A i \in Image \ rows : image'[i] = image[i]
    BY DEF Deactivated
  <1>3. image' \in [Image -> Row \cup {None}]
    <2>1. \A i \in Image : image'[i] \in Row \cup {None}
      BY <1>1, <1>2 DEF IInv, RowsOK
    <2>2. image' = [i \in Image |-> image'[i]]
      BY DEF Deactivated
    <2> QED BY <2>1, <2>2
  <1>4. \A i \in rows : Keyed(image'[i], i)
    BY <1>1 DEF Keyed
  <1> QED BY <1>1, <1>2, <1>3, <1>4, NoneApart, RowOf DEF RowMade, Made

LEMMA CommitDeleteKeeps == ASSUME IInv, NEW r \in Request, CommitDelete(r) PROVE IInv'
  <1>1. /\ req[r].rows \in SUBSET Image /\ \A i \in req[r].rows : image[i] # None
    BY UnderShape DEF CommitDelete, At, IInv, ReqsOK, Shape, Fits
  <1>2. image' = Deactivated(req[r].rows) /\ UNCHANGED album
    BY DEF CommitDelete
  <1>3. RowsOK' /\ Grows
    BY <1>1, <1>2, DeactivatedRows, RowsSet
  <1>4. \A i \in Image : RowMade(i)' => Made(i)
    BY <1>1, <1>2, DeactivatedRows
  <1> QED BY <1>3, <1>4, EndKeeps DEF CommitDelete

LEMMA CommitDropKeeps == ASSUME IInv, NEW r \in Request, CommitDrop(r) PROVE IInv'
  <1> DEFINE a == req[r].album
             row == [album[a] EXCEPT !.active = FALSE]
  <1>1. /\ req[r].rows \in SUBSET Image /\ \A i \in req[r].rows : image[i] # None
        /\ a \in Album /\ album[a] # None
    BY UnderShape DEF CommitDrop, IInv, ReqsOK, Shape, Fits
  <1>2. row \in AlbumRow
    BY <1>1, AlbumOf DEF AlbumRow
  <1>3. album' = [album EXCEPT ![a] = row] /\ image' = Deactivated(req[r].rows)
    BY DEF CommitDrop
  <1> HIDE DEF a, row
  <1>4. /\ album' \in [Album -> AlbumRow \cup {None}]
        /\ \A b \in Album : album[b] # None => album'[b] # None
    BY <1>1, <1>2, <1>3, NoneApart DEF IInv, RowsOK
  <1>5. /\ image' \in [Image -> Row \cup {None}]
        /\ \A i \in Image : image[i] # None => image'[i] # None
        /\ \A i \in Image : RowMade(i)' => Made(i)
        /\ \A i \in Image : image[i] # None => /\ image'[i].album = image[i].album
                                               /\ Keyed(image'[i], i)
        /\ \A i \in Image : image'[i] = image[i] \/ image'[i] # None
    BY <1>1, <1>3, DeactivatedRows
  <1>6. Grows
    BY <1>4, <1>5 DEF Grows
  <1>7. ASSUME NEW i \in Image, image'[i] # None
        PROVE  album'[image'[i].album] # None /\ Keyed(image'[i], i)
    <2>1. image[i] # None
      BY <1>1, <1>3, <1>7 DEF Deactivated
    <2> QED BY <2>1, <1>4, <1>5, RowOf
  <1>8. RowsOK'
    BY <1>4, <1>5, <1>7 DEF RowsOK, Keyed
  <1> QED BY <1>5, <1>6, <1>8, EndKeeps DEF CommitDrop

LEMMA CommitMoveKeeps == ASSUME IInv, NEW r \in Request, CommitMove(r) PROVE IInv'
  <1> DEFINE rows == req[r].rows
             moved(i) == InPlace(req[r].was[i], req[r].to, NewKey(r, i))
  <1>1. /\ rows \in SUBSET Image /\ req[r].to \in Album /\ req[r].slug \in Slug
        /\ req[r].was \in [rows -> Row] /\ album[req[r].to] # None
        /\ req[r].op = "move"
    BY UnderShape DEF CommitMove, At, IInv, ReqsOK, Shape, Fits
  <1>2. ASSUME NEW i \in rows
        PROVE  NewKey(r, i) \in Key /\ NewKey(r, i).image = i /\ NewKey(r, i) # None
    BY <1>1, <1>2, KeyMade DEF NewKey, Request
  <1>3. ASSUME NEW i \in rows
        PROVE  moved(i) \in Row /\ moved(i).album = req[r].to /\ moved(i).key = NewKey(r, i)
    <2>1. req[r].was[i] \in Row
      BY <1>1, <1>3
    <2> QED BY <1>1, <1>2, <1>3, <2>1, PlaceSet
  <1>4. image' = [i \in Image |-> IF i \in rows THEN moved(i) ELSE image[i]]
    BY DEF CommitMove, InPlace
  <1> HIDE DEF moved, rows
  <1>5. image' \in [Image -> Row \cup {None}]
    BY <1>1, <1>3, <1>4 DEF IInv, RowsOK
  <1>6. \A i \in rows : /\ image'[i] # None /\ album[image'[i].album] # None
                        /\ Keyed(image'[i], i)
    <2> SUFFICES ASSUME NEW i \in rows
                 PROVE  /\ image'[i] # None /\ album[image'[i].album] # None
                        /\ Keyed(image'[i], i)
      OBVIOUS
    <2>1. image'[i] = moved(i)
      BY <1>1, <1>4
    <2> QED BY <2>1, <1>1, <1>2, <1>3, NoneApart DEF Keyed
  <1>7. UNCHANGED album /\ UNCHANGED store /\ UNCHANGED jobs /\ End(r)
    BY DEF CommitMove
  <1>8. RowsOK' /\ Grows
    BY <1>1, <1>4, <1>5, <1>6, <1>7, RowsSet
  <1>9. \A i \in Image : RowMade(i)' => Made(i)
    <2> SUFFICES ASSUME NEW i \in Image, RowMade(i)' PROVE Made(i)
      OBVIOUS
    <2>1. CASE i \in rows
      BY <2>1, <1>1 DEF Made, MoveMade, rows
    <2>2. CASE i \notin rows
      BY <2>2, <1>4 DEF RowMade, Made
    <2> QED BY <2>1, <2>2
  <1> QED BY <1>7, <1>8, <1>9, EndKeeps

(* A message is sent, and the request ends.                                *)
LEMMA SendKeeps ==
    ASSUME IInv, RowsOK', Grows, NEW r \in Request, NEW t \in Task, NEW i \in Image,
           image[i] # None, Message(t, i), End(r), UNCHANGED purge, UNCHANGED store,
           \A j \in Image : RowMade(j)' => RowMade(j)
    PROVE  IInv'
  <1>1. TasksOK' /\ OthersSame(t) /\ task'[t].pc = "sent"
    BY TaskSent
  <1>2. \A j \in Image : (TaskMade(j)' => TaskMade(j)) /\ (Handled(j)' => Handled(j))
    BY <1>1, TasksOf DEF Working
  <1>3. Move(r, "done", Nothing) /\ \A j \in Image : RowMade(j)' => Made(j)
    BY DEF End, Made
  <1> QED BY <1>1, <1>2, <1>3, NothingFits, RequestKeeps

LEMMA ConfirmKeeps == ASSUME IInv, NEW r \in Request, Confirm(r) PROVE IInv'
  <1>1. PICK i \in Image, t \in Task : (\E a \in Album : Live(a) /\ i \in In(a)) /\ Message(t, i)
    BY DEF Confirm
  <1>2. image[i] # None
    BY <1>1 DEF In
  <1>3. UNCHANGED <<album, image>> /\ UNCHANGED purge /\ UNCHANGED store /\ End(r)
    BY DEF Confirm
  <1>4. RowsOK' /\ Grows /\ \A j \in Image : RowMade(j)' => RowMade(j)
    BY <1>3, RowsSame, SameRows
  <1> QED BY <1>1, <1>2, <1>3, <1>4, SendKeeps

(* The status of one image is set.                                         *)
LEMMA StatusRows ==
    ASSUME IInv, NEW i \in Image, image[i] # None, NEW s \in {"pending", "failed"},
           image' = [image EXCEPT ![i].status = s], UNCHANGED album
    PROVE  RowsOK' /\ Grows /\ \A j \in Image : RowMade(j)' => RowMade(j)
  <1> DEFINE row == [image[i] EXCEPT !.status = s]
  <1>1. /\ image[i] \in Row /\ album[image[i].album] # None /\ Keyed(image[i], i)
    BY RowOf
  <1>2. /\ row \in Row /\ row.status = s /\ row.album = image[i].album
        /\ row.key = image[i].key
    BY <1>1, StatusSet
  <1>3. image' = [image EXCEPT ![i] = row]
    OBVIOUS
  <1> HIDE DEF row
  <1>4. /\ image' \in [Image -> Row \cup {None}] /\ image'[i] = row
        /\ \A j \in Image \ {i} : image'[j] = image[j]
    BY <1>2, <1>3 DEF IInv, RowsOK
  <1>5. row # None /\ album[row.album] # None /\ Keyed(row, i)
    BY <1>1, <1>2, NoneApart DEF Keyed
  <1>6. RowsOK' /\ Grows
    BY <1>4, <1>5, RowsSet
  <1>7. ASSUME NEW j \in Image, RowMade(j)' PROVE RowMade(j)
    BY <1>2, <1>4, <1>7 DEF RowMade
  <1> QED BY <1>6, <1>7

LEMMA RetryKeeps == ASSUME IInv, NEW r \in Request, Retry(r) PROVE IInv'
  <1>1. PICK i \in Image, t \in Task :
          /\ \E a \in Album : Live(a) /\ i \in In(a)
          /\ Message(t, i)
          /\ image' \in {image, [image EXCEPT ![i].status = "pending"]}
    BY DEF Retry
  <1>2. image[i] # None
    BY <1>1 DEF In
  <1>3. UNCHANGED album /\ UNCHANGED purge /\ UNCHANGED store /\ End(r)
    BY DEF Retry
  <1>4. RowsOK' /\ Grows /\ \A j \in Image : RowMade(j)' => RowMade(j)
    <2>1. CASE image' = image
      BY <2>1, <1>3, RowsSame, SameRows
    <2>2. CASE image' = [image EXCEPT ![i].status = "pending"]
      BY <2>2, <1>2, <1>3, StatusRows
    <2> QED BY <1>1, <2>1, <2>2
  <1> QED BY <1>1, <1>2, <1>3, <1>4, SendKeeps

(* A step of a request on storage.                                         *)
LEMMA RequestStores ==
    ASSUME IInv, UNCHANGED <<album, image>>, UNCHANGED jobs,
           NEW r \in Request, NEW to \in {"begun", "swept", "done"},
           NEW x \in Under, Fits(x), Move(r, to, x),
           to = "swept" => x.op = "drop",
           x.op = "move" => \A i \in x.rows : Made(i)
    PROVE  /\ RowsOK' /\ TasksOK' /\ ReqsOK' /\ PurgeOK'
           /\ \A i \in Image : (Made(i)' => Made(i)) /\ (Handled(i)' => Handled(i))
  <1>1. RowsOK' /\ Grows
    BY RowsSame
  <1>2. UNCHANGED task /\ UNCHANGED purge /\ UNCHANGED image
    BY DEF jobs
  <1>3. ReqsOK' /\ req'[r] = x /\ \A q \in Request \ {r} : req'[q] = req[q]
    BY <1>1, ReqsMoved
  <1>4. \A i \in Image : MoveMade(i)' => Made(i)
    BY <1>3, MovesOf DEF Made
  <1>5. \A i \in Image : (TaskMade(i)' => TaskMade(i)) /\ (Handled(i)' => Handled(i))
    BY <1>2, SameTasks
  <1>6. \A i \in Image : RowMade(i)' => RowMade(i)
    BY <1>2, SameRows
  <1>7. \A i \in Image : Made(i)' => Made(i)
    BY <1>4, <1>5, <1>6 DEF Made
  <1> QED BY <1>1, <1>2, <1>3, <1>5, <1>7, TasksSame, PurgeSame

(* A request that treats its images one by one has one image less to do.   *)
LEMMA TodoLess ==
    ASSUME NEW t \in Under, t.op \in {"delete", "move"}, NEW i
    PROVE  /\ [t EXCEPT !.todo = t.todo \ {i}] \in Under
           /\ [t EXCEPT !.todo = t.todo \ {i}].op = t.op
           /\ [t EXCEPT !.todo = t.todo \ {i}].rows = t.rows
           /\ t.op = "delete" => [t EXCEPT !.todo = t.todo \ {i}].keys = t.keys
           /\ t.op = "move" => /\ [t EXCEPT !.todo = t.todo \ {i}].to = t.to
                               /\ [t EXCEPT !.todo = t.todo \ {i}].was = t.was
  <1> DEFINE x == [t EXCEPT !.todo = t.todo \ {i}]
  <1>1. CASE t \in Deletions
    <2>1. PICK rows \in SUBSET Image : t \in Deletion(rows)
      BY <1>1 DEF Deletions
    <2>2. x \in Deletion(rows) /\ x.op = t.op /\ x.rows = t.rows /\ x.keys = t.keys
      BY <2>1 DEF Deletion
    <2>3. t.op = "delete"
      BY <2>1 DEF Deletion
    <2>4. x \in Under
      BY <2>2 DEF Under, Deletions
    <2> HIDE DEF x
    <2> QED BY <2>2, <2>3, <2>4 DEF x
  <1>2. CASE t \in Movings
    <2>1. PICK rows \in SUBSET Image : t \in Moving(rows)
      BY <1>2 DEF Movings
    <2>2. /\ x \in Moving(rows) /\ x.op = t.op /\ x.rows = t.rows
          /\ x.to = t.to /\ x.was = t.was
      BY <2>1 DEF Moving
    <2>3. t.op = "move"
      BY <2>1 DEF Moving
    <2>4. x \in Under
      BY <2>2 DEF Under, Movings
    <2> HIDE DEF x
    <2> QED BY <2>2, <2>3, <2>4 DEF x
  <1> QED BY <1>1, <1>2 DEF Under, Nothing, Titling, Dropping

LEMMA EraseKeeps == ASSUME IInv, NEW r \in Request, Erase(r) PROVE IInv'
  <1>1. PICK i \in req[r].todo :
          /\ staging' = IF i \in req[r].staged THEN staging \ {i} ELSE staging
          /\ files' = files \ {req[r].keys[i]}
          /\ GiveUp({i})
          /\ Move(r, "begun", [req[r] EXCEPT !.todo = req[r].todo \ {i}])
    BY DEF Erase
  <1> DEFINE x == [req[r] EXCEPT !.todo = req[r].todo \ {i}]
  <1>2. /\ req[r] \in Under /\ req[r].op = "delete" /\ Fits(req[r])
        /\ i \in Image /\ i \in req[r].rows
    BY UnderShape DEF Erase, At, IInv, ReqsOK, Shape
  <1>3. x \in Under /\ x.op = "delete" /\ x.rows = req[r].rows /\ x.keys = req[r].keys
    BY <1>2, TodoLess
  <1>4. Move(r, "begun", x)
    BY <1>1
  <1> HIDE DEF x
  <1>5. Fits(x)
    BY <1>2, <1>3 DEF Fits
  <1>6. /\ RowsOK' /\ TasksOK' /\ ReqsOK' /\ PurgeOK'
        /\ \A j \in Image : (Made(j)' => Made(j)) /\ (Handled(j)' => Handled(j))
    BY <1>3, <1>4, <1>5, RequestStores DEF Erase
  <1>7. StoreTyped'
    BY <1>1 DEF GiveUp, IInv, StoreOK, StoreTyped
  <1>8. \A j \in Image : /\ upload'[j] = upload[j] \/ (upload[j] = "kept" /\ upload'[j] = "given")
                         /\ upload'[j] = "kept" => j # i
    BY <1>1 DEF GiveUp
  <1>9. \A j \in Image \ {i} : Stored(j) => Stored(j)'
    <2>1. req[r].keys[i] # None => req[r].keys[i].image = i
      BY <1>2 DEF Fits
    <2>2. None \notin files
      BY NoneApart DEF IInv, StoreOK, StoreTyped
    <2> QED BY <1>1, <2>1, <2>2 DEF Stored
  <1>10. \A j \in Image \ {i} : j \in staging => j \in staging'
    BY <1>1
  <1>11. staging' \subseteq staging
    BY <1>1
  <1>12. StoreOK'
    BY <1>6, <1>7, <1>8, <1>9, <1>10, <1>11, StoreKept
  <1> QED BY <1>6, <1>12 DEF IInv

LEMMA SweepKeeps == ASSUME IInv, NEW r \in Request, Sweep(r) PROVE IInv'
  <1> DEFINE swept == {k \in files : k.slug = req[r].slug}
  <1>1. /\ files' = files \ swept /\ GiveUp({k.image : k \in swept})
        /\ Move(r, "swept", req[r]) /\ UNCHANGED staging
    BY DEF Sweep
  <1>2. req[r] \in Under /\ req[r].op = "drop" /\ Fits(req[r])
    BY DEF Sweep, At, IInv, ReqsOK
  <1>3. /\ RowsOK' /\ TasksOK' /\ ReqsOK' /\ PurgeOK'
        /\ \A i \in Image : (Made(i)' => Made(i)) /\ (Handled(i)' => Handled(i))
    BY <1>1, <1>2, RequestStores DEF Sweep
  <1> HIDE DEF swept
  <1>4. StoreTyped'
    BY <1>1 DEF GiveUp, IInv, StoreOK, StoreTyped
  <1>5. \A i \in Image : /\ upload'[i] = upload[i] \/ (upload[i] = "kept" /\ upload'[i] = "given")
                         /\ upload'[i] = "kept" => i \notin {k.image : k \in swept}
    BY <1>1 DEF GiveUp
  <1>6. \A i \in Image : upload'[i] = "kept" /\ Stored(i) => Stored(i)'
    BY <1>1, <1>5 DEF Stored
  <1>7. StoreOK'
    BY <1>1, <1>3, <1>4, <1>5, <1>6, StoreKept
  <1> QED BY <1>3, <1>7 DEF IInv

LEMMA RelocateKeeps == ASSUME IInv, NEW r \in Request, Relocate(r) PROVE IInv'
  <1>1. PICK i \in req[r].todo :
          /\ files' = (files \ {req[r].was[i].key}) \cup {NewKey(r, i)}
          /\ Move(r, "begun", [req[r] EXCEPT !.todo = req[r].todo \ {i}])
    BY DEF Relocate
  <1> DEFINE x == [req[r] EXCEPT !.todo = req[r].todo \ {i}]
  <1>2. /\ req[r] \in Under /\ req[r].op = "move" /\ Fits(req[r])
        /\ i \in req[r].rows /\ i \in Image /\ req[r].rows \subseteq Image
        /\ req[r].slug \in Slug
    BY UnderShape DEF Relocate, At, IInv, ReqsOK, Shape
  <1>3. /\ x \in Under /\ x.op = "move" /\ x.rows = req[r].rows
        /\ x.to = req[r].to /\ x.was = req[r].was
    BY <1>2, TodoLess
  <1>4. Move(r, "begun", x)
    BY <1>1
  <1> HIDE DEF x
  <1>5. Fits(x)
    BY <1>2, <1>3 DEF Fits
  <1>6. \A j \in x.rows : Made(j)
    BY <1>2, <1>3 DEF Made, MoveMade
  <1>7. /\ RowsOK' /\ TasksOK' /\ ReqsOK' /\ PurgeOK'
        /\ \A j \in Image : (Made(j)' => Made(j)) /\ (Handled(j)' => Handled(j))
    BY <1>3, <1>4, <1>5, <1>6, RequestStores DEF Relocate
  <1>8. NewKey(r, i) \in Key /\ NewKey(r, i).image = i
    BY <1>2, KeyMade DEF NewKey, Request
  <1>9. UNCHANGED upload /\ UNCHANGED staging
    BY DEF Relocate
  <1>10. StoreTyped'
    BY <1>1, <1>8, <1>9 DEF IInv, StoreOK, StoreTyped
  <1>11. req[r].was[i].key # None => req[r].was[i].key.image = i
    BY <1>2 DEF Fits, Keyed
  <1>12. None \notin files
    BY NoneApart DEF IInv, StoreOK, StoreTyped
  <1>13. \A j \in Image : Stored(j) => Stored(j)'
    <2> SUFFICES ASSUME NEW j \in Image, Stored(j) PROVE Stored(j)'
      OBVIOUS
    <2>1. CASE j = i
      BY <2>1, <1>1, <1>8 DEF Stored
    <2>2. CASE j # i
      BY <2>2, <1>1, <1>11, <1>12 DEF Stored
    <2> QED BY <2>1, <2>2
  <1>14. StoreOK'
    BY <1>7, <1>9, <1>10, <1>13, StoreKept
  <1> QED BY <1>7, <1>14 DEF IInv

-----------------------------------------------------------------------------
(* The client sends a picture: it was nowhere.                             *)
LEMMA PutKeeps == ASSUME IInv, NEW i \in Image, Put(i) PROVE IInv'
  <1>1. /\ UNCHANGED <<album, image>> /\ UNCHANGED <<pc, req>> /\ UNCHANGED task
        /\ UNCHANGED purge /\ UNCHANGED files
        /\ upload[i] = "none" /\ staging' = staging \cup {i}
        /\ upload' = [upload EXCEPT ![i] = "kept"]
    BY DEF Put, jobs
  <1>2. RowsOK' /\ TasksOK' /\ ReqsOK' /\ PurgeOK'
    BY <1>1, RowsSame, TasksSame, ReqsSame, PurgeSame
  <1>3. \A j \in Image : (Made(j)' <=> Made(j)) /\ (Handled(j)' <=> Handled(j))
                         /\ (Stored(j)' <=> Stored(j))
    BY <1>1 DEF Made, RowMade, TaskMade, MoveMade, Handled, Stored
  <1>4. StoreTyped'
    BY <1>1 DEF IInv, StoreOK, StoreTyped
  <1>5. /\ upload'[i] = "kept" /\ \A j \in Image \ {i} : upload'[j] = upload[j]
    BY <1>1 DEF IInv, StoreOK, StoreTyped
  <1>6. ~Made(i)
    BY <1>1 DEF IInv, StoreOK, Unsent
  <1>7. MadeStored'
    BY <1>3, <1>5, <1>6 DEF IInv, StoreOK, MadeStored
  <1>8. Unsent'
    BY <1>1, <1>3, <1>5 DEF IInv, StoreOK, Unsent
  <1>9. UploadsSurvive'
    BY <1>1, <1>5 DEF IInv, StoreOK, UploadsSurvive
  <1> QED BY <1>2, <1>4, <1>7, <1>8, <1>9 DEF IInv, StoreOK

-----------------------------------------------------------------------------
(* The steps of a task.                                                    *)
LEMMA TaskKeeps ==
    ASSUME IInv, UNCHANGED <<pc, req>>, UNCHANGED purge, RowsOK', Grows, TasksOK', StoreOK'
    PROVE  IInv'
  BY ReqsSame, PurgeSame DEF IInv

(* One that leaves storage alone, and makes nothing processed.             *)
LEMMA TaskQuiet ==
    ASSUME IInv, UNCHANGED <<pc, req>>, UNCHANGED purge, UNCHANGED store,
           RowsOK', Grows, NEW t \in Task, TasksOK', OthersSame(t),
           \A i \in Image : RowMade(i)' => Made(i),
           task'[t].pc \in {"unstage", "save"} => TaskMade(task'[t].image),
           task'[t].pc \in Working \ {"download"} =>
               Handled(task'[t].image) \/ task'[t].image \in staging
    PROVE  IInv'
  <1>1. \A i \in Image : /\ TaskMade(i)' => TaskMade(i)
                         /\ Handled(i)' => Handled(i) \/ i \in staging
    BY TasksOf
  <1>2. \A i \in Image : MoveMade(i)' => MoveMade(i)
    BY SameMoves
  <1>3. \A i \in Image : Made(i)' => Made(i)
    BY <1>1, <1>2 DEF Made
  <1>4. StoreOK'
    BY <1>1, <1>3, StoreSame
  <1> QED BY <1>4, TaskKeeps

LEMMA ImageOf ==
    ASSUME IInv, NEW t \in Task, task[t].pc # "off"
    PROVE  /\ task[t] \in TaskState
           /\ task[t].image \in Image /\ image[task[t].image] # None
           /\ task[t].pc \in Working =>
                 /\ task[t].album \in Album /\ album[task[t].album] # None
                 /\ task[t].active \in BOOLEAN /\ task[t].slug \in Slug
           /\ task[t].pc \in Working \ {"download"} => Handled(task[t].image)
           /\ task[t].pc \in {"unstage", "save"} => TaskMade(task[t].image)
  BY TaskShape DEF IInv, TasksOK, Handled, TaskMade

LEMMA TakeKeeps == ASSUME IInv, NEW t \in Task, Take(t) PROVE IInv'
  <1>1. UNCHANGED <<album, image>> /\ UNCHANGED <<pc, req>> /\ UNCHANGED purge
        /\ UNCHANGED store
    BY DEF Take, Rest
  <1>2. RowsOK' /\ Grows /\ \A i \in Image : RowMade(i)' => Made(i)
    BY <1>1, RowsSame, SameRows DEF Made
  <1>3. task[t].pc = "sent"
    BY DEF Take, Runs
  <1>4. TasksOK' /\ OthersSame(t) /\ task'[t].pc \in {"off", "sent", "download"}
    <2>1. CASE image[task[t].image].staged
      <3> DEFINE i == task[t].image
                 row == image[i]
                 u == [pc |-> "download", image |-> i, tries |-> task[t].tries,
                       album |-> row.album, active |-> row.active,
                       slug |-> album[row.album].slug]
      <3>1. task[t].tries \in 0..Retries /\ i \in Image /\ row # None
        BY <1>3, ImageOf, TaskShape
      <3>2. row \in Row /\ row.album \in Album /\ album[row.album] # None
        BY <3>1, RowOf
      <3>3. row.active \in BOOLEAN /\ album[row.album].slug \in Slug
        BY <3>2, AlbumOf DEF Row
      <3>4. /\ u \in TaskState /\ u.pc = "download" /\ u.image = i /\ u.album = row.album
        BY <3>1, <3>2, <3>3 DEF TaskState, Working
      <3>5. task' = [task EXCEPT ![t] = u]
        BY <2>1 DEF Take
      <3> HIDE DEF u, row
      <3>6. image'[i] # None /\ album'[row.album] # None
        BY <1>1, <3>1, <3>2 DEF row
      <3> QED BY <1>2, <3>4, <3>5, <3>6, TaskSet
    <2>2. CASE ~image[task[t].image].staged
      <3>1. Again(t) /\ task[t].pc # "off"
        BY <1>3, <2>2 DEF Take
      <3> QED BY <1>2, <3>1, TaskAgain
    <2> QED BY <2>1, <2>2
  <1> QED BY <1>1, <1>2, <1>4, TaskQuiet DEF Working

(* A step to the next part of the task that leaves rows and storage alone. *)
LEMMA GoesKeeps ==
    ASSUME IInv, UNCHANGED <<album, image>>, UNCHANGED <<pc, req>>, UNCHANGED purge,
           UNCHANGED store,
           NEW t \in Task, NEW to \in Working, task[t].pc \in Working, Goes(t, to),
           to \in {"unstage", "save"} => TaskMade(task[t].image),
           to # "download" => Handled(task[t].image) \/ task[t].image \in staging
    PROVE  IInv'
  <1>1. RowsOK' /\ Grows /\ \A i \in Image : RowMade(i)' => Made(i)
    BY RowsSame, SameRows DEF Made
  <1>2. /\ TasksOK' /\ OthersSame(t)
        /\ task'[t].pc = to /\ task'[t].image = task[t].image
    BY <1>1, TaskGoes
  <1> QED BY <1>1, <1>2, TaskQuiet

LEMMA DownloadKeeps == ASSUME IInv, NEW t \in Task, Download(t) PROVE IInv'
  BY GoesKeeps DEF Download, Runs, Rest, Working

LEMMA GoneKeeps ==
    ASSUME IInv, UNCHANGED <<pc, req>>, UNCHANGED purge, UNCHANGED store,
           RowsOK', Grows, \A i \in Image : RowMade(i)' => RowMade(i),
           NEW t \in Task, task[t].pc # "off", Gone(t) \/ Again(t)
    PROVE  IInv'
  <1>1. TasksOK' /\ OthersSame(t) /\ task'[t].pc \in {"off", "sent"}
    BY TaskGone, TaskAgain
  <1> QED BY <1>1, TaskQuiet DEF Working, Made

LEMMA RefreshKeeps == ASSUME IInv, NEW t \in Task, Refresh(t) \/ Crash(t) PROVE IInv'
  <1>1. UNCHANGED <<album, image>> /\ UNCHANGED <<pc, req>> /\ UNCHANGED purge
        /\ UNCHANGED store /\ task[t].pc # "off" /\ Gone(t)
    BY DEF Refresh, Crash, Rest, Runs, Working
  <1>2. RowsOK' /\ Grows /\ \A i \in Image : RowMade(i)' => RowMade(i)
    BY <1>1, RowsSame, SameRows
  <1> QED BY <1>1, <1>2, GoneKeeps

LEMMA RefuseKeeps == ASSUME IInv, NEW t \in Task, Refuse(t) \/ Raise(t) PROVE IInv'
  <1>1. /\ UNCHANGED album /\ UNCHANGED <<pc, req>> /\ UNCHANGED purge
        /\ UNCHANGED store /\ task[t].pc # "off" /\ (Gone(t) \/ Again(t))
        /\ image' \in {image, [image EXCEPT ![task[t].image].status = "failed"]}
    BY DEF Refuse, Raise, Rest, Runs, Working
  <1>2. RowsOK' /\ Grows /\ \A i \in Image : RowMade(i)' => RowMade(i)
    <2>1. CASE image' = image
      BY <2>1, <1>1, RowsSame, SameRows
    <2>2. CASE image' = [image EXCEPT ![task[t].image].status = "failed"]
      BY <2>2, <1>1, ImageOf, StatusRows
    <2> QED BY <1>1, <2>1, <2>2
  <1> QED BY <1>1, <1>2, GoneKeeps

LEMMA CountKeeps == ASSUME IInv, NEW t \in Task, Count(t) PROVE IInv'
  <1>1. UNCHANGED <<album, image>> /\ UNCHANGED <<pc, req>> /\ UNCHANGED purge
        /\ UNCHANGED store /\ task[t].pc = "count" /\ Goes(t, "refresh")
    BY DEF Count, Runs
  <1>2. Handled(task[t].image)
    BY <1>1, ImageOf DEF Working
  <1> QED BY <1>1, <1>2, GoesKeeps DEF Working

LEMMA CheckKeeps == ASSUME IInv, NEW t \in Task, Check(t) PROVE IInv'
  <1> DEFINE i == task[t].image
  <1>1. /\ UNCHANGED <<album, image>> /\ UNCHANGED <<pc, req>> /\ UNCHANGED purge
        /\ UNCHANGED image /\ UNCHANGED req /\ UNCHANGED files
        /\ task[t].pc = "check"
    BY DEF Check, Rest, Runs
  <1>2. i \in Image /\ Handled(i)
    BY <1>1, ImageOf DEF Working
  <1>3. CASE Doubles(t) = {}
    <2>1. Goes(t, "upload") /\ UNCHANGED store
      BY <1>1, <1>3 DEF Check, store
    <2> QED BY <1>1, <1>2, <2>1, GoesKeeps DEF Working
  <1>4. CASE Doubles(t) # {}
    <2>1. /\ Goes(t, "refuse") /\ staging' = staging \ {i}
          /\ GiveUp(IF Doubles(t) \subseteq {i} THEN {} ELSE {i})
      BY <1>4 DEF Check
    <2>2. RowsOK' /\ Grows /\ \A j \in Image : RowMade(j)' => RowMade(j)
      BY <1>1, RowsSame, SameRows
    <2>3. /\ TasksOK' /\ OthersSame(t) /\ task'[t].pc = "refuse" /\ task'[t].image = i
      BY <1>1, <2>1, <2>2, TaskGoes DEF Working
    <2>4. \A j \in Image : (TaskMade(j)' => TaskMade(j)) /\ (Handled(j)' => Handled(j))
      BY <1>2, <2>3, TasksOf
    <2>5. \A j \in Image : Made(j)' => Made(j)
      BY <1>1, <2>2, <2>4, SameMoves DEF Made
    <2>6. StoreTyped'
      BY <1>1, <2>1 DEF GiveUp, IInv, StoreOK, StoreTyped
    <2>7. \A j \in Image : Stored(j) <=> Stored(j)'
      BY <1>1 DEF Stored
    <2>8. \A j \in Image : upload'[j] = upload[j] \/ (upload[j] = "kept" /\ upload'[j] = "given")
      BY <2>1 DEF GiveUp
    <2>9. upload'[i] = "kept" => Stored(i)
      <3> SUFFICES ASSUME upload'[i] = "kept" PROVE Stored(i)
        OBVIOUS
      <3>1. Doubles(t) \subseteq {i} /\ upload[i] = "kept"
        BY <1>2, <2>1 DEF GiveUp
      <3>2. i \in Doubles(t)
        BY <1>4, <3>1
      <3>3. RowMade(i)
        BY <3>2 DEF Doubles, In, RowMade
      <3> QED BY <1>2, <3>1, <3>3 DEF IInv, StoreOK, MadeStored, Made
    <2>10. \A j \in Image : upload'[j] = "kept" /\ j \in staging => j \in staging' \/ Stored(j)'
      BY <2>1, <2>7, <2>9
    <2>11. StoreOK'
      BY <2>1, <2>4, <2>5, <2>6, <2>7, <2>8, <2>10, StoreKept
    <2> QED BY <1>1, <2>2, <2>3, <2>11, TaskKeeps
  <1> QED BY <1>3, <1>4

LEMMA UploadKeeps == ASSUME IInv, NEW t \in Task, Upload(t) PROVE IInv'
  <1>1. /\ UNCHANGED <<album, image>> /\ UNCHANGED <<pc, req>> /\ UNCHANGED purge
        /\ UNCHANGED image /\ UNCHANGED req /\ UNCHANGED staging /\ UNCHANGED upload
        /\ task[t].pc = "upload" /\ Goes(t, "unstage")
        /\ files' = files \cup {MadeKey(t)}
    BY DEF Upload, Rest, Runs
  <1>2. PICK i \in Image : i = task[t].image /\ Handled(i) /\ task[t].slug \in Slug
    BY <1>1, ImageOf DEF Working
  <1>3. RowsOK' /\ Grows /\ \A j \in Image : RowMade(j)' => RowMade(j)
    BY <1>1, RowsSame, SameRows
  <1>4. /\ TasksOK' /\ OthersSame(t) /\ task'[t].pc = "unstage" /\ task'[t].image = i
    BY <1>1, <1>2, <1>3, TaskGoes DEF Working
  <1>5. \A j \in Image : (TaskMade(j)' => TaskMade(j) \/ j = i) /\ (Handled(j)' => Handled(j))
    BY <1>2, <1>4, TasksOf
  <1>6. MadeKey(t) \in Key /\ MadeKey(t).image = i
    BY <1>2, KeyMade, BoundAssumption DEF MadeKey
  <1>7. StoreTyped' /\ Stored(i)' /\ \A j \in Image : Stored(j) => Stored(j)'
    BY <1>1, <1>6 DEF IInv, StoreOK, StoreTyped, Stored
  <1>8. \A j \in Image : Made(j)' => Made(j) \/ (Handled(j) /\ Stored(j)')
    BY <1>1, <1>2, <1>3, <1>5, <1>7, SameMoves DEF Made
  <1>9. StoreOK'
    BY <1>1, <1>5, <1>7, <1>8, StoreKept
  <1> QED BY <1>1, <1>3, <1>4, <1>9, TaskKeeps

LEMMA UnstageKeeps == ASSUME IInv, NEW t \in Task, Unstage(t) PROVE IInv'
  <1> DEFINE i == task[t].image
  <1>1. /\ UNCHANGED <<album, image>> /\ UNCHANGED <<pc, req>> /\ UNCHANGED purge
        /\ UNCHANGED image /\ UNCHANGED req /\ UNCHANGED files /\ UNCHANGED upload
        /\ task[t].pc = "unstage" /\ Goes(t, "save") /\ staging' = staging \ {i}
    BY DEF Unstage, Rest, Runs
  <1>2. i \in Image /\ Handled(i) /\ TaskMade(i)
    BY <1>1, ImageOf DEF Working
  <1>3. RowsOK' /\ Grows /\ \A j \in Image : RowMade(j)' => RowMade(j)
    BY <1>1, RowsSame, SameRows
  <1>4. /\ TasksOK' /\ OthersSame(t) /\ task'[t].pc = "save" /\ task'[t].image = i
    BY <1>1, <1>3, TaskGoes DEF Working
  <1>5. \A j \in Image : (TaskMade(j)' => TaskMade(j)) /\ (Handled(j)' => Handled(j))
    BY <1>2, <1>4, TasksOf
  <1>6. \A j \in Image : Made(j)' => Made(j)
    BY <1>1, <1>3, <1>5, SameMoves DEF Made
  <1>7. StoreTyped' /\ \A j \in Image : Stored(j) <=> Stored(j)'
    BY <1>1 DEF IInv, StoreOK, StoreTyped, Stored
  <1>8. upload[i] = "kept" => Stored(i)
    BY <1>2 DEF IInv, StoreOK, MadeStored, Made
  <1>9. \A j \in Image : upload'[j] = "kept" /\ j \in staging => j \in staging' \/ Stored(j)'
    BY <1>1, <1>7, <1>8
  <1>10. StoreOK'
    BY <1>1, <1>5, <1>6, <1>7, <1>9, StoreKept
  <1> QED BY <1>1, <1>3, <1>4, <1>10, TaskKeeps

LEMMA SaveKeeps == ASSUME IInv, NEW t \in Task, Save(t) PROVE IInv'
  <1> DEFINE i == task[t].image
             row == [album |-> task[t].album, active |-> task[t].active,
                     status |-> "ready", staged |-> FALSE, key |-> MadeKey(t)]
  <1>1. /\ UNCHANGED album /\ UNCHANGED <<pc, req>> /\ UNCHANGED purge /\ UNCHANGED store
        /\ task[t].pc = "save" /\ Goes(t, "count") /\ image' = [image EXCEPT ![i] = row]
    BY DEF Save, Rest, Runs
  <1>2. /\ i \in Image /\ Handled(i) /\ TaskMade(i)
        /\ task[t].album \in Album /\ album[task[t].album] # None
        /\ task[t].active \in BOOLEAN /\ task[t].slug \in Slug
    BY <1>1, ImageOf DEF Working
  <1>3. MadeKey(t) \in Key /\ MadeKey(t).image = i /\ MadeKey(t) # None
    BY <1>2, KeyMade, BoundAssumption DEF MadeKey
  <1>4. row \in Row
    BY <1>2, <1>3 DEF Row
  <1>5. row.album = task[t].album /\ row.key = MadeKey(t) /\ row.status = "ready"
    OBVIOUS
  <1> HIDE DEF row
  <1>6. row # None /\ album[row.album] # None /\ Keyed(row, i)
    BY <1>2, <1>3, <1>4, <1>5, NoneApart DEF Keyed
  <1>7. /\ image' \in [Image -> Row \cup {None}] /\ image'[i] = row
        /\ \A j \in Image \ {i} : image'[j] = image[j]
    BY <1>1, <1>2, <1>4 DEF IInv, RowsOK
  <1>8. RowsOK' /\ Grows
    BY <1>1, <1>6, <1>7, RowsSet
  <1>9. \A j \in Image : RowMade(j)' => Made(j)
    BY <1>2, <1>7 DEF RowMade, Made
  <1>10. /\ TasksOK' /\ OthersSame(t) /\ task'[t].pc = "count" /\ task'[t].image = i
    BY <1>1, <1>8, TaskGoes DEF Working
  <1> QED BY <1>1, <1>2, <1>8, <1>9, <1>10, TaskQuiet

-----------------------------------------------------------------------------
(* The purge and the audit.                                                *)
LEMMA OwnSteps ==
    ASSUME IInv, UNCHANGED task, UNCHANGED <<pc, req>>, RowsOK', Grows, PurgeOK',
           \A i \in Image : RowMade(i)' => RowMade(i)
    PROVE  /\ TasksOK' /\ ReqsOK'
           /\ \A i \in Image : (Made(i)' => Made(i)) /\ (Handled(i)' => Handled(i))
  <1>1. UNCHANGED req
    OBVIOUS
  <1> QED BY <1>1, TasksSame, ReqsSame, SameTasks, SameMoves DEF Made

LEMMA PurgeOf ==
    ASSUME IInv, purge # None
    PROVE  /\ purge \in [image : Image, object : BOOLEAN]
           /\ purge.image \in Image /\ image[purge.image] # None
  BY DEF IInv, PurgeOK

LEMMA BeginPurgeKeeps == ASSUME IInv, BeginPurge PROVE IInv'
  <1>1. /\ UNCHANGED <<album, image>> /\ UNCHANGED task /\ UNCHANGED <<pc, req>>
        /\ UNCHANGED store
    BY DEF BeginPurge
  <1>2. PICK i \in Stale : purge' = [image |-> i, object |-> TRUE]
    BY DEF BeginPurge
  <1>3. i \in Image /\ image[i] # None
    BY DEF Stale
  <1>4. PurgeOK'
    BY <1>1, <1>2, <1>3 DEF PurgeOK
  <1>5. RowsOK' /\ Grows /\ \A j \in Image : RowMade(j)' => RowMade(j)
    BY <1>1, RowsSame, SameRows
  <1>6. /\ TasksOK' /\ ReqsOK'
        /\ \A j \in Image : (Made(j)' => Made(j)) /\ (Handled(j)' => Handled(j))
    BY <1>1, <1>4, <1>5, OwnSteps
  <1>7. StoreOK'
    BY <1>1, <1>6, StoreSame
  <1> QED BY <1>4, <1>5, <1>6, <1>7 DEF IInv

LEMMA PurgeObjectKeeps == ASSUME IInv, PurgeObject PROVE IInv'
  <1>1. /\ UNCHANGED <<album, image>> /\ UNCHANGED task /\ UNCHANGED <<pc, req>>
        /\ UNCHANGED files /\ purge # None
    BY DEF PurgeObject
  <1>2. PICK i \in Image : i = purge.image /\ image[i] # None
    BY <1>1, PurgeOf
  <1>3. /\ staging' = staging \ {i} /\ GiveUp({i} \cap staging)
    BY <1>2 DEF PurgeObject
  <1>4. PurgeOK'
    <2>1. [purge EXCEPT !.object = FALSE] \in [image : Image, object : BOOLEAN]
          /\ [purge EXCEPT !.object = FALSE].image = purge.image
      BY <1>1, PurgeOf
    <2>2. purge' = [purge EXCEPT !.object = FALSE]
      BY DEF PurgeObject
    <2>3. purge' \in [image : Image, object : BOOLEAN] /\ purge'.image = i
      BY <1>2, <2>1, <2>2
    <2> QED BY <1>1, <1>2, <2>3 DEF PurgeOK
  <1>5. RowsOK' /\ Grows /\ \A j \in Image : RowMade(j)' => RowMade(j)
    BY <1>1, RowsSame, SameRows
  <1>6. /\ TasksOK' /\ ReqsOK'
        /\ \A j \in Image : (Made(j)' => Made(j)) /\ (Handled(j)' => Handled(j))
    BY <1>1, <1>4, <1>5, OwnSteps
  <1>7. StoreTyped' /\ \A j \in Image : Stored(j) <=> Stored(j)'
    BY <1>1, <1>3 DEF GiveUp, IInv, StoreOK, StoreTyped, Stored
  <1>8. /\ \A j \in Image : upload'[j] = upload[j] \/ (upload[j] = "kept" /\ upload'[j] = "given")
        /\ \A j \in Image : upload'[j] = "kept" /\ j \in staging => j \in staging'
        /\ staging' \subseteq staging
    BY <1>3 DEF GiveUp
  <1>9. StoreOK'
    BY <1>6, <1>7, <1>8, StoreKept
  <1> QED BY <1>4, <1>5, <1>6, <1>9 DEF IInv

LEMMA PurgeEndKeeps == ASSUME IInv, PurgeRow \/ PurgeStops PROVE IInv'
  <1>1. /\ UNCHANGED album /\ UNCHANGED task /\ UNCHANGED <<pc, req>>
        /\ UNCHANGED store /\ purge # None /\ purge' = None
    BY DEF PurgeRow, PurgeStops
  <1>2. PICK i \in Image : i = purge.image /\ image[i] # None
    BY <1>1, PurgeOf
  <1>3. RowsOK' /\ Grows /\ \A j \in Image : RowMade(j)' => RowMade(j)
    <2>1. CASE UNCHANGED image
      BY <1>1, <2>1, RowsSame, SameRows
    <2>2. CASE image' = [image EXCEPT ![i].staged = FALSE]
      <3> DEFINE row == [image[i] EXCEPT !.staged = FALSE]
      <3>1. /\ row \in Row /\ row.status = image[i].status
            /\ row.album = image[i].album /\ row.key = image[i].key
            /\ album[image[i].album] # None /\ Keyed(image[i], i)
        BY <1>2, RowOf, StagedSet
      <3>2. image' = [image EXCEPT ![i] = row]
        BY <2>2
      <3> HIDE DEF row
      <3>3. /\ image' \in [Image -> Row \cup {None}] /\ image'[i] = row
            /\ \A j \in Image \ {i} : image'[j] = image[j]
        BY <3>1, <3>2 DEF IInv, RowsOK
      <3>4. row # None /\ album[row.album] # None /\ Keyed(row, i)
        BY <3>1, NoneApart DEF Keyed
      <3>5. RowsOK' /\ Grows
        BY <1>1, <3>3, <3>4, RowsSet
      <3>6. \A j \in Image : RowMade(j)' => RowMade(j)
        BY <1>2, <3>1, <3>3 DEF RowMade
      <3> QED BY <3>5, <3>6
    <2>3. UNCHANGED image \/ image' = [image EXCEPT ![i].staged = FALSE]
      BY <1>2 DEF PurgeRow, PurgeStops
    <2> QED BY <2>1, <2>2, <2>3
  <1>4. PurgeOK'
    BY <1>1 DEF PurgeOK
  <1>5. /\ TasksOK' /\ ReqsOK'
        /\ \A j \in Image : (Made(j)' => Made(j)) /\ (Handled(j)' => Handled(j))
    BY <1>1, <1>3, <1>4, OwnSteps
  <1>6. StoreOK'
    BY <1>1, <1>5, StoreSame
  <1> QED BY <1>3, <1>4, <1>5, <1>6 DEF IInv

LEMMA StutterKeeps ==
    ASSUME IInv, UNCHANGED <<album, image>>, UNCHANGED task, UNCHANGED <<pc, req>>,
           UNCHANGED purge, UNCHANGED store
    PROVE  IInv'
  <1>1. RowsOK' /\ Grows /\ \A j \in Image : RowMade(j)' => RowMade(j)
    BY RowsSame, SameRows
  <1>2. PurgeOK'
    BY <1>1, PurgeSame
  <1>3. /\ TasksOK' /\ ReqsOK'
        /\ \A j \in Image : (Made(j)' => Made(j)) /\ (Handled(j)' => Handled(j))
    BY <1>1, <1>2, OwnSteps
  <1>4. StoreOK'
    BY <1>3, StoreSame
  <1> QED BY <1>1, <1>2, <1>3, <1>4 DEF IInv

-----------------------------------------------------------------------------
LEMMA InitKeeps == Init => IInv
  <1> SUFFICES ASSUME Init PROVE IInv
    OBVIOUS
  <1>1. ASSUME NEW i \in Image, Placed[i] # None
        PROVE  /\ Placed[i] \in Album /\ Opened[Placed[i]] \in Slug
               /\ FirstKey(i) \in Key /\ FirstKey(i).image = i /\ FirstKey(i) # None
    <2>1. Placed[i] \in Album /\ Opened[Placed[i]] \in Slug
      BY <1>1, PlacedAssumption, OpenedAssumption
    <2> QED BY <2>1, KeyMade, BoundAssumption DEF FirstKey
  <1>2. RowsOK
    <2>1. album \in [Album -> AlbumRow \cup {None}]
      BY OpenedAssumption DEF Init, AlbumRow
    <2>2. \A a \in Album : Opened[a] # None => album[a] # None
      <3> SUFFICES ASSUME NEW a \in Album, Opened[a] # None PROVE album[a] # None
        OBVIOUS
      <3>1. album[a] = [active |-> TRUE, slug |-> Opened[a]]
        BY DEF Init
      <3>2. Opened[a] \in Slug
        BY OpenedAssumption
      <3>3. album[a] \in AlbumRow
        BY <3>1, <3>2 DEF AlbumRow
      <3> QED BY <3>3, NoneApart
    <2>3. ASSUME NEW i \in Image, Placed[i] # None
          PROVE  /\ image[i] \in Row /\ image[i].album = Placed[i]
                 /\ Keyed(image[i], i)
      <3> DEFINE row == [album |-> Placed[i], active |-> TRUE, status |-> "ready",
                         staged |-> FALSE, key |-> FirstKey(i)]
      <3>1. image[i] = row
        BY <2>3 DEF Init
      <3>2. row \in Row
        BY <1>1, <2>3 DEF Row
      <3>3. row.album = Placed[i] /\ row.key = FirstKey(i) /\ row.status = "ready"
        OBVIOUS
      <3> HIDE DEF row
      <3> QED BY <3>1, <3>2, <3>3, <1>1, <2>3 DEF Keyed
    <2>4. \A i \in Image : Placed[i] = None => image[i] = None
      BY DEF Init
    <2>5. image = [i \in Image |-> image[i]]
      BY DEF Init
    <2>6. image \in [Image -> Row \cup {None}]
      BY <2>3, <2>4, <2>5
    <2>7. \A i \in Image : image[i] # None => /\ album[image[i].album] # None
                                              /\ Keyed(image[i], i)
      BY <1>1, <2>2, <2>3, <2>4, NoneApart
    <2> QED BY <2>1, <2>6, <2>7 DEF RowsOK
  <1>3. TasksOK /\ \A t \in Task : task[t].pc = "off"
    BY DEF Init, TasksOK, TaskState, Off, Working
  <1>4. ReqsOK /\ \A r \in Request : req[r].op = "nothing"
    BY NothingFits DEF Init, ReqsOK
  <1>5. PurgeOK
    BY DEF Init, PurgeOK
  <1>6. StoreTyped
    BY <1>1 DEF Init, StoreTyped, PlacedImages
  <1>7. \A i \in Image : upload[i] = "kept" => Stored(i)
    BY <1>1 DEF Init, Stored, PlacedImages
  <1>8. \A i \in Image : upload[i] = "none" => image[i] = None
    BY DEF Init
  <1>9. \A i \in Image : ~TaskMade(i) /\ ~Handled(i) /\ ~MoveMade(i)
    BY <1>3, <1>4 DEF TaskMade, Handled, MoveMade, Working
  <1>10. Unsent
    BY <1>8, <1>9 DEF Unsent, Made, RowMade, Init
  <1>11. MadeStored /\ UploadsSurvive
    BY <1>7 DEF MadeStored, UploadsSurvive, Stored
  <1> QED BY <1>2, <1>3, <1>4, <1>5, <1>6, <1>10, <1>11 DEF IInv, StoreOK

LEMMA NextKeeps == IInv /\ [Next]_vars => IInv'
  <1> SUFFICES ASSUME IInv, [Next]_vars PROVE IInv'
    OBVIOUS
  <1>1. ASSUME NEW r \in Request,
               \/ BeginTitle(r) \/ CommitTitle(r) \/ Presign(r) \/ Confirm(r) \/ Retry(r)
               \/ BeginDelete(r) \/ Erase(r) \/ CommitDelete(r)
               \/ BeginDrop(r) \/ Sweep(r) \/ CommitDrop(r)
               \/ BeginMove(r) \/ Relocate(r) \/ CommitMove(r)
               \/ Rollback(r)
        PROVE  IInv'
    BY <1>1, BeginTitleKeeps, CommitTitleKeeps, PresignKeeps, ConfirmKeeps, RetryKeeps,
       BeginDeleteKeeps, EraseKeeps, CommitDeleteKeeps, BeginDropKeeps, SweepKeeps,
       CommitDropKeeps, BeginMoveKeeps, RelocateKeeps, CommitMoveKeeps, RollbackKeeps
  <1>2. ASSUME NEW i \in Image, Put(i) PROVE IInv'
    BY <1>2, PutKeeps
  <1>3. ASSUME NEW t \in Task,
               \/ Take(t) \/ Download(t) \/ Check(t) \/ Refuse(t) \/ Upload(t) \/ Unstage(t)
               \/ Save(t) \/ Count(t) \/ Refresh(t) \/ Raise(t) \/ Crash(t)
        PROVE  IInv'
    BY <1>3, TakeKeeps, DownloadKeeps, CheckKeeps, RefuseKeeps, UploadKeeps, UnstageKeeps,
       SaveKeeps, CountKeeps, RefreshKeeps
  <1>4. CASE BeginPurge \/ PurgeObject \/ PurgeRow \/ PurgeStops
    BY <1>4, BeginPurgeKeeps, PurgeObjectKeeps, PurgeEndKeeps
  <1>5. CASE Audit \/ SaveAudit \/ UNCHANGED vars
    BY <1>5, StutterKeeps DEF Audit, SaveAudit, vars, store
  <1> QED BY <1>1, <1>2, <1>3, <1>4, <1>5 DEF Next

(* No picture that the client sent is lost before it is given up, for any  *)
(* number of albums, images, requests, tasks and retries, although objects *)
(* are moved and deleted outside the transactions that record it.          *)
THEOREM UploadsAreKept == Spec => []UploadsSurvive
  <1>1. IInv => UploadsSurvive
    BY DEF IInv, StoreOK
  <1> QED BY <1>1, InitKeeps, NextKeeps, PTL DEF Spec

-----------------------------------------------------------------------------
(* A picture that is kept and shown as ready is in a file: the object the  *)
(* client sent need not be there any more.  The file may have another key  *)
(* than the row names, once a task and a move have worked on the image.    *)
ReadyStored ==
    \A i \in Image : /\ upload[i] = "kept"
                     /\ image[i] # None /\ image[i].status = "ready"
                     => \E k \in files : k.image = i

THEOREM ReadyIsStored == Spec => []ReadyStored
  <1>1. IInv => ReadyStored
    <2> SUFFICES ASSUME IInv, NEW i \in Image, upload[i] = "kept", image[i] # None,
                        image[i].status = "ready"
                 PROVE  Stored(i)
      BY DEF ReadyStored, Stored
    <2>1. RowMade(i)
      BY RowOf DEF Keyed, RowMade
    <2> QED BY <2>1 DEF IInv, StoreOK, MadeStored, Made
  <1> QED BY <1>1, InitKeeps, NextKeeps, PTL DEF Spec
=============================================================================
