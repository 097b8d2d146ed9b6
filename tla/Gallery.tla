------------------------------- MODULE Gallery -------------------------------
(***************************************************************************)
(* The gallery of a school (apps/gallery) and the bytes it is charged for  *)
(* (apps/organizations/billing/storage_quota.py): an image is uploaded to  *)
(* a staging object, a task turns it into the files that are shown, and    *)
(* images and albums are moved, renamed and deleted.                       *)
(*                                                                         *)
(* A request is a database transaction: its rows show when it commits.     *)
(* Objects in storage are written and deleted at once, and stay so when    *)
(* the request rolls back.  Tasks run outside any transaction: each of     *)
(* their statements commits by itself.                                     *)
(*                                                                         *)
(* The image and its thumbnail are one file.  An album's cover, its count  *)
(* of images and the order of images are left out; so are images shown     *)
(* from elsewhere (external_url), which have no files.  The albums are     *)
(* those of one branch for the whole school, whose slugs no constraint     *)
(* keeps apart.  Confirming with the task run inside the request is left   *)
(* out.  A definition above one whose name it extends (CountedAnywhere     *)
(* above Counted, UploadLater above Upload) is that definition with a      *)
(* mistake, which no action uses.                                          *)
(***************************************************************************)
EXTENDS Integers, FiniteSets
LOCAL INSTANCE FiniteSetsExt

CONSTANTS
    Image, Album, Slug,
    Opened,         \* the slug of an album that is there at the start, or None
    Placed,         \* the album of an image that is there at the start, or None
    PictureOf,      \* what each image shows
    Size,           \* the bytes a picture takes once it is processed
    Limit,          \* the bytes the school may store
    Requests,       \* bound: how many requests write
    Task,           \* slots for messages and the tasks that treat them
    Retries,        \* how often a task that failed is tried again
    None

ASSUME ImageAssumption == IsFiniteSet(Image)
ASSUME SizeAssumption  == \A i \in Image : Size[PictureOf[i]] \in Nat
ASSUME OpenedAssumption ==
    /\ Opened \in [Album -> Slug \cup {None}]
    /\ \A a, b \in Album : Opened[a] = Opened[b] => a = b \/ Opened[a] = None
ASSUME PlacedAssumption ==
    /\ Placed \in [Image -> Album \cup {None}]
    /\ \A i \in Image : Placed[i] # None => Opened[Placed[i]] # None
ASSUME BoundAssumption == {Limit, Requests, Retries} \subseteq Nat

VARIABLES
    album,      \* GalleryAlbum
    image,      \* GalleryImage
    staging,    \* the images whose staging object is there
    files,      \* the files in storage
    usage,      \* TenantQuota.usage of storage
    task,       \* process_gallery_upload
    pc, req,    \* where each request is, and what it works with
    purge,      \* the image the purge is at, and whether its object goes next
    audit,      \* what the audit has counted
    upload      \* history: is a picture uploaded, and has it been given up?

vars == <<album, image, staging, files, usage, task, pc, req, purge, audit, upload>>
store == <<staging, files, upload>>
jobs  == <<task, purge, audit>>

-----------------------------------------------------------------------------
(* The key of a file: the slug its album had, the image, and the request   *)
(* that moved it there, 0 for the task that made it.                       *)
Request == 1..Requests
Key     == [slug : Slug, image : Image, by : 0..Requests]
Row     == [album : Album, active : BOOLEAN, status : {"pending", "ready", "failed"},
            staged : BOOLEAN, key : Key \cup {None}]

ASSUME NoneAssumption ==
    None \notin Slug \cup Album \cup Key \cup Row \cup [active : BOOLEAN, slug : Slug]

KeyFor(slug, i, by) == [slug |-> slug, image |-> i, by |-> by]
Bytes(i) == Size[PictureOf[i]]
BytesOf(images) == MapThenSumSet(Bytes, images)

(* What the audit counts.                                                  *)
CountedAnywhere == {i \in Image : /\ image[i] # None
                                  /\ image[i].active /\ image[i].status = "ready"}

Counted == {i \in Image : /\ image[i] # None
                          /\ image[i].active /\ image[i].status = "ready"
                          /\ album[image[i].album].active}

Nothing == [op |-> "nothing"]
Off     == [pc |-> "off"]

(* A school that uses its gallery.                                         *)
PlacedImages == {i \in Image : Placed[i] # None}
FirstKey(i)  == KeyFor(Opened[Placed[i]], i, 0)

Init ==
    /\ album = [a \in Album |-> IF Opened[a] = None THEN None
                               ELSE [active |-> TRUE, slug |-> Opened[a]]]
    /\ image = [i \in Image |-> IF Placed[i] = None THEN None
                    ELSE [album |-> Placed[i], active |-> TRUE, status |-> "ready",
                          staged |-> FALSE, key |-> FirstKey(i)]]
    /\ staging = {}
    /\ files = {FirstKey(i) : i \in PlacedImages}
    /\ usage = BytesOf(PlacedImages)
    /\ task = [t \in Task |-> Off]
    /\ pc = [r \in Request |-> "idle"]
    /\ req = [r \in Request |-> Nothing]
    /\ purge = None /\ audit = None
    /\ upload = [i \in Image |-> IF Placed[i] = None THEN "none" ELSE "kept"]

New(r) == pc[r] = "idle" /\ \A q \in Request : q < r => pc[q] # "idle"
At(r, op) == pc[r] = "begun" /\ req[r].op = op
Move(r, to, t) == pc' = [pc EXCEPT ![r] = to] /\ req' = [req EXCEPT ![r] = t]
Begin(r, t) ==
    /\ New(r) /\ Move(r, "begun", t)
    /\ UNCHANGED <<album, image, usage>> /\ UNCHANGED store /\ UNCHANGED jobs
End(r) == Move(r, "done", Nothing)

Live(a) == album[a] # None /\ album[a].active
In(a)   == {i \in Image : image[i] # None /\ image[i].active /\ image[i].album = a}

(* What the pages of the gallery show.                                     *)
Shown == {i \in Image : image[i] # None /\ image[i].status = "ready"
                        /\ \E a \in Album : Live(a) /\ i \in In(a)}

(* Deleting an album updates its images before it sweeps the folder: from  *)
(* then on others wait for these rows.                                     *)
RowFree(i) == \A r \in Request : pc[r] = "swept" => i \notin req[r].rows

(* The usage is locked when it is adjusted, and never falls below zero.    *)
Adjusted(freed) == IF freed > usage THEN 0 ELSE usage - freed

(* History: these pictures are given up.                                   *)
GiveUp(images) ==
    upload' = [i \in Image |-> IF i \in images /\ upload[i] = "kept"
                              THEN "given" ELSE upload[i]]

(* A request fails, or the database ends it.                               *)
Rollback(r) ==
    /\ pc[r] \in {"begun", "swept"}
    /\ End(r)
    /\ UNCHANGED <<album, image, usage>> /\ UNCHANGED store /\ UNCHANGED jobs

-----------------------------------------------------------------------------
(* An album is created, or gets a new title: no other album has the slug   *)
(* when it is chosen; the row is saved later, all of it.                   *)
BeginTitle(r) == \E a \in Album, s \in Slug :
    /\ album[a] = None \/ Live(a)
    /\ \A b \in Album \ {a} : Live(b) => album[b].slug # s
    /\ Begin(r, [op |-> "title", album |-> a, slug |-> s, fresh |-> album[a] = None])

CommitTitle(r) ==
    /\ At(r, "title")
    /\ req[r].fresh => album[req[r].album] = None
    /\ album' = [album EXCEPT ![req[r].album] = [active |-> TRUE, slug |-> req[r].slug]]
    /\ End(r)
    /\ UNCHANGED <<image, usage>> /\ UNCHANGED store /\ UNCHANGED jobs

(* presign_uploads: the usage is read without a lock.                      *)
Presign(r) == \E a \in Album : \E new \in (SUBSET {i \in Image : image[i] = None}) \ {{}} :
    /\ New(r) /\ Live(a)
    /\ usage < Limit
    /\ image' = [i \in Image |-> IF i \notin new THEN image[i]
                     ELSE [album |-> a, active |-> TRUE, status |-> "pending",
                           staged |-> TRUE, key |-> None]]
    /\ End(r)
    /\ UNCHANGED <<album, usage>> /\ UNCHANGED store /\ UNCHANGED jobs

(* The client sends the picture, once, to the address it was given or      *)
(* through the API.                                                        *)
Put(i) ==
    /\ image[i] # None /\ upload[i] = "none"
    /\ staging' = staging \cup {i}
    /\ upload' = [upload EXCEPT ![i] = "kept"]
    /\ UNCHANGED <<album, image, files, usage, pc, req>> /\ UNCHANGED jobs

Message(t, i) == /\ task[t] = Off
                 /\ task' = [task EXCEPT ![t] = [pc |-> "sent", image |-> i, tries |-> 0]]

Confirm(r) == \E i \in Image, t \in Task :
    /\ New(r)
    /\ \E a \in Album : Live(a) /\ i \in In(a)
    /\ image[i].staged
    /\ Message(t, i)
    /\ End(r)
    /\ UNCHANGED <<album, image, usage, purge, audit>> /\ UNCHANGED store

(* retry_processing: the message is sent before the request commits.       *)
Retry(r) == \E i \in Image, t \in Task :
    /\ New(r)
    /\ \E a \in Album : Live(a) /\ i \in In(a)
    /\ RowFree(i)
    /\ Message(t, i)
    /\ image' \in {image, [image EXCEPT ![i].status = "pending"]}
    /\ End(r)
    /\ UNCHANGED <<album, usage, purge, audit>> /\ UNCHANGED store

-----------------------------------------------------------------------------
(* process_image_record.  The task reads the image with its album, and     *)
(* works with what it has read.                                            *)
Working == {"download", "check", "upload", "unstage", "save", "count", "refresh", "refuse"}

Goes(t, to)  == task' = [task EXCEPT ![t].pc = to]
Gone(t)      == task' = [task EXCEPT ![t] = Off]
Again(t)     == IF task[t].tries < Retries
                THEN task' = [task EXCEPT ![t] = [pc |-> "sent", image |-> task[t].image,
                                                  tries |-> task[t].tries + 1]]
                ELSE Gone(t)
Runs(t, step) == task[t].pc = step
Rest == UNCHANGED <<album, usage, pc, req, purge, audit>>
MadeKey(t) == KeyFor(task[t].slug, task[t].image, 0)

Take(t) ==
    LET i == task[t].image IN
    /\ Runs(t, "sent")
    /\ IF image[i].staged
       THEN task' = [task EXCEPT ![t] = [pc |-> "download", image |-> i, tries |-> task[t].tries,
                         album |-> image[i].album, active |-> image[i].active,
                         slug |-> album[image[i].album].slug]]
       ELSE Again(t)
    /\ Rest /\ UNCHANGED image /\ UNCHANGED store

Download(t) ==
    /\ Runs(t, "download")
    /\ task[t].image \in staging
    /\ Goes(t, "check")
    /\ Rest /\ UNCHANGED image /\ UNCHANGED store

(* An image of the album that has the same contents: it may be this one.   *)
Doubles(t) == {j \in In(task[t].album) : /\ image[j].key # None
                                         /\ PictureOf[j] = PictureOf[task[t].image]}

Check(t) ==
    LET i == task[t].image IN
    /\ Runs(t, "check")
    /\ IF Doubles(t) = {}
       THEN Goes(t, "upload") /\ UNCHANGED <<staging, upload>>
       ELSE /\ Goes(t, "refuse")
            /\ staging' = staging \ {i}
            /\ GiveUp(IF Doubles(t) \subseteq {i} THEN {} ELSE {i})
    /\ Rest /\ UNCHANGED <<image, files>>

Refuse(t) ==
    LET i == task[t].image IN
    /\ Runs(t, "refuse")
    /\ RowFree(i)
    /\ image' = [image EXCEPT ![i].status = "failed"]
    /\ Gone(t)
    /\ Rest /\ UNCHANGED store

UploadLater(t) ==
    /\ Runs(t, "upload")
    /\ staging' = staging \ {task[t].image}
    /\ Goes(t, "unstage")
    /\ Rest /\ UNCHANGED <<image, files, upload>>

Upload(t) ==
    /\ Runs(t, "upload")
    /\ files' = files \cup {MadeKey(t)}
    /\ Goes(t, "unstage")
    /\ Rest /\ UNCHANGED <<image, staging, upload>>

Unstage(t) ==
    /\ Runs(t, "unstage")
    /\ staging' = staging \ {task[t].image}
    /\ Goes(t, "save")
    /\ Rest /\ UNCHANGED <<image, files, upload>>

(* The row is saved as a whole.                                            *)
Save(t) ==
    LET i == task[t].image IN
    /\ Runs(t, "save")
    /\ RowFree(i)
    /\ image' = [image EXCEPT ![i] = [album |-> task[t].album, active |-> task[t].active,
                                      status |-> "ready", staged |-> FALSE, key |-> MadeKey(t)]]
    /\ Goes(t, "count")
    /\ Rest /\ UNCHANGED store

Count(t) ==
    /\ Runs(t, "count")
    /\ usage' = usage + Bytes(task[t].image)
    /\ Goes(t, "refresh")
    /\ UNCHANGED <<album, image, pc, req, purge, audit>> /\ UNCHANGED store

(* The album's cover and count.                                            *)
Refresh(t) ==
    /\ Runs(t, "refresh")
    /\ Gone(t)
    /\ Rest /\ UNCHANGED image /\ UNCHANGED store

(* Something raises: the image is set to failed, unless that raises too,   *)
(* and the task is tried again.                                            *)
Raise(t) ==
    LET i == task[t].image IN
    /\ task[t].pc \in Working
    /\ \/ RowFree(i) /\ image' = [image EXCEPT ![i].status = "failed"]
       \/ UNCHANGED image
    /\ Again(t)
    /\ Rest /\ UNCHANGED store

(* The worker dies: the message was acknowledged when the task began.      *)
Crash(t) ==
    /\ task[t].pc \in Working
    /\ Gone(t)
    /\ Rest /\ UNCHANGED image /\ UNCHANGED store

-----------------------------------------------------------------------------
(* Deleting images: objects first, one image after the other, then the     *)
(* rows, and the bytes of those that were ready when they were read.       *)
Ready(rows) == {i \in rows : image[i].status = "ready"}

BeginDelete(r) == \E a \in Album : \E rows \in (SUBSET In(a)) \ {{}} :
    /\ Live(a)
    /\ Begin(r, [op |-> "delete", rows |-> rows, todo |-> rows, ready |-> Ready(rows),
                 keys |-> [i \in rows |-> image[i].key],
                 staged |-> {i \in rows : image[i].staged}])

Erase(r) ==
    /\ At(r, "delete")
    /\ \E i \in req[r].todo :
        /\ staging' = IF i \in req[r].staged THEN staging \ {i} ELSE staging
        /\ files' = files \ {req[r].keys[i]}
        /\ GiveUp({i})
        /\ Move(r, "begun", [req[r] EXCEPT !.todo = req[r].todo \ {i}])
    /\ UNCHANGED <<album, image, usage>> /\ UNCHANGED jobs

Deactivated(rows) ==
    [i \in Image |-> IF i \in rows THEN [image[i] EXCEPT !.active = FALSE] ELSE image[i]]

CommitDelete(r) ==
    /\ At(r, "delete") /\ req[r].todo = {}
    /\ \A i \in req[r].rows : RowFree(i)
    /\ image' = Deactivated(req[r].rows)
    /\ usage' = Adjusted(BytesOf(req[r].ready))
    /\ End(r)
    /\ UNCHANGED album /\ UNCHANGED store /\ UNCHANGED jobs

(* Deleting an album: the rows of its images, then the folder of the slug  *)
(* it has, then the bytes and the album's row.                             *)
BeginDrop(r) == \E a \in Album :
    /\ Live(a)
    /\ Begin(r, [op |-> "drop", album |-> a, slug |-> album[a].slug, rows |-> In(a),
                 ready |-> Ready(In(a))])

Sweep(r) ==
    LET swept == {k \in files : k.slug = req[r].slug} IN
    /\ At(r, "drop")
    /\ \A i \in req[r].rows : RowFree(i)
    /\ files' = files \ swept
    /\ GiveUp({k.image : k \in swept})
    /\ Move(r, "swept", req[r])
    /\ UNCHANGED <<album, image, staging, usage>> /\ UNCHANGED jobs

CommitDrop(r) ==
    /\ pc[r] = "swept"
    /\ image' = Deactivated(req[r].rows)
    /\ usage' = Adjusted(BytesOf(req[r].ready))
    /\ album' = [album EXCEPT ![req[r].album].active = FALSE]
    /\ End(r)
    /\ UNCHANGED store /\ UNCHANGED jobs

(* Moving images that are ready to another album: each file gets a new     *)
(* key, and its row is saved as a whole.                                   *)
BeginMove(r) == \E a, b \in Album : \E rows \in SUBSET Ready(In(a)) \ {{}} :
    /\ Live(a) /\ Live(b)
    /\ Begin(r, [op |-> "move", rows |-> rows, todo |-> rows, to |-> b, slug |-> album[b].slug,
                 was |-> [i \in rows |-> image[i]]])

NewKey(r, i) == KeyFor(req[r].slug, i, r)

Relocate(r) ==
    /\ At(r, "move")
    /\ \E i \in req[r].todo :
        /\ req[r].was[i].key \in files
        /\ files' = (files \ {req[r].was[i].key}) \cup {NewKey(r, i)}
        /\ Move(r, "begun", [req[r] EXCEPT !.todo = req[r].todo \ {i}])
    /\ UNCHANGED <<album, image, staging, usage, upload>> /\ UNCHANGED jobs

CommitMove(r) ==
    /\ At(r, "move") /\ req[r].todo = {}
    /\ \A i \in req[r].rows : RowFree(i)
    /\ image' = [i \in Image |-> IF i \in req[r].rows
                                 THEN [req[r].was[i] EXCEPT !.album = req[r].to, !.key = NewKey(r, i)]
                                 ELSE image[i]]
    /\ End(r)
    /\ UNCHANGED <<album, usage>> /\ UNCHANGED store /\ UNCHANGED jobs

-----------------------------------------------------------------------------
(* purge_stale_gallery_staging gives up uploads that were not processed in *)
(* time: it lists them and treats one after the other, of which the model  *)
(* follows one.  The object goes first, then the row says so.              *)
Stale == {i \in Image : /\ image[i] # None /\ image[i].active
                        /\ image[i].staged /\ image[i].status # "ready"}

BeginPurge ==
    /\ purge = None
    /\ \E i \in Stale : purge' = [image |-> i, object |-> TRUE]
    /\ UNCHANGED <<album, image, usage, task, pc, req, audit>> /\ UNCHANGED store

PurgeObject ==
    /\ purge # None /\ purge.object
    /\ staging' = staging \ {purge.image}
    /\ GiveUp({purge.image} \cap staging)
    /\ purge' = [purge EXCEPT !.object = FALSE]
    /\ UNCHANGED <<album, image, files, usage, task, pc, req, audit>>

PurgeRow ==
    /\ purge # None /\ ~purge.object
    /\ RowFree(purge.image)
    /\ image' = [image EXCEPT ![purge.image].staged = FALSE]
    /\ purge' = None
    /\ UNCHANGED <<album, usage, task, pc, req, audit>> /\ UNCHANGED store

(* The worker dies, or storage or the database refuses.                    *)
PurgeStops ==
    /\ purge # None
    /\ purge' = None
    /\ UNCHANGED <<album, image, usage, task, pc, req, audit>> /\ UNCHANGED store

(* recompute_gallery_usage: what has been counted is written over the      *)
(* usage.                                                                  *)
Audit ==
    /\ audit = None
    /\ audit' = BytesOf(Counted)
    /\ UNCHANGED <<album, image, usage, task, pc, req, purge>> /\ UNCHANGED store

SaveAudit ==
    /\ audit # None
    /\ usage' = audit
    /\ audit' = None
    /\ UNCHANGED <<album, image, task, pc, req, purge>> /\ UNCHANGED store

Next ==
    \/ \E r \in Request :
        \/ BeginTitle(r) \/ CommitTitle(r) \/ Presign(r) \/ Confirm(r) \/ Retry(r)
        \/ BeginDelete(r) \/ Erase(r) \/ CommitDelete(r)
        \/ BeginDrop(r) \/ Sweep(r) \/ CommitDrop(r)
        \/ BeginMove(r) \/ Relocate(r) \/ CommitMove(r)
        \/ Rollback(r)
    \/ \E i \in Image : Put(i)
    \/ \E t \in Task :
        \/ Take(t) \/ Download(t) \/ Check(t) \/ Refuse(t) \/ Upload(t) \/ Unstage(t)
        \/ Save(t) \/ Count(t) \/ Refresh(t) \/ Raise(t) \/ Crash(t)
    \/ BeginPurge \/ PurgeObject \/ PurgeRow \/ PurgeStops \/ Audit \/ SaveAudit

Spec == Init /\ [][Next]_vars

(* The audit is scheduled every week; nothing else has to happen.          *)
Fairness == WF_vars(Audit) /\ WF_vars(SaveAudit)

FairSpec == Spec /\ Fairness

-----------------------------------------------------------------------------
(* A picture the client has sent stays in storage, as the object he sent   *)
(* or as a file of the image, however often tasks repeat, overlap, fail or *)
(* die, until somebody deletes the image or its folder, the purge gives it *)
(* up, or it is refused because the album has it already.                  *)
UploadsSurvive ==
    \A i \in Image : upload[i] = "kept" =>
        i \in staging \/ \E k \in files : k.image = i

(* In the end the school is charged for the bytes of what is shown,        *)
(* although a task saves and counts in two steps, an image is processed    *)
(* or deleted twice, and the audit overwrites what is counted meanwhile.   *)
UsageCatchesUp == <>[](usage = BytesOf(Shown))
=============================================================================
