------------------------------ MODULE ExamHall ------------------------------
(***************************************************************************)
(* The organisation of one exam (apps/examinations): its slots - a class   *)
(* that sits a paper in a room at a time -, the students registered for    *)
(* it and billed for it, their seats, and the teachers on duty.            *)
(*                                                                         *)
(* A request is a database transaction at READ COMMITTED that locks        *)
(* nothing it decides on.  It reads, checks and works out its writes in    *)
(* one step, and they show when it commits in another; it may fail or be   *)
(* killed instead.  A refusal leaves no trace, so it is no step.           *)
(*                                                                         *)
(* Left out: subjects and marks of a slot, the holiday warning, the        *)
(* version a client may send along, hall tickets.  A definition above one  *)
(* whose name it extends is a mistaken variant of it, which no action      *)
(* uses.                                                                   *)
(***************************************************************************)
EXTENDS Naturals, FiniteSets, Sequences, SequencesExt

CONSTANTS
    Session,        \* the requests that may be in flight at once
    MaxRequests,    \* bound: how many are made
    Slot,           \* the schedule slots, those yet to be made included
    Class, Room,
    Window,         \* the times a slot may have, <<start, end>>
    Need,           \* the numbers of invigilators a slot may ask for
    Form,           \* the sets of columns a client sends when he edits a slot
    Student,        \* the active enrolments
    ClassOf,        \* the class of each
    Capacity,       \* the capacity of each room
    Hall,           \* the lists of rooms a seating may be asked for
    Roster,         \* the teachers that may be on duty, by name
    Schedule        \* the slots there are at first

Field == {"state", "class", "room", "time", "need", "capacity"}
SlotRow ==
    [state : {"none", "live", "deleted"}, class : Class, room : Room,
     time : Window, need : Need, capacity : Nat]
Teacher == {Roster[i] : i \in DOMAIN Roster}
Duty    == [slot : Slot, teacher : Teacher]

OnDuty(held, x) == {d \in held : d.slot = x}

Overlap(v, w) == v[1] < w[2] /\ v[2] > w[1]

(* No two slots of one class overlap.                                      *)
Apart(rows) ==
    \A x, y \in Slot :
        /\ x # y
        /\ rows[x].state = "live" /\ rows[y].state = "live"
        /\ rows[x].class = rows[y].class
        => ~Overlap(rows[x].time, rows[y].time)

ASSUME WindowAssumption   == Window \subseteq {w \in Nat \X Nat : w[1] < w[2]}
ASSUME SlotAssumption     == IsFiniteSet(Slot)
ASSUME NeedAssumption     == Need \subseteq Nat \ {0}
ASSUME FormAssumption     == Form \subseteq SUBSET {"class", "room", "time", "need"}
ASSUME CapacityAssumption == Capacity \in [Room -> Nat]
ASSUME RosterAssumption   == IsFiniteSet(DOMAIN Roster)
ASSUME StudentAssumption  == IsFiniteSet(Student)
(* A list may name a room twice: nothing in the code looks.                *)
ASSUME HallAssumption     == Hall \subseteq Seq(Room) \ {<<>>}
ASSUME ScheduleAssumption ==
    /\ Schedule \in [Slot -> SlotRow]
    /\ Apart(Schedule)

VARIABLES
    slot,           \* ExamScheduleSlot by id
    registered,     \* the students with an ExamRegistration
    invoices,       \* how many invoices of the exam fee each student has
    seats,          \* the rows of Seating
    duties,         \* the active rows of InvigilatorDuty
    txn,            \* the requests in flight, with what they will write
    asked,          \* how many requests have been made
    mixed           \* history: has one committed that overlapped another?

vars == <<slot, registered, invoices, seats, duties, txn, asked, mixed>>

-----------------------------------------------------------------------------
(* What a request writes: the slots `to' of which it saves `fields', the   *)
(* students it registers, the seats and the duties it deletes and makes.   *)
(* `slots' and `rooms' are those a seating is asked for; a request is      *)
(* `alone' while no other has been in flight beside it.                    *)
Idle == [op |-> "idle", alone |-> FALSE]
Keep == [to |-> <<>>, fields |-> {}]
Same == [gone |-> {}, new |-> {}]

Alone == \A s \in Session : txn[s] = Idle

Writes(op, slots, rooms, rows, students, seating, staff) ==
    [op |-> op, alone |-> Alone, slots |-> slots, rooms |-> rooms,
     rows |-> rows, students |-> students, seats |-> seating, duties |-> staff]

Init ==
    /\ slot = Schedule
    /\ registered \in SUBSET Student
    /\ invoices = [e \in Student |-> IF e \in registered THEN 1 ELSE 0]
    /\ seats = {}
    /\ duties = {}
    /\ txn = [s \in Session |-> Idle]
    /\ asked = 0
    /\ mixed = FALSE

Ready(s) == txn[s] = Idle /\ asked < MaxRequests

Begin(s, t) ==
    /\ asked' = asked + 1
    /\ txn' = [r \in Session |->
                  IF r = s THEN t ELSE [txn[r] EXCEPT !.alone = FALSE]]
    /\ UNCHANGED <<slot, registered, invoices, seats, duties, mixed>>

-----------------------------------------------------------------------------
(* Committing.                                                             *)

(* save(update_fields): the row takes the fields that are saved.           *)
Saved(row, to, fields) ==
    LET Value(k) == IF k \in fields THEN to[k] ELSE row[k]
    IN  [state |-> Value("state"), class |-> Value("class"),
         room |-> Value("room"), time |-> Value("time"),
         need |-> Value("need"), capacity |-> Value("capacity")]

SlotsAfter(t) ==
    [x \in Slot |-> IF x \in DOMAIN t.rows.to
                    THEN Saved(slot[x], t.rows.to[x], t.rows.fields)
                    ELSE slot[x]]

(* The slots of which a seat, or a student, has been taken meanwhile.      *)
Taken(t) ==
    {n.slot : n \in {n \in t.seats.new :
        \E r \in seats \ t.seats.gone :
            /\ r.slot = n.slot
            /\ (r.student = n.student \/ (r.room = n.room /\ r.seat = n.seat))}}

(* A room that is listed twice gives its seats twice; what is written has  *)
(* no two students of one slot on a seat (unique_seat_per_slot_room).      *)
SeatsDistinct(t) ==
    \A n, m \in t.seats.new :
        n.slot = m.slot /\ n.room = m.room /\ n.seat = m.seat => n = m

(* A bulk seating seats each slot in a savepoint: one that fails keeps     *)
(* the seats it has.                                                       *)
SeatsAfter(t) ==
    {r \in seats : r \notin t.seats.gone \/ r.slot \in Taken(t)}
        \cup {n \in t.seats.new : n.slot \notin Taken(t)}

DutiesAfter(t) == (duties \ t.duties.gone) \cup t.duties.new

UnregisteredOrNot(t) == TRUE

Unregistered(t) == t.students \cap registered = {}

Commit(s) ==
    LET t == txn[s] IN
    /\ t # Idle
    /\ Unregistered(t)
    /\ SeatsDistinct(t)
    /\ Taken(t) = {} \/ t.op = "bulk"
    /\ slot' = SlotsAfter(t)
    /\ registered' = registered \cup t.students
    /\ invoices' = [e \in Student |->
                       invoices[e] + IF e \in t.students THEN 1 ELSE 0]
    /\ seats' = SeatsAfter(t)
    /\ duties' = DutiesAfter(t)
    /\ txn' = [txn EXCEPT ![s] = Idle]
    /\ mixed' = (mixed \/ ~t.alone)
    /\ UNCHANGED asked

Abort(s) ==
    /\ txn[s] # Idle
    /\ txn' = [txn EXCEPT ![s] = Idle]
    /\ UNCHANGED <<slot, registered, invoices, seats, duties, asked, mixed>>

-----------------------------------------------------------------------------
(* The schedule.                                                           *)

Live == {x \in Slot : slot[x].state = "live"}

OfSlots(rows, X) == {r \in rows : r.slot \in X}

FitsInRoom(x, row) ==
    \A y \in Live \ {x} :
        Overlap(slot[y].time, row.time) => slot[y].room # row.room

(* find_slot_clashes finds nothing.  Its seating_session_id is never       *)
(* given, so slots that share a hall clash as well.                        *)
Fits(x, row) ==
    \A y \in Live \ {x} :
        Overlap(slot[y].time, row.time)
            => slot[y].room # row.room /\ slot[y].class # row.class

CreateSlot(s) ==
    /\ Ready(s)
    /\ \E x \in Slot, c \in Class, r \in Room, w \in Window, n \in Need :
           LET row == [state |-> "live", class |-> c, room |-> r, time |-> w,
                       need |-> n, capacity |-> Capacity[r]]
           IN  /\ slot[x].state = "none"
               /\ \A q \in Session :
                      txn[q] # Idle => x \notin DOMAIN txn[q].rows.to
               /\ Fits(x, row)
               /\ Begin(s, Writes("create", {}, <<>>,
                           [to |-> [y \in {x} |-> row], fields |-> Field],
                           {}, Same, Same))

(* Every column that was sent is saved, changed or not.  The capacity of   *)
(* the slot stays that of the room it was made for.                        *)
UpdateSlot(s) ==
    /\ Ready(s)
    /\ \E x \in Live, form \in Form, c \in Class, r \in Room, w \in Window, n \in Need :
           LET row == [state |-> "live", class |-> c, room |-> r, time |-> w,
                       need |-> n, capacity |-> slot[x].capacity]
           IN  /\ \A k \in Field \ form : row[k] = slot[x][k]
               /\ "need" \in form => n >= Cardinality(OnDuty(duties, x))
               /\ Fits(x, row)
               /\ Begin(s, Writes("update", {}, <<>>,
                           [to |-> [y \in {x} |-> row], fields |-> form],
                           {}, Same, Same))

DeleteSlot(s) ==
    /\ Ready(s)
    /\ \E x \in Live :
           Begin(s, Writes("delete", {}, <<>>,
                    [to |-> [y \in {x} |-> [slot[x] EXCEPT !.state = "deleted"]],
                     fields |-> {"state"}],
                    {},
                    [gone |-> OfSlots(seats, {x}), new |-> {}],
                    [gone |-> OnDuty(duties, x), new |-> {}]))

AtOneTime(X) == \A x, y \in X : slot[x].time = slot[y].time

(* A hall session moves its slots into the hall, whoever has the hall.     *)
ShareHall(s) ==
    /\ Ready(s)
    /\ \E X \in (SUBSET Live) \ {{}}, r \in Room :
           /\ AtOneTime(X)
           /\ Begin(s, Writes("session", {}, <<>>,
                       [to |-> [x \in X |-> [slot[x] EXCEPT !.room = r]],
                        fields |-> {"room"}],
                       {}, Same, Same))

-----------------------------------------------------------------------------
(* Registration: of a class, those who are not registered yet.             *)
Register(s) ==
    /\ Ready(s)
    /\ \E c \in Class :
           LET class == {e \in Student : ClassOf[e] = c}
           IN  /\ class # {}
               /\ Begin(s, Writes("register", {}, <<>>, Keep,
                           class \ registered, Same, Same))

-----------------------------------------------------------------------------
(* Seating: the students, in any order, take the places room by room.      *)

Due(x) == {e \in registered : ClassOf[e] = slot[x].class}

(* _seat_capacity: the slot's own capacity counts for the slot's own room. *)
SeatsIn(x) ==
    [r \in Room |-> IF r = slot[x].room /\ slot[x].capacity # 0
                    THEN slot[x].capacity ELSE Capacity[r]]

Places(rooms, size) ==
    FlattenSeq([i \in DOMAIN rooms |->
        [n \in 1..size[rooms[i]] |-> [room |-> rooms[i], seat |-> n]]])

Seated(order, places, papers) ==
    {[slot |-> papers[k], student |-> order[k],
      room |-> places[k].room, seat |-> places[k].seat] :
        k \in DOMAIN order \cap DOMAIN places}

SeatsForFull(x, rooms, order) ==
    Seated(order, Places(rooms, Capacity), [k \in DOMAIN order |-> x])

SeatsFor(x, rooms, order) ==
    Seated(order, Places(rooms, SeatsIn(x)), [k \in DOMAIN order |-> x])

SeatSlot(s) ==
    /\ Ready(s)
    /\ \E x \in Live : \E rooms \in Hall \cup {<<slot[x].room>>},
                          order \in SetToSeqs(Due(x)) :
           /\ Due(x) # {}
           /\ Begin(s, Writes("seat", {x}, rooms, Keep, {},
                       [gone |-> OfSlots(seats, {x}),
                        new |-> SeatsFor(x, rooms, order)], Same))

SeatsForEach(served, order) ==
    UNION {SeatsFor(x, <<slot[x].room>>, order[x]) : x \in served}

(* The slots without a registered student are errors and keep their seats. *)
SeatBulk(s) ==
    /\ Ready(s)
    /\ \E X \in SUBSET Live :
           LET served == {x \in X : Due(x) # {}} IN
           /\ served # {}
           /\ \E order \in [served -> UNION {SetToSeqs(Due(x)) : x \in served}] :
               /\ \A x \in served : order[x] \in SetToSeqs(Due(x))
               /\ Begin(s, Writes("bulk", served, <<>>, Keep, {},
                           [gone |-> OfSlots(seats, served),
                            new |-> SeatsForEach(served, order)], Same))

(* A combined hall: the students of all the slots in one order, each for   *)
(* the first slot of his class in the order they are asked for.            *)
SeatHall(s) ==
    /\ Ready(s)
    /\ \E X \in (SUBSET Live) \ {{}}, rooms \in Hall :
           LET due == UNION {Due(x) : x \in X} IN
           /\ AtOneTime(X)
           /\ due # {}
           /\ \E paper \in [due -> X], order \in SetToSeqs(due) :
               /\ \A e \in due : e \in Due(paper[e])
               /\ \A e, f \in due : ClassOf[e] = ClassOf[f] => paper[e] = paper[f]
               /\ Begin(s, Writes("hall", X, rooms, Keep, {},
                       [gone |-> OfSlots(seats, X),
                        new |-> Seated(order, Places(rooms, Capacity),
                                       [k \in DOMAIN order |-> paper[order[k]]])],
                       Same))

-----------------------------------------------------------------------------
(* Invigilators.                                                           *)

AvailableAtOtherTimes(t, x, held) ==
    \A d \in held : d.teacher = t /\ d.slot # x => slot[d.slot].time # slot[x].time

(* Duties on a deleted slot count as well.                                 *)
Available(t, x, held) ==
    \A d \in held : d.teacher = t /\ d.slot # x
        => ~Overlap(slot[x].time, slot[d.slot].time)

AddInvigilator(s) ==
    /\ Ready(s)
    /\ \E x \in Live, t \in Teacher :
           /\ [slot |-> x, teacher |-> t] \notin duties
           /\ Cardinality(OnDuty(duties, x)) < slot[x].need
           /\ Available(t, x, duties)
           /\ Begin(s, Writes("add", {}, <<>>, Keep, {}, Same,
                       [gone |-> {}, new |-> {[slot |-> x, teacher |-> t]}]))

ReplaceInvigilator(s) ==
    /\ Ready(s)
    /\ \E d \in duties, t \in Teacher :
           /\ d.slot \in Live
           /\ [slot |-> d.slot, teacher |-> t] \notin duties
           /\ Available(t, d.slot, duties)
           /\ Begin(s, Writes("replace", {}, <<>>, Keep, {}, Same,
                       [gone |-> {d}, new |-> {[slot |-> d.slot, teacher |-> t]}]))

RemoveInvigilator(s) ==
    /\ Ready(s)
    /\ \E d \in duties :
           /\ d.slot \in Live
           /\ Begin(s, Writes("remove", {}, <<>>, Keep, {}, Same,
                       [gone |-> {d}, new |-> {}]))

(* The duties of a slot are dropped when its turn comes, and the first     *)
(* teachers of the roster who are free then have it.                       *)
StaffSlot(held, x) ==
    LET rest  == {d \in held : d.slot # x}
        free  == {i \in DOMAIN Roster : Available(Roster[i], x, rest)}
        first == {i \in free : Cardinality({j \in free : j < i}) < slot[x].need}
    IN  rest \cup {[slot |-> x, teacher |-> Roster[i]] : i \in first}

Manned(held, x) == Cardinality(OnDuty(held, x)) = slot[x].need

AutoAssign(s) ==
    /\ Ready(s)
    /\ \E order \in SetToSeqs(Live) :
           LET held  == FoldLeft(StaffSlot, duties, order)
               staff == {d \in Duty : d \in OfSlots(held, Live)}
           IN  /\ Live # {}
               /\ Roster # <<>>
               /\ \A i, j \in DOMAIN order :
                      i < j => slot[order[i]].time[1] <= slot[order[j]].time[1]
               /\ \A x \in Live : Manned(staff, x)
               /\ Begin(s, Writes("auto", {}, <<>>, Keep, {}, Same,
                           [gone |-> OfSlots(duties, Live), new |-> staff]))

-----------------------------------------------------------------------------
Next ==
    \E s \in Session :
        \/ CreateSlot(s) \/ UpdateSlot(s) \/ DeleteSlot(s) \/ ShareHall(s)
        \/ Register(s)
        \/ SeatSlot(s) \/ SeatBulk(s) \/ SeatHall(s)
        \/ AddInvigilator(s) \/ ReplaceInvigilator(s) \/ RemoveInvigilator(s)
        \/ AutoAssign(s)
        \/ Commit(s) \/ Abort(s)

Spec == Init /\ [][Next]_vars

-----------------------------------------------------------------------------
(* Properties.                                                             *)

(* Every student who is registered has been billed the exam fee, once, and *)
(* nobody else has: an invoice does not survive the registration that      *)
(* another request was quicker to make (bulk_register_exam).               *)
FeeBilledOnce ==
    \A e \in Student : invoices[e] = IF e \in registered THEN 1 ELSE 0

(* As long as no request that overlapped another has committed, no class   *)
(* has two papers at once, no slot has more invigilators than it asks for, *)
(* and a deleted slot has neither seats nor invigilators, whatever was     *)
(* moved, regenerated, replaced or assigned before (find_slot_clashes,     *)
(* add_invigilator, update_schedule_slot, delete_schedule_slot).           *)
NotOverstaffed(rows, staff) ==
    \A x \in Slot : rows[x].state = "live"
        => Cardinality(OnDuty(staff, x)) <= rows[x].need

OfLive(rows, held) ==
    \A r \in held : r.slot \in {x \in Slot : rows[x].state = "live"}

Sound(rows, seating, staff) ==
    /\ Apart(rows)
    /\ NotOverstaffed(rows, staff)
    /\ OfLive(rows, seating)
    /\ OfLive(rows, staff)

ScheduleSound == mixed \/ Sound(slot, seats, duties)

(* An automatic assignment that nothing overlaps leaves every slot with    *)
(* the invigilators it asks for and nobody with two duties at once,        *)
(* however the slots have been moved, and the duties changed, since they   *)
(* were last assigned (auto_assign_invigilators).                          *)
Covered ==
    /\ \A x \in Live : Manned(duties, x)
    /\ \A d, e \in OfSlots(duties, Live) :
           d.teacher = e.teacher /\ d # e
               => ~Overlap(slot[d.slot].time, slot[e.slot].time)

AutoStaffs ==
    [][\A s \in Session :
          txn[s].op = "auto" /\ txn[s].alone /\ Commit(s) => Covered']_vars

(* A seating that nothing overlaps seats the students who are due, and     *)
(* nobody else, each once; one is left without only when every seat of the *)
(* rooms is taken, whether or not the list names a room twice.  No two     *)
(* students have one seat, unless a hall that several slots share was      *)
(* asked for with a room twice (_allocate_students_to_rooms,               *)
(* generate_combined_hall).                                                *)
Filled(held, X, places) ==
    LET rows == OfSlots(held, X)
        due  == UNION {Due(x) : x \in X}
        sat  == {r.student : r \in rows}
        used == {[room |-> r.room, seat |-> r.seat] : r \in rows}
    IN  /\ sat \subseteq due /\ used \subseteq places
        /\ Cardinality(rows) = Cardinality(sat)
        /\ sat = due \/ used = places

PlacesOf(rooms, size) ==
    UNION {{[room |-> rooms[i], seat |-> n] : n \in 1..size[rooms[i]]} :
              i \in DOMAIN rooms}

SeatedWell(t, held) ==
    /\ t.op = "seat" =>
           \A x \in t.slots : Filled(held, {x}, PlacesOf(t.rooms, SeatsIn(x)))
    /\ t.op = "bulk" =>
           \A x \in t.slots : Filled(held, {x}, PlacesOf(<<slot[x].room>>, SeatsIn(x)))
    /\ t.op = "hall" => Filled(held, t.slots, PlacesOf(t.rooms, Capacity))

Apiece(held, X) ==
    \A r, q \in OfSlots(held, X) : r.room = q.room /\ r.seat = q.seat => r = q

SeatedApart(t, held) ==
    /\ t.op \in {"seat", "bulk"} => \A x \in t.slots : Apiece(held, {x})
    /\ t.op = "hall" /\ IsInjective(t.rooms) => Apiece(held, t.slots)

PlacesFilled ==
    [][\A s \in Session : \A t \in {txn[s]} :
          t.alone /\ Commit(s) => (SeatedWell(t, seats) /\ SeatedApart(t, seats))']_vars
=============================================================================
