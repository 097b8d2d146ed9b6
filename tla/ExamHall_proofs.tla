-------------------------- MODULE ExamHall_proofs --------------------------
(***************************************************************************)
(* Proofs about ExamHall, for any schedule, any classes, rooms, students   *)
(* and teachers, and any number of requests.                               *)
(***************************************************************************)
EXTENDS ExamHall, FiniteSetTheorems, WellFoundedInduction, TLAPS

(* What the slots, the duties and the requests in flight look like.        *)
Writable(t) ==
    /\ \A x \in DOMAIN t.rows.to : t.rows.to[x] \in SlotRow
    /\ t.duties.new \subseteq Duty

Shaped(t) == {"alone", "rows", "duties"} \subseteq DOMAIN t

Typed ==
    /\ slot \in [Slot -> SlotRow]
    /\ invoices \in [Student -> Nat]
    /\ duties \subseteq Duty
    /\ txn = [s \in Session |-> txn[s]]
    /\ \A s \in Session : Shaped(txn[s]) \/ txn[s] = Idle
    /\ \A s \in Session : txn[s] # Idle => Writable(txn[s])

(* A request that is alone leaves a sound schedule when it commits.        *)
After(t) == Sound(SlotsAfter(t), SeatsAfter(t), DutiesAfter(t))

AloneIsSound ==
    \A s \in Session : txn[s].alone =>
        /\ \A r \in Session \ {s} : txn[r] = Idle
        /\ mixed \/ After(txn[s])

IInv == Typed /\ AloneIsSound /\ ScheduleSound

-----------------------------------------------------------------------------
(* What a request writes, and what becomes of a slot that is saved.        *)
LEMMA WritesFields ==
    ASSUME NEW op, NEW slots, NEW rooms, NEW rows, NEW students, NEW seating,
           NEW staff, NEW t, t = Writes(op, slots, rooms, rows, students, seating, staff)
    PROVE  /\ t.op = op /\ t.alone = Alone
           /\ t.rows = rows /\ t.students = students
           /\ t.seats = seating /\ t.duties = staff
           /\ Shaped(t)
  BY DEF Writes, Shaped

LEMMA SavedFields ==
    ASSUME NEW row, NEW to, NEW fields
    PROVE  LET new == Saved(row, to, fields) IN
           /\ new.state = IF "state" \in fields THEN to.state ELSE row.state
           /\ new.class = IF "class" \in fields THEN to.class ELSE row.class
           /\ new.time = IF "time" \in fields THEN to.time ELSE row.time
           /\ new.need = IF "need" \in fields THEN to.need ELSE row.need
  BY DEF Saved

LEMMA SavedTyped ==
    ASSUME NEW row \in SlotRow, NEW to \in SlotRow, NEW fields
    PROVE  Saved(row, to, fields) \in SlotRow
  <1> DEFINE Value(k) == IF k \in fields THEN to[k] ELSE row[k]
  <1>1. /\ Value("state") \in {"none", "live", "deleted"}
        /\ Value("class") \in Class /\ Value("room") \in Room
        /\ Value("time") \in Window /\ Value("need") \in Need
        /\ Value("capacity") \in Nat
    BY DEF SlotRow
  <1> HIDE DEF Value
  <1>2. [state |-> Value("state"), class |-> Value("class"),
         room |-> Value("room"), time |-> Value("time"),
         need |-> Value("need"), capacity |-> Value("capacity")] \in SlotRow
    BY <1>1 DEF SlotRow
  <1> QED BY <1>2 DEF Saved, Value

LEMMA KeepSlots ==
    ASSUME NEW t, t.rows = Keep, slot \in [Slot -> SlotRow]
    PROVE  SlotsAfter(t) = slot
  <1>1. DOMAIN t.rows.to = {}
    BY DEF Keep
  <1> QED BY <1>1 DEF SlotsAfter

LEMMA SlotAfter ==
    ASSUME NEW t, NEW x \in Slot
    PROVE  SlotsAfter(t)[x] = IF x \in DOMAIN t.rows.to
                              THEN Saved(slot[x], t.rows.to[x], t.rows.fields)
                              ELSE slot[x]
  BY DEF SlotsAfter

LEMMA SlotsTyped ==
    ASSUME NEW t, Writable(t), slot \in [Slot -> SlotRow]
    PROVE  SlotsAfter(t) \in [Slot -> SlotRow]
  BY SavedTyped DEF SlotsAfter, Writable

LEMMA SameSeats ==
    ASSUME NEW t, t.seats = Same
    PROVE  SeatsAfter(t) = seats
  <1>1. t.seats.new = {} /\ t.seats.gone = {}
    BY DEF Same
  <1>2. Taken(t) = {}
    BY <1>1 DEF Taken
  <1> QED BY <1>1, <1>2 DEF SeatsAfter

LEMMA SameDuties ==
    ASSUME NEW t, t.duties = Same
    PROVE  DutiesAfter(t) = duties
  <1>1. t.duties.new = {} /\ t.duties.gone = {}
    BY DEF Same
  <1> QED BY <1>1 DEF DutiesAfter

(* Rows of Seating after a seating: old ones, or those of its slots.       *)
LEMMA SeatsOfLive ==
    ASSUME NEW t, OfLive(slot, seats),
           \A n \in t.seats.new : n.slot \in {x \in Slot : slot[x].state = "live"}
    PROVE  OfLive(slot, SeatsAfter(t))
  BY DEF OfLive, SeatsAfter

(* The duties of a slot are finitely many.                                 *)
LEMMA DutyFinite == IsFiniteSet(Duty)
  <1>1. IsFiniteSet(Teacher)
    <2> DEFINE F == [i \in DOMAIN Roster |-> Roster[i]]
    <2>1. F \in Surjection(DOMAIN Roster, Teacher)
      BY DEF Teacher, Surjection
    <2> HIDE DEF F
    <2> QED BY <2>1, RosterAssumption, FS_Surjection
  <1>2. IsFiniteSet(Slot \X Teacher)
    BY <1>1, SlotAssumption, FS_Product
  <1> DEFINE G == [p \in Slot \X Teacher |-> [slot |-> p[1], teacher |-> p[2]]]
  <1>3. G \in Surjection(Slot \X Teacher, Duty)
    <2>1. G \in [Slot \X Teacher -> Duty]
      BY DEF Duty
    <2>2. \A d \in Duty : \E p \in Slot \X Teacher : G[p] = d
      <3> TAKE d \in Duty
      <3>1. <<d.slot, d.teacher>> \in Slot \X Teacher
        BY DEF Duty
      <3>2. G[<<d.slot, d.teacher>>] = d
        BY <3>1 DEF Duty
      <3> WITNESS <<d.slot, d.teacher>> \in Slot \X Teacher
      <3> QED BY <3>2
    <2> QED BY <2>1, <2>2 DEF Surjection
  <1> HIDE DEF G
  <1> QED BY <1>2, <1>3, FS_Surjection

LEMMA OnDutyFinite ==
    ASSUME NEW held, held \subseteq Duty, NEW x
    PROVE  IsFiniteSet(OnDuty(held, x)) /\ Cardinality(OnDuty(held, x)) \in Nat
  <1>1. OnDuty(held, x) \subseteq Duty
    BY DEF OnDuty
  <1> QED BY <1>1, DutyFinite, FS_Subset, FS_CardinalityType

-----------------------------------------------------------------------------
(* Saving one slot.                                                        *)
LEMMA EditOne ==
    ASSUME NEW x \in Slot, NEW row, NEW fields, NEW t,
           t.rows = [to |-> [y \in {x} |-> row], fields |-> fields]
    PROVE  /\ SlotsAfter(t)[x] = Saved(slot[x], row, fields)
           /\ \A y \in Slot \ {x} : SlotsAfter(t)[y] = slot[y]
  BY SlotAfter

LEMMA EditWritable ==
    ASSUME NEW x, NEW row \in SlotRow, NEW fields, NEW t,
           t.rows = [to |-> [y \in {x} |-> row], fields |-> fields],
           t.duties.new = {}
    PROVE  Writable(t)
  BY DEF Writable

LEMMA OverlapSymmetric ==
    ASSUME NEW v \in Window, NEW w \in Window
    PROVE  Overlap(v, w) <=> Overlap(w, v)
  BY WindowAssumption DEF Overlap

(* The slot that changed is at no time at which another of its class is.   *)
LEMMA ChangedApart ==
    ASSUME NEW rows, NEW x \in Slot, Apart(slot),
           slot \in [Slot -> SlotRow], rows[x] \in SlotRow,
           \A y \in Slot \ {x} : rows[y] = slot[y],
           Fits(x, rows[x])
    PROVE  Apart(rows)
  <1> SUFFICES ASSUME NEW y \in Slot, NEW z \in Slot, y # z,
                      rows[y].state = "live", rows[z].state = "live",
                      rows[y].class = rows[z].class
               PROVE  ~Overlap(rows[y].time, rows[z].time)
    BY DEF Apart
  <1>1. CASE y # x /\ z # x
    BY <1>1 DEF Apart
  <1>2. CASE y = x
    <2>1. z \in Live \ {x} /\ rows[z] = slot[z]
      BY <1>2 DEF Live
    <2>2. ~Overlap(slot[z].time, rows[x].time)
      BY <1>2, <2>1 DEF Fits
    <2>3. slot[z].time \in Window /\ rows[x].time \in Window
      BY DEF SlotRow
    <2> QED BY <1>2, <2>1, <2>2, <2>3, OverlapSymmetric
  <1>3. CASE z = x
    <2>1. y \in Live \ {x} /\ rows[y] = slot[y]
      BY <1>3 DEF Live
    <2> QED BY <1>3, <2>1 DEF Fits
  <1> QED BY <1>1, <1>2, <1>3

LEMMA CreateSound ==
    ASSUME NEW x \in Slot, NEW c \in Class, NEW r \in Room, NEW w \in Window,
           NEW n \in Need, NEW row, NEW t,
           row = [state |-> "live", class |-> c, room |-> r, time |-> w,
                  need |-> n, capacity |-> Capacity[r]],
           t = Writes("create", {}, <<>>,
                   [to |-> [y \in {x} |-> row], fields |-> Field], {}, Same, Same),
           slot \in [Slot -> SlotRow],
           slot[x].state = "none", Fits(x, row)
    PROVE  /\ Writable(t)
           /\ Sound(slot, seats, duties) => After(t)
  <1>1. row \in SlotRow /\ row.state = "live" /\ row.class = c /\ row.time = w
        /\ row.need = n
    BY CapacityAssumption DEF SlotRow
  <1>2. /\ t.rows = [to |-> [y \in {x} |-> row], fields |-> Field]
        /\ t.seats = Same /\ t.duties = Same
    BY WritesFields
  <1>3. Writable(t)
    BY <1>1, <1>2, EditWritable DEF Same
  <1> DEFINE rows == SlotsAfter(t)
  <1>4. rows[x] = Saved(slot[x], row, Field) /\ \A y \in Slot \ {x} : rows[y] = slot[y]
    BY <1>2, EditOne
  <1>5. rows[x].state = "live" /\ rows[x].class = c /\ rows[x].time = w /\ rows[x].need = n
        /\ rows[x] \in SlotRow
    BY <1>1, <1>4, SavedFields, SavedTyped DEF Field
  <1>6. rows[x].room = row.room
    BY <1>4 DEF Saved, Field
  <1>7. Fits(x, rows[x])
    BY <1>1, <1>5, <1>6 DEF Fits
  <1>8. SeatsAfter(t) = seats /\ DutiesAfter(t) = duties
    BY <1>2, SameSeats, SameDuties
  <1> HIDE DEF rows
  <1> SUFFICES ASSUME Sound(slot, seats, duties) PROVE Sound(rows, seats, duties)
    BY <1>3, <1>8 DEF After, rows
  <1>9. Apart(rows)
    BY <1>4, <1>5, <1>7, ChangedApart DEF Sound
  <1>10. \A y \in Slot : slot[y].state = "live" => y # x /\ rows[y] = slot[y]
    BY <1>4
  <1>11. OfLive(rows, seats) /\ OfLive(rows, duties)
    BY <1>10 DEF Sound, OfLive
  <1>12. NotOverstaffed(rows, duties)
    <2>1. OnDuty(duties, x) = {}
      BY DEF Sound, OfLive, OnDuty
    <2>2. Cardinality(OnDuty(duties, x)) = 0
      BY <2>1, FS_EmptySet
    <2>3. n \in Nat
      BY NeedAssumption
    <2>4. Cardinality(OnDuty(duties, x)) <= rows[x].need
      <3>1. rows[x].need \in Nat
        BY <2>3, <1>5
      <3> QED BY <2>2, <3>1
    <2> QED BY <2>4, <1>4 DEF NotOverstaffed, Sound
  <1> QED BY <1>9, <1>11, <1>12 DEF Sound

LEMMA UpdateSound ==
    ASSUME NEW x \in Live, NEW row \in SlotRow, NEW changed, NEW t,
           row.state = "live", Fits(x, row),
           \A k \in Field \ changed : row[k] = slot[x][k],
           row.need # slot[x].need => row.need >= Cardinality(OnDuty(duties, x)),
           t.rows = [to |-> [y \in {x} |-> row], fields |-> changed],
           t.seats = Same, t.duties = Same, Typed
    PROVE  /\ Writable(t)
           /\ Sound(slot, seats, duties) => After(t)
  <1>0. x \in Slot /\ slot[x].state = "live" /\ slot \in [Slot -> SlotRow]
    BY DEF Live, Typed
  <1>1. t.duties.new = {}
    BY DEF Same
  <1>3. Writable(t)
    BY <1>1, EditWritable
  <1> DEFINE rows == SlotsAfter(t)
  <1>4. rows[x] = Saved(slot[x], row, changed) /\ \A y \in Slot \ {x} : rows[y] = slot[y]
    BY <1>0, EditOne
  <1>5. /\ rows[x].state = row.state /\ rows[x].class = row.class
        /\ rows[x].time = row.time /\ rows[x].need = row.need
        /\ rows[x].room = row.room
    <2>1. /\ "state" \notin changed => slot[x].state = row.state
          /\ "class" \notin changed => slot[x].class = row.class
          /\ "time" \notin changed => slot[x].time = row.time
          /\ "need" \notin changed => slot[x].need = row.need
          /\ "room" \notin changed => slot[x].room = row.room
      BY DEF Field
    <2> QED BY <2>1, <1>4 DEF Saved
  <1>6. rows[x] \in SlotRow
    BY <1>0, <1>4, SavedTyped
  <1>7. Fits(x, rows[x])
    BY <1>5 DEF Fits
  <1>8. SeatsAfter(t) = seats /\ DutiesAfter(t) = duties
    BY SameSeats, SameDuties
  <1> HIDE DEF rows
  <1> SUFFICES ASSUME Sound(slot, seats, duties) PROVE Sound(rows, seats, duties)
    BY <1>3, <1>8 DEF After, rows
  <1>9. Apart(rows)
    BY <1>0, <1>4, <1>6, <1>7, ChangedApart DEF Sound
  <1>10. \A y \in Slot : slot[y].state = "live" => rows[y].state = "live"
    BY <1>4, <1>5
  <1>11. OfLive(rows, seats) /\ OfLive(rows, duties)
    BY <1>10 DEF Sound, OfLive
  <1>12. NotOverstaffed(rows, duties)
    <2>1. Cardinality(OnDuty(duties, x)) \in Nat
      BY OnDutyFinite DEF Typed
    <2>2. Cardinality(OnDuty(duties, x)) <= slot[x].need
      BY <1>0 DEF Sound, NotOverstaffed
    <2>3. Cardinality(OnDuty(duties, x)) <= rows[x].need
      BY <2>1, <2>2, <1>5, NeedAssumption DEF SlotRow
    <2> QED BY <2>3, <1>4 DEF NotOverstaffed, Sound
  <1> QED BY <1>9, <1>11, <1>12 DEF Sound

LEMMA DeleteSound ==
    ASSUME NEW x \in Live, NEW row \in SlotRow, row.state = "deleted",
           NEW fields, "state" \in fields, NEW t,
           t.rows = [to |-> [y \in {x} |-> row], fields |-> fields],
           t.seats.gone = OfSlots(seats, {x}), t.seats.new = {},
           t.duties.gone = OnDuty(duties, x), t.duties.new = {},
           Typed
    PROVE  /\ Writable(t)
           /\ Sound(slot, seats, duties) => After(t)
  <1>0. x \in Slot /\ slot[x].state = "live" /\ slot \in [Slot -> SlotRow]
    BY DEF Live, Typed
  <1>3. Writable(t)
    BY EditWritable
  <1> DEFINE rows == SlotsAfter(t)
  <1>4. rows[x] = Saved(slot[x], row, fields) /\ \A y \in Slot \ {x} : rows[y] = slot[y]
    BY <1>0, EditOne
  <1>5. rows[x].state = "deleted"
    BY <1>4, SavedFields
  <1>6. SeatsAfter(t) = {r \in seats : r.slot # x}
    <2>1. Taken(t) = {}
      BY DEF Taken
    <2> QED BY <2>1 DEF SeatsAfter, OfSlots
  <1>7. DutiesAfter(t) = {d \in duties : d.slot # x}
    BY DEF DutiesAfter, OnDuty
  <1> HIDE DEF rows
  <1> DEFINE seated == {r \in seats : r.slot # x}
             staff  == {d \in duties : d.slot # x}
  <1> SUFFICES ASSUME Sound(slot, seats, duties) PROVE Sound(rows, seated, staff)
    BY <1>3, <1>6, <1>7 DEF After, rows
  <1>8. Apart(rows)
    BY <1>4, <1>5 DEF Apart, Sound
  <1>9. OfLive(rows, seated) /\ OfLive(rows, staff)
    BY <1>4 DEF Sound, OfLive
  <1>10. NotOverstaffed(rows, staff)
    <2> SUFFICES ASSUME NEW y \in Slot, rows[y].state = "live"
                 PROVE  Cardinality(OnDuty(staff, y)) <= rows[y].need
      BY DEF NotOverstaffed
    <2>1. y # x /\ rows[y] = slot[y]
      BY <1>4, <1>5
    <2>2. OnDuty(staff, y) = OnDuty(duties, y)
      BY <2>1 DEF OnDuty
    <2> QED BY <2>1, <2>2 DEF Sound, NotOverstaffed
  <1> QED BY <1>8, <1>9, <1>10 DEF Sound

LEMMA ShareSound ==
    ASSUME NEW to, \A x \in DOMAIN to : to[x] \in SlotRow,
           NEW fields, {"state", "class", "time", "need"} \cap fields = {}, NEW t,
           t.rows = [to |-> to, fields |-> fields], t.seats = Same, t.duties = Same,
           Typed
    PROVE  /\ Writable(t)
           /\ Sound(slot, seats, duties) => After(t)
  <1>3. Writable(t)
    BY DEF Writable, Same
  <1> DEFINE rows == SlotsAfter(t)
  <1>4. ASSUME NEW y \in Slot
        PROVE  /\ rows[y].state = slot[y].state /\ rows[y].class = slot[y].class
               /\ rows[y].time = slot[y].time /\ rows[y].need = slot[y].need
    <2>1. t.rows.fields = fields
      OBVIOUS
    <2>2. rows[y] = slot[y] \/ \E u : rows[y] = Saved(slot[y], u, fields)
      BY <2>1, SlotAfter
    <2>3. CASE rows[y] = slot[y]
      BY <2>3
    <2>4. CASE \E u : rows[y] = Saved(slot[y], u, fields)
      <3>1. PICK u : rows[y] = Saved(slot[y], u, fields)
        BY <2>4
      <3> QED BY <3>1, SavedFields
    <2> QED BY <2>2, <2>3, <2>4
  <1>5. SeatsAfter(t) = seats /\ DutiesAfter(t) = duties
    BY SameSeats, SameDuties
  <1> HIDE DEF rows
  <1> SUFFICES ASSUME Sound(slot, seats, duties) PROVE Sound(rows, seats, duties)
    BY <1>3, <1>5 DEF After, rows
  <1>6. Apart(rows)
    BY <1>4 DEF Apart, Sound
  <1>7. OfLive(rows, seats) /\ OfLive(rows, duties)
    BY <1>4 DEF Sound, OfLive
  <1>8. NotOverstaffed(rows, duties)
    BY <1>4 DEF NotOverstaffed, Sound
  <1> QED BY <1>6, <1>7, <1>8 DEF Sound

-----------------------------------------------------------------------------
(* Registering and seating leave slots and duties as they are.             *)
LEMMA RegisterSound ==
    ASSUME NEW students, NEW t,
           t = Writes("register", {}, <<>>, Keep, students, Same, Same), Typed
    PROVE  /\ Writable(t)
           /\ Sound(slot, seats, duties) => After(t)
  <1>1. t.rows = Keep /\ t.seats = Same /\ t.duties = Same
    BY WritesFields
  <1>2. DOMAIN t.rows.to = {} /\ t.duties.new = {}
    BY <1>1 DEF Keep, Same
  <1>3. Writable(t)
    BY <1>2 DEF Writable
  <1>4. SlotsAfter(t) = slot /\ SeatsAfter(t) = seats /\ DutiesAfter(t) = duties
    BY <1>1, KeepSlots, SameSeats, SameDuties DEF Typed
  <1> QED BY <1>3, <1>4 DEF After

LEMMA SeatingSound ==
    ASSUME NEW op, NEW slots, NEW rooms, NEW gone, NEW new, NEW t,
           t = Writes(op, slots, rooms, Keep, {}, [gone |-> gone, new |-> new], Same),
           Typed, \A n \in new : n.slot \in Live
    PROVE  /\ Writable(t)
           /\ Sound(slot, seats, duties) => After(t)
  <1>1. t.rows = Keep /\ t.seats.new = new /\ t.duties = Same
    BY WritesFields
  <1>2. DOMAIN t.rows.to = {} /\ t.duties.new = {}
    BY <1>1 DEF Keep, Same
  <1>3. Writable(t)
    BY <1>2 DEF Writable
  <1>4. SlotsAfter(t) = slot /\ DutiesAfter(t) = duties
    BY <1>1, KeepSlots, SameDuties DEF Typed
  <1>5. OfLive(slot, seats) => OfLive(slot, SeatsAfter(t))
    BY <1>1, SeatsOfLive DEF Live
  <1> QED BY <1>3, <1>4, <1>5 DEF After, Sound

LEMMA SeatedSlots ==
    ASSUME NEW order, NEW places, NEW papers, NEW X,
           \A k \in DOMAIN order : papers[k] \in X
    PROVE  \A n \in Seated(order, places, papers) : n.slot \in X
  BY DEF Seated

LEMMA SeatsForSlot ==
    ASSUME NEW x, NEW rooms, NEW order
    PROVE  \A n \in SeatsFor(x, rooms, order) : n.slot \in {x}
  <1> DEFINE papers == [k \in DOMAIN order |-> x]
             places == Places(rooms, SeatsIn(x))
  <1>1. \A k \in DOMAIN order : papers[k] \in {x}
    OBVIOUS
  <1> HIDE DEF papers, places
  <1>2. \A n \in Seated(order, places, papers) : n.slot \in {x}
    BY <1>1, SeatedSlots
  <1> QED BY <1>2 DEF SeatsFor, papers, places

-----------------------------------------------------------------------------
(* Assigning leaves slots and seats as they are.                           *)
LEMMA StaffingSound ==
    ASSUME NEW t, t.rows = Keep, t.seats = Same, Typed,
           t.duties.new \subseteq Duty, \A d \in t.duties.new : d.slot \in Live
    PROVE  /\ Writable(t)
           /\ Sound(slot, seats, duties) /\ NotOverstaffed(slot, DutiesAfter(t)) => After(t)
  <1>1. DOMAIN t.rows.to = {}
    BY DEF Keep
  <1>2. Writable(t)
    BY <1>1 DEF Writable
  <1>3. SlotsAfter(t) = slot /\ SeatsAfter(t) = seats
    BY KeepSlots, SameSeats DEF Typed
  <1>4. OfLive(slot, duties) => OfLive(slot, DutiesAfter(t))
    BY DEF OfLive, DutiesAfter, Live
  <1> QED BY <1>2, <1>3, <1>4 DEF After, Sound

LEMMA AddSound ==
    ASSUME NEW x \in Live, NEW u \in Teacher, NEW d, d = [slot |-> x, teacher |-> u],
           NEW t, t.duties.gone = {}, t.duties.new = {d}, Typed,
           d \notin duties, Cardinality(OnDuty(duties, x)) < slot[x].need,
           Sound(slot, seats, duties)
    PROVE  NotOverstaffed(slot, DutiesAfter(t))
  <1> SUFFICES ASSUME NEW y \in Slot, slot[y].state = "live"
               PROVE  Cardinality(OnDuty(DutiesAfter(t), y)) <= slot[y].need
    BY DEF NotOverstaffed
  <1>1. DutiesAfter(t) = duties \cup {d} /\ d.slot = x
    BY DEF DutiesAfter
  <1>2. CASE y # x
    <2>1. OnDuty(DutiesAfter(t), y) = OnDuty(duties, y)
      BY <1>1, <1>2 DEF OnDuty
    <2> QED BY <2>1 DEF Sound, NotOverstaffed
  <1>3. CASE y = x
    <2>1. OnDuty(DutiesAfter(t), y) = OnDuty(duties, x) \cup {d} /\ d \notin OnDuty(duties, x)
      BY <1>1, <1>3 DEF OnDuty
    <2>2. IsFiniteSet(OnDuty(duties, x)) /\ Cardinality(OnDuty(duties, x)) \in Nat
      BY OnDutyFinite DEF Typed
    <2>3. Cardinality(OnDuty(duties, x) \cup {d}) = Cardinality(OnDuty(duties, x)) + 1
      BY <2>1, <2>2, FS_AddElement
    <2>4. slot[x].need \in Nat
      BY NeedAssumption DEF Live, Typed, SlotRow
    <2> QED BY <1>3, <2>1, <2>2, <2>3, <2>4
  <1> QED BY <1>2, <1>3

LEMMA ReplaceSound ==
    ASSUME NEW o \in duties, NEW u \in Teacher, NEW d, d = [slot |-> o.slot, teacher |-> u],
           NEW t, t.duties.gone = {o}, t.duties.new = {d}, Typed,
           d \notin duties, Sound(slot, seats, duties)
    PROVE  NotOverstaffed(slot, DutiesAfter(t))
  <1> SUFFICES ASSUME NEW y \in Slot, slot[y].state = "live"
               PROVE  Cardinality(OnDuty(DutiesAfter(t), y)) <= slot[y].need
    BY DEF NotOverstaffed
  <1>1. DutiesAfter(t) = (duties \ {o}) \cup {d} /\ d.slot = o.slot
    BY DEF DutiesAfter
  <1>2. CASE y # o.slot
    <2>1. OnDuty(DutiesAfter(t), y) = OnDuty(duties, y)
      BY <1>1, <1>2 DEF OnDuty
    <2> QED BY <2>1 DEF Sound, NotOverstaffed
  <1>3. CASE y = o.slot
    <2> DEFINE on == OnDuty(duties, y)
    <2>1. /\ OnDuty(DutiesAfter(t), y) = (on \ {o}) \cup {d}
          /\ d \notin on \ {o} /\ o \in on
      BY <1>1, <1>3 DEF OnDuty
    <2>2. IsFiniteSet(on) /\ Cardinality(on) \in Nat
      BY OnDutyFinite DEF Typed
    <2>3. Cardinality(on) <= slot[y].need
      BY DEF Sound, NotOverstaffed
    <2> HIDE DEF on
    <2>4. IsFiniteSet(on \ {o}) /\ Cardinality(on \ {o}) = Cardinality(on) - 1
      BY <2>1, <2>2, FS_RemoveElement
    <2>5. Cardinality((on \ {o}) \cup {d}) = Cardinality(on \ {o}) + 1
      BY <2>1, <2>4, FS_AddElement
    <2> QED BY <2>1, <2>2, <2>3, <2>4, <2>5
  <1> QED BY <1>2, <1>3

LEMMA RemoveSound ==
    ASSUME NEW o \in duties, NEW t, t.duties.gone = {o}, t.duties.new = {}, Typed,
           Sound(slot, seats, duties)
    PROVE  NotOverstaffed(slot, DutiesAfter(t))
  <1> SUFFICES ASSUME NEW y \in Slot, slot[y].state = "live"
               PROVE  Cardinality(OnDuty(DutiesAfter(t), y)) <= slot[y].need
    BY DEF NotOverstaffed
  <1> DEFINE on == OnDuty(duties, y)
             left == OnDuty(DutiesAfter(t), y)
  <1>1. left \subseteq on
    BY DEF DutiesAfter, OnDuty
  <1>2. IsFiniteSet(on) /\ Cardinality(on) \in Nat
    BY OnDutyFinite DEF Typed
  <1>3. Cardinality(on) <= slot[y].need /\ slot[y].need \in Nat
    BY NeedAssumption DEF Sound, NotOverstaffed, Typed, SlotRow
  <1> HIDE DEF on, left
  <1>4. Cardinality(left) <= Cardinality(on) /\ Cardinality(left) \in Nat
    BY <1>1, <1>2, FS_Subset, FS_CardinalityType
  <1>5. Cardinality(left) <= slot[y].need
    BY <1>2, <1>3, <1>4
  <1> QED BY <1>5 DEF left

LEMMA AutoSound ==
    ASSUME NEW staff, NEW t,
           t.duties.gone = OfSlots(duties, Live), t.duties.new = staff, Typed,
           \A d \in staff : d.slot \in Live,
           \A x \in Live : Manned(staff, x),
           Sound(slot, seats, duties)
    PROVE  NotOverstaffed(slot, DutiesAfter(t))
  <1> SUFFICES ASSUME NEW y \in Slot, slot[y].state = "live"
               PROVE  Cardinality(OnDuty(DutiesAfter(t), y)) <= slot[y].need
    BY DEF NotOverstaffed
  <1>1. y \in Live
    BY DEF Live
  <1>2. OnDuty(DutiesAfter(t), y) = OnDuty(staff, y)
    BY <1>1 DEF DutiesAfter, OfSlots, OnDuty
  <1>3. Cardinality(OnDuty(staff, y)) = slot[y].need
    BY <1>1 DEF Manned
  <1>4. slot[y].need \in Nat
    BY NeedAssumption DEF Typed, SlotRow
  <1> QED BY <1>2, <1>3, <1>4

-----------------------------------------------------------------------------
(* Beginning: the request is alone only if all others are idle, and they   *)
(* are not alone any more.                                                 *)
LEMMA Beside ==
    ASSUME NEW t, Shaped(t)
    PROVE  LET b == [t EXCEPT !.alone = FALSE] IN
           b.alone = FALSE /\ b.rows = t.rows /\ b.duties = t.duties /\ Shaped(b)
  BY DEF Shaped

LEMMA IdleBeside == [Idle EXCEPT !.alone = FALSE] = Idle /\ Idle.alone = FALSE
  <1>1. Idle.alone = FALSE
    BY DEF Idle
  <1>2. Idle = [k \in {"op", "alone"} |-> Idle[k]]
    BY DEF Idle
  <1>3. \A f : f = [k \in {"op", "alone"} |-> f[k]] /\ f.alone = FALSE
                 => [f EXCEPT !.alone = FALSE] = f
    OBVIOUS
  <1> QED BY <1>1, <1>2, <1>3

LEMMA Begun ==
    ASSUME IInv, NEW s \in Session, NEW t, Begin(s, t),
           t.alone = Alone, Shaped(t), Writable(t),
           Sound(slot, seats, duties) => After(t)
    PROVE  IInv'
  <1> DEFINE Other(u) == [u EXCEPT !.alone = FALSE]
  <1>1. ASSUME NEW r \in Session \ {s}
        PROVE  /\ txn[r] = Idle => txn'[r] = Idle
               /\ txn[r] # Idle => Shaped(txn'[r]) /\ Writable(txn'[r])
               /\ txn'[r].alone = FALSE
    <2>1. txn'[r] = Other(txn[r])
      BY DEF Begin
    <2>2. CASE txn[r] = Idle
      <3>1. txn'[r] = Idle
        BY <2>1, <2>2, IdleBeside
      <3> QED BY <2>2, <3>1, IdleBeside
    <2>3. CASE txn[r] # Idle
      <3>1. Shaped(txn[r]) /\ Writable(txn[r])
        BY <2>3 DEF IInv, Typed
      <3> HIDE DEF Other
      <3>2. /\ Other(txn[r]).alone = FALSE /\ Other(txn[r]).rows = txn[r].rows
            /\ Other(txn[r]).duties = txn[r].duties /\ Shaped(Other(txn[r]))
        BY <3>1, Beside DEF Other
      <3>3. Writable(Other(txn[r]))
        BY <3>1, <3>2 DEF Writable
      <3> QED BY <2>1, <2>3, <3>2, <3>3
    <2> QED BY <2>2, <2>3
  <1>2. txn'[s] = t
    BY DEF Begin
  <1>3. /\ slot' = slot /\ invoices' = invoices /\ duties' = duties
        /\ seats' = seats /\ mixed' = mixed
        /\ txn' = [r \in Session |-> txn'[r]]
    BY DEF Begin
  <1>4. Typed'
    <2>1. \A r \in Session : Shaped(txn'[r]) \/ txn'[r] = Idle
      BY <1>1, <1>2
    <2>2. \A r \in Session : txn'[r] # Idle => Writable(txn'[r])
      BY <1>1, <1>2
    <2> QED BY <1>3, <2>1, <2>2 DEF IInv, Typed, Writable
  <1>5. AloneIsSound'
    <2> SUFFICES ASSUME NEW r \in Session, txn'[r].alone
                 PROVE  /\ \A q \in Session \ {r} : txn'[q] = Idle
                        /\ mixed' \/ After(txn[r])'
      BY DEF AloneIsSound
    <2>1. r = s
      BY <1>1
    <2>2. Alone
      BY <1>2, <2>1
    <2>3. \A q \in Session \ {s} : txn'[q] = Idle
      BY <1>1, <2>2 DEF Alone
    <2>4. mixed \/ After(t)
      BY DEF IInv, ScheduleSound
    <2>5. After(txn[r])' <=> After(t)
      BY <1>2, <1>3, <2>1
         DEF After, Sound, SlotsAfter, SeatsAfter, Taken, DutiesAfter
    <2> QED BY <1>3, <2>1, <2>3, <2>4, <2>5
  <1>6. ScheduleSound'
    BY <1>3 DEF IInv, ScheduleSound
  <1> QED BY <1>4, <1>5, <1>6 DEF IInv

LEMMA Committed == ASSUME IInv, NEW s \in Session, Commit(s) PROVE IInv'
  <1>1. txn[s] # Idle /\ Writable(txn[s])
    BY DEF Commit, IInv, Typed
  <1>2. /\ slot' = SlotsAfter(txn[s]) /\ seats' = SeatsAfter(txn[s])
        /\ duties' = DutiesAfter(txn[s])
        /\ mixed' = (mixed \/ ~txn[s].alone)
    BY DEF Commit
  <1>3. /\ txn'[s] = Idle /\ \A r \in Session \ {s} : txn'[r] = txn[r]
        /\ txn' = [r \in Session |-> txn'[r]]
    BY DEF Commit, IInv, Typed
  <1>4. Typed'
    <2>1. slot' \in [Slot -> SlotRow]
      BY <1>1, <1>2, SlotsTyped DEF IInv, Typed
    <2>2. invoices' \in [Student -> Nat]
      BY DEF Commit, IInv, Typed
    <2>3. duties' \subseteq Duty
      BY <1>1, <1>2 DEF DutiesAfter, Writable, IInv, Typed
    <2>4. \A r \in Session : Shaped(txn'[r]) \/ txn'[r] = Idle
      BY <1>3 DEF IInv, Typed
    <2>5. \A r \in Session : txn'[r] # Idle => Writable(txn'[r])
      BY <1>3 DEF IInv, Typed
    <2> QED BY <1>3, <2>1, <2>2, <2>3, <2>4, <2>5 DEF Typed, Writable
  <1>5. AloneIsSound'
    <2> SUFFICES ASSUME NEW r \in Session, txn'[r].alone PROVE FALSE
      BY DEF AloneIsSound
    <2>1. r # s
      BY <1>3, IdleBeside
    <2>2. txn[r].alone
      BY <1>3, <2>1
    <2> QED BY <1>1, <2>1, <2>2 DEF IInv, AloneIsSound
  <1>6. ScheduleSound'
    <2>1. CASE mixed \/ ~txn[s].alone
      BY <1>2, <2>1 DEF ScheduleSound
    <2>2. CASE ~mixed /\ txn[s].alone
      <3>1. After(txn[s])
        BY <2>2 DEF IInv, AloneIsSound
      <3>2. Sound(slot', seats', duties')
        BY <1>2, <3>1 DEF After
      <3> QED BY <3>2 DEF ScheduleSound, Sound, Apart, NotOverstaffed, OfLive
    <2> QED BY <2>1, <2>2
  <1> QED BY <1>4, <1>5, <1>6 DEF IInv

LEMMA Aborted == ASSUME IInv, NEW s \in Session, Abort(s) PROVE IInv'
  <1>1. /\ slot' = slot /\ seats' = seats /\ duties' = duties /\ mixed' = mixed
        /\ invoices' = invoices /\ txn[s] # Idle
    BY DEF Abort
  <1>2. /\ txn'[s] = Idle /\ \A r \in Session \ {s} : txn'[r] = txn[r]
        /\ txn' = [r \in Session |-> txn'[r]]
    BY DEF Abort, IInv, Typed
  <1>3. Typed'
    <2>1. \A r \in Session : Shaped(txn'[r]) \/ txn'[r] = Idle
      BY <1>2 DEF IInv, Typed
    <2>2. \A r \in Session : txn'[r] # Idle => Writable(txn'[r])
      BY <1>2 DEF IInv, Typed
    <2> QED BY <1>1, <1>2, <2>1, <2>2 DEF IInv, Typed, Writable
  <1>4. AloneIsSound'
    <2> SUFFICES ASSUME NEW r \in Session, txn'[r].alone PROVE FALSE
      BY DEF AloneIsSound
    <2>1. r # s
      BY <1>2, IdleBeside
    <2>2. txn[r].alone
      BY <1>2, <2>1
    <2> QED BY <1>1, <2>1, <2>2 DEF IInv, AloneIsSound
  <1>5. ScheduleSound'
    BY <1>1 DEF IInv, ScheduleSound
  <1> QED BY <1>3, <1>4, <1>5 DEF IInv

-----------------------------------------------------------------------------
(* Every request but a commit and an abort begins with writes that are     *)
(* safe as long as it stays alone.                                         *)
LEMMA CreateBegins == ASSUME IInv, NEW s \in Session, CreateSlot(s) PROVE IInv'
  <1>1. PICK x \in Slot, c \in Class, r \in Room, w \in Window, n \in Need :
            LET row == [state |-> "live", class |-> c, room |-> r, time |-> w,
                        need |-> n, capacity |-> Capacity[r]]
            IN  /\ slot[x].state = "none"
                /\ Fits(x, row)
                /\ Begin(s, Writes("create", {}, <<>>,
                            [to |-> [y \in {x} |-> row], fields |-> Field],
                            {}, Same, Same))
    BY ZenonT(60) DEF CreateSlot
  <1> DEFINE row == [state |-> "live", class |-> c, room |-> r, time |-> w,
                     need |-> n, capacity |-> Capacity[r]]
             rows == [to |-> [y \in {x} |-> row], fields |-> Field]
             t == Writes("create", {}, <<>>, rows, {}, Same, Same)
  <1>2. Begin(s, t) /\ slot[x].state = "none" /\ Fits(x, row)
    BY <1>1
  <1>3. slot \in [Slot -> SlotRow]
    BY DEF IInv, Typed
  <1>4. Writable(t) /\ (Sound(slot, seats, duties) => After(t))
    BY <1>2, <1>3, CreateSound
  <1> HIDE DEF rows
  <1>5. t.alone = Alone /\ Shaped(t)
    BY WritesFields
  <1> HIDE DEF t
  <1> QED BY <1>2, <1>4, <1>5, Begun

LEMMA UpdateBegins == ASSUME IInv, NEW s \in Session, UpdateSlot(s) PROVE IInv'
  <1>1. PICK x \in Live, changed \in Form, c \in Class, r \in Room, w \in Window, n \in Need :
            LET row == [state |-> "live", class |-> c, room |-> r, time |-> w,
                        need |-> n, capacity |-> slot[x].capacity]
            IN  /\ \A k \in Field \ changed : row[k] = slot[x][k]
                /\ "need" \in changed => n >= Cardinality(OnDuty(duties, x))
                /\ Fits(x, row)
                /\ Begin(s, Writes("update", {}, <<>>,
                            [to |-> [y \in {x} |-> row], fields |-> changed],
                            {}, Same, Same))
    BY DEF UpdateSlot
  <1> DEFINE row == [state |-> "live", class |-> c, room |-> r, time |-> w,
                     need |-> n, capacity |-> slot[x].capacity]
             rows == [to |-> [y \in {x} |-> row], fields |-> changed]
             t == Writes("update", {}, <<>>, rows, {}, Same, Same)
  <1>2. Begin(s, t) /\ Fits(x, row)
    BY <1>1
  <1>3. /\ row \in SlotRow /\ row.state = "live"
        /\ row.need # slot[x].need => row.need >= Cardinality(OnDuty(duties, x))
    <2>1. slot[x].capacity \in Nat
      BY DEF IInv, Typed, Live, SlotRow
    <2>2. row \in SlotRow /\ row.state = "live" /\ row.need = n
      BY <2>1 DEF SlotRow
    <2>3. "need" \in changed => n >= Cardinality(OnDuty(duties, x))
      BY <1>1
    <2>4. "need" \notin changed => row.need = slot[x].need
      BY <1>1 DEF Field
    <2> QED BY <2>2, <2>3, <2>4
  <1>4. \A k \in Field \ changed : row[k] = slot[x][k]
    BY <1>1
  <1> HIDE DEF row
  <1>5. Typed
    BY DEF IInv
  <1>6. t.rows = rows /\ t.seats = Same /\ t.duties = Same /\ t.alone = Alone /\ Shaped(t)
    <2> HIDE DEF rows
    <2> QED BY WritesFields
  <1> HIDE DEF t
  <1>7. Writable(t) /\ (Sound(slot, seats, duties) => After(t))
    BY <1>2, <1>3, <1>4, <1>5, <1>6, UpdateSound
  <1> QED BY <1>2, <1>6, <1>7, Begun

LEMMA DeleteBegins == ASSUME IInv, NEW s \in Session, DeleteSlot(s) PROVE IInv'
  <1>1. PICK x \in Live :
            Begin(s, Writes("delete", {}, <<>>,
                     [to |-> [y \in {x} |-> [slot[x] EXCEPT !.state = "deleted"]],
                      fields |-> {"state"}],
                     {},
                     [gone |-> OfSlots(seats, {x}), new |-> {}],
                     [gone |-> OnDuty(duties, x), new |-> {}]))
    BY DEF DeleteSlot
  <1> DEFINE row == [slot[x] EXCEPT !.state = "deleted"]
             rows == [to |-> [y \in {x} |-> row], fields |-> {"state"}]
             gone == [gone |-> OfSlots(seats, {x}), new |-> {}]
             free == [gone |-> OnDuty(duties, x), new |-> {}]
             t == Writes("delete", {}, <<>>, rows, {}, gone, free)
  <1>2. Begin(s, t)
    BY <1>1
  <1>3. row \in SlotRow /\ row.state = "deleted"
    <2>1. slot[x] \in SlotRow
      BY DEF IInv, Typed, Live
    <2>2. \A u \in SlotRow : LET v == [u EXCEPT !.state = "deleted"] IN
              v \in SlotRow /\ v.state = "deleted"
      BY DEF SlotRow
    <2> QED BY <2>1, <2>2
  <1> HIDE DEF row
  <1>4. /\ gone.gone = OfSlots(seats, {x}) /\ gone.new = {}
        /\ free.gone = OnDuty(duties, x) /\ free.new = {}
    OBVIOUS
  <1> HIDE DEF gone, free
  <1>5. t.rows = rows /\ t.seats = gone /\ t.duties = free /\ t.alone = Alone /\ Shaped(t)
    <2> HIDE DEF rows
    <2> QED BY WritesFields
  <1> HIDE DEF t
  <1>6. Typed
    BY DEF IInv
  <1>7. Writable(t) /\ (Sound(slot, seats, duties) => After(t))
    <2>1. t.seats.gone = OfSlots(seats, {x}) /\ t.seats.new = {}
      BY <1>4, <1>5
    <2>2. t.duties.gone = OnDuty(duties, x) /\ t.duties.new = {}
      BY <1>4, <1>5
    <2> QED BY <1>3, <1>5, <1>6, <2>1, <2>2, DeleteSound
  <1> QED BY <1>2, <1>5, <1>7, Begun

LEMMA ShareBegins == ASSUME IInv, NEW s \in Session, ShareHall(s) PROVE IInv'
  <1>1. PICK X \in SUBSET Live, r \in Room :
            Begin(s, Writes("session", {}, <<>>,
                     [to |-> [x \in X |-> [slot[x] EXCEPT !.room = r]],
                      fields |-> {"room"}],
                     {}, Same, Same))
    BY DEF ShareHall
  <1> DEFINE to == [x \in X |-> [slot[x] EXCEPT !.room = r]]
             rows == [to |-> to, fields |-> {"room"}]
             t == Writes("session", {}, <<>>, rows, {}, Same, Same)
  <1>2. Begin(s, t)
    BY <1>1
  <1>3. \A x \in DOMAIN to : to[x] \in SlotRow
    <2>1. \A x \in X : slot[x] \in SlotRow
      BY DEF IInv, Typed, Live
    <2>2. \A u \in SlotRow : [u EXCEPT !.room = r] \in SlotRow
      BY DEF SlotRow
    <2> QED BY <2>1, <2>2
  <1> HIDE DEF to
  <1>4. t.rows = rows /\ t.seats = Same /\ t.duties = Same /\ t.alone = Alone /\ Shaped(t)
    <2> HIDE DEF rows
    <2> QED BY WritesFields
  <1> HIDE DEF t
  <1>5. Typed
    BY DEF IInv
  <1>6. {"state", "class", "time", "need"} \cap {"room"} = {}
    OBVIOUS
  <1>7. Writable(t) /\ (Sound(slot, seats, duties) => After(t))
    BY <1>3, <1>4, <1>5, <1>6, ShareSound
  <1> QED BY <1>2, <1>4, <1>7, Begun

LEMMA RegisterBegins == ASSUME IInv, NEW s \in Session, Register(s) PROVE IInv'
  <1>1. PICK students : Begin(s, Writes("register", {}, <<>>, Keep, students, Same, Same))
    BY DEF Register
  <1> DEFINE t == Writes("register", {}, <<>>, Keep, students, Same, Same)
  <1>2. Typed /\ Begin(s, t)
    BY <1>1 DEF IInv
  <1>3. t.alone = Alone /\ Shaped(t)
    BY WritesFields
  <1>4. Writable(t) /\ (Sound(slot, seats, duties) => After(t))
    BY <1>2, RegisterSound
  <1> HIDE DEF t
  <1> QED BY <1>2, <1>3, <1>4, Begun

(* Every seating, with the seats of slots that are live.                   *)
LEMMA SeatingBegins ==
    ASSUME IInv, NEW s \in Session, NEW op, NEW slots, NEW rooms, NEW gone, NEW new,
           Begin(s, Writes(op, slots, rooms, Keep, {}, [gone |-> gone, new |-> new], Same)),
           \A n \in new : n.slot \in Live
    PROVE  IInv'
  <1> DEFINE seating == [gone |-> gone, new |-> new]
             t == Writes(op, slots, rooms, Keep, {}, seating, Same)
  <1>1. Typed /\ Begin(s, t)
    BY DEF IInv
  <1>2. Writable(t) /\ (Sound(slot, seats, duties) => After(t))
    BY <1>1, SeatingSound
  <1> HIDE DEF seating
  <1>3. t.alone = Alone /\ Shaped(t)
    BY WritesFields
  <1> HIDE DEF t
  <1> QED BY <1>1, <1>2, <1>3, Begun

LEMMA SeatSlotBegins == ASSUME IInv, NEW s \in Session, SeatSlot(s) PROVE IInv'
  <1>1. PICK x \in Live : \E rooms, order :
            Begin(s, Writes("seat", {x}, rooms, Keep, {},
                     [gone |-> OfSlots(seats, {x}),
                      new |-> SeatsFor(x, rooms, order)], Same))
    BY DEF SeatSlot
  <1>2. PICK rooms, order :
            Begin(s, Writes("seat", {x}, rooms, Keep, {},
                     [gone |-> OfSlots(seats, {x}),
                      new |-> SeatsFor(x, rooms, order)], Same))
    BY <1>1
  <1>3. \A n \in SeatsFor(x, rooms, order) : n.slot \in Live
    BY SeatsForSlot
  <1> QED BY <1>2, <1>3, SeatingBegins

LEMMA SeatBulkBegins == ASSUME IInv, NEW s \in Session, SeatBulk(s) PROVE IInv'
  <1>1. \E served \in SUBSET Live : \E order :
            Begin(s, Writes("bulk", served, <<>>, Keep, {},
                     [gone |-> OfSlots(seats, served),
                      new |-> SeatsForEach(served, order)], Same))
    BY DEF SeatBulk
  <1>2. PICK served \in SUBSET Live : \E order :
            Begin(s, Writes("bulk", served, <<>>, Keep, {},
                     [gone |-> OfSlots(seats, served),
                      new |-> SeatsForEach(served, order)], Same))
    BY <1>1
  <1>3. PICK order :
            Begin(s, Writes("bulk", served, <<>>, Keep, {},
                     [gone |-> OfSlots(seats, served),
                      new |-> SeatsForEach(served, order)], Same))
    BY <1>2
  <1>4. \A n \in SeatsForEach(served, order) : n.slot \in Live
    <2> SUFFICES ASSUME NEW n \in SeatsForEach(served, order) PROVE n.slot \in Live
      OBVIOUS
    <2>1. PICK x \in served : n \in SeatsFor(x, <<slot[x].room>>,
                                         order[x])
      BY DEF SeatsForEach
    <2>2. n.slot = x
      BY <2>1, SeatsForSlot
    <2> QED BY <2>2
  <1> QED BY <1>3, <1>4, SeatingBegins

LEMMA SeatHallBegins == ASSUME IInv, NEW s \in Session, SeatHall(s) PROVE IInv'
  <1>1. PICK X \in (SUBSET Live) \ {{}}, rooms \in Hall :
           LET due == UNION {Due(x) : x \in X} IN
           /\ AtOneTime(X)
           /\ due # {}
           /\ \E paper \in [due -> X], order \in SetToSeqs(due) :
               /\ \A e \in due : e \in Due(paper[e])
               /\ \A e, f \in due : ClassOf[e] = ClassOf[f] => paper[e] = paper[f]
               /\ Begin(s, Writes("hall", X, rooms, Keep, {},
                       [gone |-> OfSlots(seats, X),
                        new |-> Seated(order, Places(rooms, Capacity),
                                       [k \in DOMAIN order |-> paper[order[k]]])],
                       Same))
    BY DEF SeatHall
  <1> DEFINE due == UNION {Due(x) : x \in X}
             places == Places(rooms, Capacity)
             papers(order, paper) == [k \in DOMAIN order |-> paper[order[k]]]
  <1>2. PICK paper \in [due -> X], order \in SetToSeqs(due) :
            Begin(s, Writes("hall", X, rooms, Keep, {},
                     [gone |-> OfSlots(seats, X),
                      new |-> Seated(order, places, papers(order, paper))], Same))
    BY <1>1
  <1>3. \A k \in DOMAIN order : papers(order, paper)[k] \in Live
    <2> HIDE DEF due
    <2>1. \A k \in DOMAIN order : order[k] \in due
      BY DEF SetToSeqs
    <2> QED BY <2>1
  <1> HIDE DEF places, papers
  <1>4. \A n \in Seated(order, places, papers(order, paper)) : n.slot \in Live
    BY <1>3, SeatedSlots
  <1> QED BY <1>2, <1>4, SeatingBegins

(* The duties of the invigilators.                                         *)
LEMMA AddBegins == ASSUME IInv, NEW s \in Session, AddInvigilator(s) PROVE IInv'
  <1>1. PICK x \in Live, u \in Teacher :
           /\ [slot |-> x, teacher |-> u] \notin duties
           /\ Cardinality(OnDuty(duties, x)) < slot[x].need
           /\ Begin(s, Writes("add", {}, <<>>, Keep, {}, Same,
                       [gone |-> {}, new |-> {[slot |-> x, teacher |-> u]}]))
    BY DEF AddInvigilator
  <1> DEFINE d == [slot |-> x, teacher |-> u]
             staffing == [gone |-> {}, new |-> {d}]
             t == Writes("add", {}, <<>>, Keep, {}, Same, staffing)
  <1>2. /\ Begin(s, t) /\ d \notin duties
        /\ Cardinality(OnDuty(duties, x)) < slot[x].need
    BY <1>1
  <1>3. d \in Duty /\ d.slot = x
    BY DEF Duty, Live
  <1>4. staffing.gone = {} /\ staffing.new = {d}
    OBVIOUS
  <1> HIDE DEF staffing
  <1>5. /\ t.rows = Keep /\ t.seats = Same /\ t.duties = staffing
        /\ t.alone = Alone /\ Shaped(t)
    BY WritesFields
  <1> HIDE DEF t
  <1>6. /\ t.duties.gone = {} /\ t.duties.new = {d} /\ Typed
        /\ t.duties.new \subseteq Duty /\ \A e \in t.duties.new : e.slot \in Live
    BY <1>3, <1>4, <1>5 DEF IInv
  <1>7. /\ Writable(t)
        /\ Sound(slot, seats, duties) /\ NotOverstaffed(slot, DutiesAfter(t)) => After(t)
    BY <1>5, <1>6, StaffingSound
  <1>8. Sound(slot, seats, duties) => NotOverstaffed(slot, DutiesAfter(t))
    BY <1>2, <1>6, AddSound
  <1> HIDE DEF d
  <1> QED BY <1>2, <1>5, <1>7, <1>8, Begun

LEMMA ReplaceBegins == ASSUME IInv, NEW s \in Session, ReplaceInvigilator(s) PROVE IInv'
  <1>1. PICK o \in duties, u \in Teacher :
           /\ o.slot \in Live
           /\ [slot |-> o.slot, teacher |-> u] \notin duties
           /\ Begin(s, Writes("replace", {}, <<>>, Keep, {}, Same,
                       [gone |-> {o}, new |-> {[slot |-> o.slot, teacher |-> u]}]))
    BY DEF ReplaceInvigilator
  <1> DEFINE d == [slot |-> o.slot, teacher |-> u]
             staffing == [gone |-> {o}, new |-> {d}]
             t == Writes("replace", {}, <<>>, Keep, {}, Same, staffing)
  <1>2. Begin(s, t) /\ d \notin duties
    BY <1>1
  <1>3. d \in Duty /\ d.slot = o.slot /\ o.slot \in Live
    BY <1>1 DEF Duty, Live
  <1>4. staffing.gone = {o} /\ staffing.new = {d}
    OBVIOUS
  <1> HIDE DEF staffing
  <1>5. /\ t.rows = Keep /\ t.seats = Same /\ t.duties = staffing
        /\ t.alone = Alone /\ Shaped(t)
    BY WritesFields
  <1> HIDE DEF t
  <1>6. /\ t.duties.gone = {o} /\ t.duties.new = {d} /\ Typed
        /\ t.duties.new \subseteq Duty /\ \A e \in t.duties.new : e.slot \in Live
    BY <1>3, <1>4, <1>5 DEF IInv
  <1>7. /\ Writable(t)
        /\ Sound(slot, seats, duties) /\ NotOverstaffed(slot, DutiesAfter(t)) => After(t)
    BY <1>5, <1>6, StaffingSound
  <1>8. Sound(slot, seats, duties) => NotOverstaffed(slot, DutiesAfter(t))
    BY <1>2, <1>6, ReplaceSound
  <1> HIDE DEF d
  <1> QED BY <1>2, <1>5, <1>7, <1>8, Begun

LEMMA RemoveBegins == ASSUME IInv, NEW s \in Session, RemoveInvigilator(s) PROVE IInv'
  <1>1. PICK o \in duties :
           Begin(s, Writes("remove", {}, <<>>, Keep, {}, Same, [gone |-> {o}, new |-> {}]))
    BY DEF RemoveInvigilator
  <1> DEFINE staffing == [gone |-> {o}, new |-> {}]
             t == Writes("remove", {}, <<>>, Keep, {}, Same, staffing)
  <1>2. Begin(s, t)
    BY <1>1
  <1>3. staffing.gone = {o} /\ staffing.new = {}
    OBVIOUS
  <1> HIDE DEF staffing
  <1>4. /\ t.rows = Keep /\ t.seats = Same /\ t.duties = staffing
        /\ t.alone = Alone /\ Shaped(t)
    BY WritesFields
  <1> HIDE DEF t
  <1>5. /\ t.duties.gone = {o} /\ t.duties.new = {} /\ Typed
        /\ t.duties.new \subseteq Duty /\ \A e \in t.duties.new : e.slot \in Live
    BY <1>3, <1>4 DEF IInv
  <1>6. /\ Writable(t)
        /\ Sound(slot, seats, duties) /\ NotOverstaffed(slot, DutiesAfter(t)) => After(t)
    BY <1>4, <1>5, StaffingSound
  <1>7. Sound(slot, seats, duties) => NotOverstaffed(slot, DutiesAfter(t))
    BY <1>5, RemoveSound
  <1> QED BY <1>2, <1>4, <1>6, <1>7, Begun

LEMMA AutoBegins == ASSUME IInv, NEW s \in Session, AutoAssign(s) PROVE IInv'
  <1>1. PICK order \in SetToSeqs(Live) :
           LET held  == FoldLeft(StaffSlot, duties, order)
               staff == {d \in Duty : d \in OfSlots(held, Live)}
           IN  /\ Live # {}
               /\ Roster # <<>>
               /\ \A i, j \in DOMAIN order :
                      i < j => slot[order[i]].time[1] <= slot[order[j]].time[1]
               /\ \A x \in Live : Manned(staff, x)
               /\ Begin(s, Writes("auto", {}, <<>>, Keep, {}, Same,
                           [gone |-> OfSlots(duties, Live), new |-> staff]))
    BY DEF AutoAssign
  <1> DEFINE held == FoldLeft(StaffSlot, duties, order)
             staff == {d \in Duty : d \in OfSlots(held, Live)}
             staffing == [gone |-> OfSlots(duties, Live), new |-> staff]
             t == Writes("auto", {}, <<>>, Keep, {}, Same, staffing)
  <1>2. Begin(s, t) /\ \A x \in Live : Manned(staff, x)
    BY <1>1
  <1> HIDE DEF held
  <1>3. staff \subseteq Duty /\ \A d \in staff : d.slot \in Live
    BY DEF OfSlots
  <1> HIDE DEF staff
  <1>4. staffing.gone = OfSlots(duties, Live) /\ staffing.new = staff
    OBVIOUS
  <1> HIDE DEF staffing
  <1>5. /\ t.rows = Keep /\ t.seats = Same /\ t.duties = staffing
        /\ t.alone = Alone /\ Shaped(t)
    BY WritesFields
  <1> HIDE DEF t
  <1>6. /\ t.duties.gone = OfSlots(duties, Live) /\ t.duties.new = staff /\ Typed
        /\ t.duties.new \subseteq Duty /\ \A d \in t.duties.new : d.slot \in Live
    BY <1>3, <1>4, <1>5 DEF IInv
  <1>7. /\ Writable(t)
        /\ Sound(slot, seats, duties) /\ NotOverstaffed(slot, DutiesAfter(t)) => After(t)
    BY <1>5, <1>6, StaffingSound
  <1>8. Sound(slot, seats, duties) => NotOverstaffed(slot, DutiesAfter(t))
    BY <1>2, <1>3, <1>6, AutoSound
  <1> QED BY <1>2, <1>5, <1>7, <1>8, Begun

-----------------------------------------------------------------------------
LEMMA Started == Init => IInv
  <1> SUFFICES ASSUME Init PROVE IInv
    OBVIOUS
  <1>1. /\ slot = Schedule /\ seats = {} /\ duties = {}
        /\ txn = [s \in Session |-> Idle] /\ mixed = FALSE
        /\ invoices = [e \in Student |-> IF e \in registered THEN 1 ELSE 0]
    BY DEF Init
  <1>2. \A s \in Session : txn[s] = Idle
    BY <1>1
  <1>3. Typed
    <2>1. invoices \in [Student -> Nat] /\ slot \in [Slot -> SlotRow]
      BY <1>1, ScheduleAssumption
    <2>2. txn = [s \in Session |-> txn[s]]
      BY <1>1
    <2> QED BY <1>1, <1>2, <2>1, <2>2 DEF Typed
  <1>4. AloneIsSound
    BY <1>2, IdleBeside DEF AloneIsSound
  <1>5. NotOverstaffed(slot, duties)
    <2>1. \A x : OnDuty(duties, x) = {}
      BY <1>1 DEF OnDuty
    <2>2. \A x : Cardinality(OnDuty(duties, x)) = 0
      BY <2>1, FS_EmptySet
    <2>3. \A x \in Slot : slot[x].need \in Nat
      BY <1>1, ScheduleAssumption, NeedAssumption DEF SlotRow
    <2>4. \A x \in Slot : Cardinality(OnDuty(duties, x)) <= slot[x].need
      BY <2>2, <2>3
    <2> QED BY <2>4 DEF NotOverstaffed
  <1>6. Sound(slot, seats, duties)
    BY <1>1, <1>5, ScheduleAssumption DEF Sound, OfLive
  <1> QED BY <1>3, <1>4, <1>6 DEF IInv, ScheduleSound

LEMMA Stepped == IInv /\ [Next]_vars => IInv'
  <1> SUFFICES ASSUME IInv, [Next]_vars PROVE IInv'
    OBVIOUS
  <1>1. CASE Next
    <2>1. PICK s \in Session :
        \/ CreateSlot(s) \/ UpdateSlot(s) \/ DeleteSlot(s) \/ ShareHall(s)
        \/ Register(s)
        \/ SeatSlot(s) \/ SeatBulk(s) \/ SeatHall(s)
        \/ AddInvigilator(s) \/ ReplaceInvigilator(s) \/ RemoveInvigilator(s)
        \/ AutoAssign(s)
        \/ Commit(s) \/ Abort(s)
      BY <1>1 DEF Next
    <2>2. CASE CreateSlot(s)
      BY <2>2, CreateBegins
    <2>3. CASE UpdateSlot(s)
      BY <2>3, UpdateBegins
    <2>4. CASE DeleteSlot(s)
      BY <2>4, DeleteBegins
    <2>5. CASE ShareHall(s)
      BY <2>5, ShareBegins
    <2>6. CASE Register(s)
      BY <2>6, RegisterBegins
    <2>7. CASE SeatSlot(s)
      BY <2>7, SeatSlotBegins
    <2>8. CASE SeatBulk(s)
      BY <2>8, SeatBulkBegins
    <2>9. CASE SeatHall(s)
      BY <2>9, SeatHallBegins
    <2>10. CASE AddInvigilator(s)
      BY <2>10, AddBegins
    <2>11. CASE ReplaceInvigilator(s)
      BY <2>11, ReplaceBegins
    <2>12. CASE RemoveInvigilator(s)
      BY <2>12, RemoveBegins
    <2>13. CASE AutoAssign(s)
      BY <2>13, AutoBegins
    <2>14. CASE Commit(s)
      BY <2>14, Committed
    <2>15. CASE Abort(s)
      BY <2>15, Aborted
    <2> QED BY <2>1, <2>2, <2>3, <2>4, <2>5, <2>6, <2>7, <2>8, <2>9, <2>10,
               <2>11, <2>12, <2>13, <2>14, <2>15
  <1>2. CASE UNCHANGED vars
    <2>1. /\ slot' = slot /\ invoices' = invoices /\ seats' = seats
          /\ duties' = duties /\ txn' = txn /\ mixed' = mixed
      BY <1>2 DEF vars
    <2>2. Typed'
      BY <2>1 DEF IInv, Typed, Writable
    <2>3. AloneIsSound'
      <3> SUFFICES ASSUME NEW s \in Session, txn'[s].alone
                   PROVE  /\ \A r \in Session \ {s} : txn'[r] = Idle
                          /\ mixed' \/ After(txn[s])'
        BY DEF AloneIsSound
      <3>1. /\ \A r \in Session \ {s} : txn[r] = Idle
            /\ mixed \/ After(txn[s])
        BY <2>1 DEF IInv, AloneIsSound
      <3>2. After(txn[s])' <=> After(txn[s])
        BY <2>1 DEF After, Sound, SlotsAfter, SeatsAfter, Taken, DutiesAfter
      <3> QED BY <2>1, <3>1, <3>2
    <2>4. ScheduleSound'
      BY <2>1 DEF IInv, ScheduleSound
    <2> QED BY <2>2, <2>3, <2>4 DEF IInv
  <1> QED BY <1>1, <1>2

(* Requests that nothing overlaps keep the schedule sound, for any number  *)
(* of them and in any order: however slots are made, moved, shared and     *)
(* deleted and invigilators added, replaced and assigned, no class has two *)
(* papers at once, no slot has too many invigilators and a deleted slot    *)
(* has neither seats nor duties.  What breaks this takes two requests that *)
(* overlap (the interactors exam.py, seating.py and invigilator.py).       *)
THEOREM ScheduleStaysSound == Spec => []ScheduleSound
  <1>1. IInv => ScheduleSound
    BY DEF IInv
  <1> QED BY Started, Stepped, <1>1, PTL DEF Spec

(* However requests to register overlap, fail and are made again, a        *)
(* student who is registered has one invoice of the exam fee and one who   *)
(* is not has none (bulk_register_exam).                                   *)
THEOREM FeesBilledOnce == Spec => []FeeBilledOnce
  <1> DEFINE Billed == invoices \in [Student -> Nat] /\ FeeBilledOnce
  <1>1. Init => Billed
    BY DEF Init, FeeBilledOnce
  <1>2. Billed /\ [Next]_vars => Billed'
    <2> SUFFICES ASSUME Billed, [Next]_vars PROVE Billed'
      OBVIOUS
    <2>1. CASE UNCHANGED <<registered, invoices>>
      BY <2>1 DEF FeeBilledOnce
    <2>2. CASE \E s \in Session : Commit(s)
      <3>1. PICK s \in Session : Commit(s)
        BY <2>2
      <3> DEFINE students == txn[s].students
      <3>2. /\ registered' = registered \cup students
            /\ invoices' = [e \in Student |->
                               invoices[e] + IF e \in students THEN 1 ELSE 0]
            /\ students \cap registered = {}
        BY <3>1 DEF Commit, Unregistered
      <3> HIDE DEF students
      <3>3. invoices' \in [Student -> Nat]
        BY <3>2
      <3>4. ASSUME NEW e \in Student
            PROVE  invoices'[e] = IF e \in registered' THEN 1 ELSE 0
        BY <3>2 DEF FeeBilledOnce
      <3> QED BY <3>3, <3>4 DEF FeeBilledOnce
    <2>3. UNCHANGED <<registered, invoices>> \/ \E s \in Session : Commit(s)
      <3>1. CASE UNCHANGED vars
        BY <3>1 DEF vars
      <3>2. CASE \E s \in Session : \E t : Begin(s, t)
        BY <3>2 DEF Begin
      <3>3. CASE \E s \in Session : Abort(s)
        BY <3>3 DEF Abort
      <3>4. ASSUME NEW s \in Session
            PROVE  /\ CreateSlot(s) => \E t : Begin(s, t)
                   /\ UpdateSlot(s) => \E t : Begin(s, t)
                   /\ DeleteSlot(s) => \E t : Begin(s, t)
                   /\ ShareHall(s) => \E t : Begin(s, t)
                   /\ Register(s) => \E t : Begin(s, t)
                   /\ SeatSlot(s) => \E t : Begin(s, t)
                   /\ SeatBulk(s) => \E t : Begin(s, t)
                   /\ SeatHall(s) => \E t : Begin(s, t)
                   /\ AddInvigilator(s) => \E t : Begin(s, t)
                   /\ ReplaceInvigilator(s) => \E t : Begin(s, t)
                   /\ RemoveInvigilator(s) => \E t : Begin(s, t)
                   /\ AutoAssign(s) => \E t : Begin(s, t)
        <4>1. CreateSlot(s) => \E t : Begin(s, t)
          BY DEF CreateSlot
        <4>2. UpdateSlot(s) => \E t : Begin(s, t)
          BY DEF UpdateSlot
        <4>3. DeleteSlot(s) => \E t : Begin(s, t)
          BY DEF DeleteSlot
        <4>4. ShareHall(s) => \E t : Begin(s, t)
          BY DEF ShareHall
        <4>5. Register(s) => \E t : Begin(s, t)
          BY DEF Register
        <4>6. SeatSlot(s) => \E t : Begin(s, t)
          BY DEF SeatSlot
        <4>7. SeatBulk(s) => \E t : Begin(s, t)
          BY DEF SeatBulk
        <4>8. SeatHall(s) => \E t : Begin(s, t)
          BY DEF SeatHall
        <4>9. AddInvigilator(s) => \E t : Begin(s, t)
          BY DEF AddInvigilator
        <4>10. ReplaceInvigilator(s) => \E t : Begin(s, t)
          BY DEF ReplaceInvigilator
        <4>11. RemoveInvigilator(s) => \E t : Begin(s, t)
          BY DEF RemoveInvigilator
        <4>12. AutoAssign(s) => \E t : Begin(s, t)
          BY DEF AutoAssign
        <4> QED BY <4>1, <4>2, <4>3, <4>4, <4>5, <4>6, <4>7, <4>8, <4>9, <4>10, <4>11, <4>12
      <3> QED BY <3>1, <3>2, <3>3, <3>4 DEF Next
    <2> QED BY <2>1, <2>2, <2>3
  <1>3. Billed => FeeBilledOnce
    OBVIOUS
  <1> QED BY <1>1, <1>2, <1>3, PTL DEF Spec

-----------------------------------------------------------------------------
(* The automatic assignment, slot by slot.  FoldLeft is a fold over a set  *)
(* of positions, the greatest first; what it makes of them is proved by    *)
(* induction over the subsets of the positions.                            *)

(* Induction over the subsets of a finite set.                             *)
LEMMA SetInduction ==
    ASSUME NEW S, IsFiniteSet(S), NEW Good,
           \A T \in SUBSET S : (\A U \in SUBSET T : U # T => U \in Good) => T \in Good
    PROVE  S \in Good
  <1> DEFINE Bad == {T \in SUBSET S : T \notin Good}
  <1> SUFFICES ASSUME S \notin Good PROVE FALSE
    OBVIOUS
  <1>1. IsWellFoundedOn(StrictSubsetOrdering(S), SUBSET S)
    <2>1. FiniteSubsetsOf(S) = SUBSET S
      BY FS_FiniteSubsetsOfFinite
    <2>2. IsWellFoundedOn(StrictSubsetOrdering(S), FiniteSubsetsOf(S))
      BY FS_StrictSubsetOrderingWellFounded
    <2> QED BY <2>1, <2>2, Zenon
  <1>2. Bad \subseteq SUBSET S /\ Bad # {}
    BY Zenon
  <1>3. PICK T \in Bad : \A U \in Bad : ~(<<U, T>> \in StrictSubsetOrdering(S))
    <2> HIDE DEF Bad
    <2> QED BY <1>1, <1>2, WFMin
  <1>4. T \in SUBSET S /\ T \notin Good
    BY <1>3
  <1>5. ASSUME NEW U \in SUBSET T, U # T PROVE U \in Good
    <2>1. <<U, T>> \in StrictSubsetOrdering(S)
      BY <1>4, <1>5 DEF StrictSubsetOrdering
    <2>2. U \notin Bad
      BY <1>3, <2>1, Zenon
    <2> QED BY <1>4, <2>2
  <1> QED BY <1>4, <1>5

LEMMA Climb ==
    ASSUME NEW n \in Nat, NEW Good, 0 \in Good,
           \A k \in 1..n : k - 1 \in Good => k \in Good
    PROVE  \A k \in 0..n : k \in Good
  <1> DEFINE Fine == {T \in SUBSET (1..n) : \A k \in 0..n : T = 1..k => k \in Good}
  <1>1. ASSUME NEW T \in SUBSET (1..n), \A U \in SUBSET T : U # T => U \in Fine
        PROVE  T \in Fine
    <2> SUFFICES ASSUME NEW k \in 0..n, T = 1..k PROVE k \in Good
      OBVIOUS
    <2>1. CASE k = 0
      BY <2>1
    <2>2. CASE k # 0
      <3> DEFINE U == 1..(k - 1)
      <3>1. U \in SUBSET T
        BY <2>2
      <3>2. k \in T /\ k \notin U
        BY <2>2
      <3>3. U \in Fine
        <4> HIDE DEF Fine, U
        <4> QED BY <1>1, <3>1, <3>2
      <3>4. k - 1 \in 0..n /\ k \in 1..n
        BY <2>2
      <3>5. k - 1 \in Good
        BY <3>3, <3>4
      <3> QED BY <3>4, <3>5
    <2> QED BY <2>1, <2>2
  <1>2. IsFiniteSet(1..n)
    BY FS_Interval
  <1> HIDE DEF Fine
  <1>3. ASSUME NEW k \in 0..n PROVE k \in Good
    <2> DEFINE S == 1..k
    <2>1. IsFiniteSet(S) /\ S \in SUBSET (1..n)
      BY FS_Interval
    <2>2. S \in Fine
      <3> HIDE DEF S
      <3>1. \A T \in SUBSET S : (\A U \in SUBSET T : U # T => U \in Fine) => T \in Fine
        BY <1>1, <2>1
      <3> QED BY <2>1, <3>1, SetInduction
    <2> QED BY <2>1, <2>2 DEF Fine
  <1> QED BY <1>3

LEMMA MaxIs ==
    ASSUME NEW n \in Nat, NEW S \in SUBSET (1..n), S # {}
    PROVE  Max(S) \in S /\ \A y \in S : Max(S) >= y
  <1> DEFINE Greatest(T, x) == x \in T /\ \A y \in T : x >= y
             Good == {T \in SUBSET S : T = {} \/ \E x : Greatest(T, x)}
  <1>1. ASSUME NEW T \in SUBSET S, \A U \in SUBSET T : U # T => U \in Good
        PROVE  T \in Good
    <2> SUFFICES ASSUME T # {} PROVE \E x : Greatest(T, x)
      OBVIOUS
    <2>1. PICK z \in T : TRUE
      OBVIOUS
    <2> DEFINE U == T \ {z}
    <2>2. U \in Good /\ z \in Nat
      <3> HIDE DEF Good
      <3>1. U \in SUBSET T /\ U # T
        BY <2>1
      <3> QED BY <1>1, <2>1, <3>1
    <2>3. CASE U = {}
      <3>1. Greatest(T, z)
        BY <2>2, <2>3
      <3> QED BY <3>1
    <2>4. CASE U # {}
      <3>1. PICK x : Greatest(U, x)
        BY <2>2, <2>4
      <3>2. x \in Nat /\ z \in Nat /\ x \in T /\ \A y \in T : y = z \/ (y \in U /\ y \in Nat)
        BY <2>2, <3>1
      <3>3. Greatest(T, IF x >= z THEN x ELSE z)
        <4>1. CASE x >= z
          BY <2>1, <3>1, <3>2, <4>1
        <4>2. CASE ~(x >= z)
          BY <2>1, <3>1, <3>2, <4>2
        <4> QED BY <4>1, <4>2
      <3> QED BY <3>3
    <2> QED BY <2>3, <2>4
  <1>2. IsFiniteSet(S)
    <2>1. IsFiniteSet(1..n)
      BY FS_Interval
    <2> QED BY <2>1, FS_Subset
  <1>3. S \in Good
    <2> HIDE DEF Good
    <2> QED BY <1>1, <1>2, SetInduction
  <1>4. \E x \in S : \A y \in S : x >= y
    BY <1>3
  <1> QED BY <1>4 DEF Max

(* staffed is the table the fold works out.                                *)
IsStaffing(staffed, order, D) ==
    staffed = [s \in SUBSET D |->
                  IF s = {} THEN duties
                  ELSE StaffSlot(staffed[s \ {Max(s)}], order[Max(s)])]

LEMMA StaffingIs ==
    ASSUME NEW order
    PROVE  FoldLeft(StaffSlot, duties, order)
               = (CHOOSE staffed : IsStaffing(staffed, order, DOMAIN order))[DOMAIN order]
  BY DEF FoldLeft, MapThenFoldSet, IsStaffing

LEMMA StaffingOver ==
    ASSUME NEW staffed, NEW order, NEW D, IsStaffing(staffed, order, D),
           NEW s, s \in SUBSET D, NEW k, k = Max(s)
    PROVE  /\ s = {} => staffed[s] = duties
           /\ s # {} => staffed[s] = StaffSlot(staffed[s \ {k}], order[k])
  <1>1. staffed = [u \in SUBSET D |->
                     IF u = {} THEN duties
                     ELSE StaffSlot(staffed[u \ {Max(u)}], order[Max(u)])]
    BY Zenon DEF IsStaffing
  <1>2. staffed[s] = IF s = {} THEN duties
                     ELSE StaffSlot(staffed[s \ {Max(s)}], order[Max(s)])
    BY <1>1, Zenon
  <1> QED BY <1>2, Zenon

LEMMA StaffingsStep ==
    ASSUME NEW f, NEW g, NEW order, NEW A, NEW B,
           IsStaffing(f, order, A), IsStaffing(g, order, B),
           NEW T, T \in SUBSET A, T \in SUBSET B, NEW k, k = Max(T),
           T # {} => f[T \ {k}] = g[T \ {k}]
    PROVE  f[T] = g[T]
  <1>1. CASE T = {}
    <2>1. f[T] = duties
      BY <1>1, StaffingOver
    <2>2. g[T] = duties
      BY <1>1, StaffingOver
    <2> QED BY <2>1, <2>2
  <1>2. CASE T # {}
    <2>1. f[T] = StaffSlot(f[T \ {k}], order[k])
      BY <1>2, StaffingOver
    <2>2. g[T] = StaffSlot(g[T \ {k}], order[k])
      BY <1>2, StaffingOver
    <2> QED BY <1>2, <2>1, <2>2
  <1> QED BY <1>1, <1>2

Positions(S) == \E n \in Nat : S \in SUBSET (1..n)

LEMMA StaffingsAgree ==
    ASSUME NEW f, NEW g, NEW order, NEW A, NEW B, NEW S, Positions(S),
           IsStaffing(f, order, A), IsStaffing(g, order, B),
           S \in SUBSET A, S \in SUBSET B
    PROVE  f[S] = g[S]
  <1> DEFINE Good == {T \in SUBSET S : f[T] = g[T]}
  <1>1. ASSUME NEW T \in SUBSET S, \A U \in SUBSET T : U # T => U \in Good
        PROVE  T \in Good
    <2> DEFINE k == Max(T)
               U == T \ {k}
    <2>1. ASSUME T # {} PROVE f[U] = g[U]
      <3>1. T # {} => k \in T
        BY MaxIs DEF Positions
      <3>2. U \in SUBSET T /\ U # T
        BY <2>1, <3>1
      <3> HIDE DEF U
      <3> QED BY <1>1, <3>2
    <2>2. T \in SUBSET A /\ T \in SUBSET B
      OBVIOUS
    <2>3. f[T] = g[T]
      <3> HIDE DEF k, Good
      <3>1. k = Max(T)
        BY DEF k
      <3> QED BY <2>1, <2>2, <3>1, StaffingsStep
    <2> QED BY <2>3
  <1> HIDE DEF Good
  <1>2. IsFiniteSet(S)
    <2>1. PICK n \in Nat : S \in SUBSET (1..n)
      BY DEF Positions
    <2>2. IsFiniteSet(1..n)
      BY FS_Interval
    <2> QED BY <2>1, <2>2, FS_Subset
  <1>3. S \in Good
    BY <1>1, <1>2, SetInduction
  <1> QED BY <1>3 DEF Good

LEMMA StaffingExists ==
    ASSUME NEW order, NEW n \in Nat
    PROVE  \E staffed : IsStaffing(staffed, order, 1..n)
  <1> DEFINE Good == {T \in SUBSET (1..n) : \E staffed : IsStaffing(staffed, order, T)}
             Table(T) == CHOOSE staffed : IsStaffing(staffed, order, T)
             Rest(s) == s \ {Max(s)}
  <1>1. ASSUME NEW T \in SUBSET (1..n), \A U \in SUBSET T : U # T => U \in Good
        PROVE  T \in Good
    <2> DEFINE table == [s \in SUBSET T |->
                           IF s = {} THEN duties
                           ELSE StaffSlot(Table(Rest(s))[Rest(s)], order[Max(s)])]
    <2>1. ASSUME NEW U \in SUBSET T, U # T
          PROVE  IsStaffing(Table(U), order, U)
      BY <1>1, <2>1, Zenon
    <2>2. ASSUME NEW s \in SUBSET T, s # {}
          PROVE  /\ Rest(s) \in SUBSET T /\ Rest(s) # T /\ Rest(s) \in SUBSET s
                 /\ Rest(s) \in SUBSET (1..n)
      BY <2>2, MaxIs
    <2>3. ASSUME NEW U \in SUBSET T, U # T
          PROVE  table[U] = Table(U)[U]
      <3>1. IsStaffing(Table(U), order, U)
        BY <2>1, <2>3
      <3> HIDE DEF Table, Rest
      <3>2. CASE U = {}
        BY <3>1, <3>2, StaffingOver
      <3>3. CASE U # {}
        <4>1. /\ Rest(U) \in SUBSET T /\ Rest(U) # T /\ Rest(U) \in SUBSET U
              /\ Rest(U) \in SUBSET (1..n)
          BY <2>2, <3>3
        <4>2. IsStaffing(Table(Rest(U)), order, Rest(U))
          BY <2>1, <4>1
        <4>3. Table(Rest(U))[Rest(U)] = Table(U)[Rest(U)]
          <5> DEFINE R == Rest(U)
                     f == Table(R)
                     g == Table(U)
          <5>1. IsStaffing(f, order, R) /\ IsStaffing(g, order, U)
            BY <3>1, <4>2
          <5>2. Positions(R) /\ R \in SUBSET R /\ R \in SUBSET U
            BY <4>1 DEF Positions
          <5> HIDE DEF R, f, g
          <5>3. f[R] = g[R]
            BY <5>1, <5>2, StaffingsAgree
          <5> QED BY <5>3 DEF R, f, g
        <4>4. Table(U)[U] = StaffSlot(Table(U)[Rest(U)], order[Max(U)])
          BY <3>1, <3>3, StaffingOver DEF Rest
        <4>5. table[U] = StaffSlot(Table(Rest(U))[Rest(U)], order[Max(U)])
          BY <3>3
        <4> QED BY <4>3, <4>4, <4>5, Zenon
      <3> QED BY <3>2, <3>3
    <2>4. ASSUME NEW s \in SUBSET T
          PROVE  table[s] = IF s = {} THEN duties
                            ELSE StaffSlot(table[Rest(s)], order[Max(s)])
      <3> HIDE DEF Table, Rest
      <3>1. CASE s = {}
        BY <3>1
      <3>2. CASE s # {}
        <4>1. table[Rest(s)] = Table(Rest(s))[Rest(s)]
          <5> HIDE DEF table
          <5> QED BY <2>2, <2>3, <3>2
        <4>2. table[s] = StaffSlot(Table(Rest(s))[Rest(s)], order[Max(s)])
          BY <3>2
        <4> HIDE DEF table
        <4> QED BY <3>2, <4>1, <4>2, Zenon
      <3> QED BY <3>1, <3>2
    <2>5. IsStaffing(table, order, T)
      <3>1. table = [s \in SUBSET T |-> table[s]]
        BY SMT
      <3> HIDE DEF table
      <3> QED BY <2>4, <3>1, Zenon DEF IsStaffing
    <2> QED BY <2>5
  <1> HIDE DEF Good
  <1>2. IsFiniteSet(1..n)
    BY FS_Interval
  <1>3. 1..n \in Good
    <2> DEFINE S == 1..n
    <2>1. \A T \in SUBSET S : (\A U \in SUBSET T : U # T => U \in Good) => T \in Good
      BY <1>1
    <2>2. IsFiniteSet(S)
      BY <1>2
    <2> HIDE DEF S
    <2>3. S \in Good
      BY <2>1, <2>2, SetInduction
    <2> QED BY <2>3 DEF S
  <1> QED BY <1>3 DEF Good

(* The duties after each slot of the order.                                *)
LEMMA StaffingSteps ==
    ASSUME NEW order, NEW n \in Nat, DOMAIN order = 1..n
    PROVE  \E held : /\ held[0] = duties
                     /\ \A k \in 1..n : held[k] = StaffSlot(held[k - 1], order[k])
                     /\ FoldLeft(StaffSlot, duties, order) = held[n]
  <1> DEFINE staffed == CHOOSE table : IsStaffing(table, order, 1..n)
             held == [k \in 0..n |-> staffed[1..k]]
  <1>1. IsStaffing(staffed, order, 1..n)
    BY StaffingExists, Zenon
  <1>2. FoldLeft(StaffSlot, duties, order) = staffed[1..n]
    BY StaffingIs, Zenon
  <1> HIDE DEF staffed
  <1>3. staffed[{}] = duties
    <2>1. {} \in SUBSET (1..n)
      OBVIOUS
    <2> QED BY <1>1, <2>1, StaffingOver
  <1>4. ASSUME NEW k \in 1..n
        PROVE  staffed[1..k] = StaffSlot(staffed[1..(k - 1)], order[k])
    <2> DEFINE S == 1..k
    <2>1. S \in SUBSET (1..n) /\ k \in S /\ S \ {k} = 1..(k - 1)
      OBVIOUS
    <2>2. \A y \in S : y <= k /\ y \in Nat
      OBVIOUS
    <2> HIDE DEF S
    <2>3. Max(S) \in S /\ Max(S) >= k
      BY <2>1, MaxIs
    <2>4. Max(S) = k
      BY <2>2, <2>3
    <2>5. staffed[S] = StaffSlot(staffed[S \ {Max(S)}], order[Max(S)])
      BY <1>1, <2>1, StaffingOver
    <2>6. staffed[S] = StaffSlot(staffed[1..(k - 1)], order[k])
      BY <2>1, <2>4, <2>5, Zenon
    <2> QED BY <2>6 DEF S
  <1>5. held[0] = duties
    BY <1>3
  <1>6. ASSUME NEW k \in 1..n PROVE held[k] = StaffSlot(held[k - 1], order[k])
    <2>1. k \in 0..n /\ k - 1 \in 0..n
      OBVIOUS
    <2>2. held[k] = staffed[1..k] /\ held[k - 1] = staffed[1..(k - 1)]
      BY <2>1
    <2> HIDE DEF held
    <2> QED BY <1>4, <2>2, Zenon
  <1>7. held[n] = staffed[1..n]
    OBVIOUS
  <1> HIDE DEF held
  <1> QED BY <1>2, <1>5, <1>6, <1>7, Zenon

(* Nobody has two duties at once on the slots of X.                        *)
NoClash(held, X) ==
    \A d, e \in held :
        /\ d.slot \in X /\ e.slot \in X
        /\ d.teacher = e.teacher /\ d # e
        => ~Overlap(slot[d.slot].time, slot[e.slot].time)

(* A slot takes its invigilators from those whom no other duty keeps.      *)
LEMMA StaffOne ==
    ASSUME NEW held, held \subseteq Duty, NEW x \in Slot, NEW X,
           slot \in [Slot -> SlotRow], NoClash(held, X)
    PROVE  /\ StaffSlot(held, x) \subseteq Duty
           /\ NoClash(StaffSlot(held, x), X \cup {x})
  <1> DEFINE rest  == {d \in held : d.slot # x}
             free  == {i \in DOMAIN Roster : Available(Roster[i], x, rest)}
             first == {i \in free : Cardinality({j \in free : j < i}) < slot[x].need}
             added == {[slot |-> x, teacher |-> Roster[i]] : i \in first}
  <1>1. StaffSlot(held, x) = rest \cup added
    BY DEF StaffSlot
  <1>2. \A i \in first : i \in DOMAIN Roster /\ Available(Roster[i], x, rest)
    OBVIOUS
  <1> HIDE DEF first
  <1>3. added \subseteq Duty /\ \A d \in added : d.slot = x
    <2> SUFFICES ASSUME NEW d \in added PROVE d \in Duty /\ d.slot = x
      OBVIOUS
    <2>1. PICK i \in first : d = [slot |-> x, teacher |-> Roster[i]]
      OBVIOUS
    <2>2. Roster[i] \in Teacher
      BY <1>2 DEF Teacher
    <2> QED BY <2>1, <2>2 DEF Duty
  <1>4. rest \subseteq Duty /\ \A d \in rest : d.slot # x /\ d \in held
    OBVIOUS
  <1>5. ASSUME NEW d \in added PROVE Available(d.teacher, x, rest)
    BY <1>2, <1>5
  <1> HIDE DEF added, rest
  <1>6. ASSUME NEW d \in Duty PROVE d.slot \in Slot /\ slot[d.slot].time \in Window
    BY <1>6 DEF Duty, SlotRow
  <1>7. ASSUME NEW d \in rest \cup added, NEW e \in rest \cup added,
               d.slot \in X \cup {x}, e.slot \in X \cup {x},
               d.teacher = e.teacher, d # e
        PROVE  ~Overlap(slot[d.slot].time, slot[e.slot].time)
    <2>1. CASE d \in rest /\ e \in rest
      BY <1>4, <1>7, <2>1 DEF NoClash
    <2>2. CASE d \in added /\ e \in added
      <3>1. d \in Duty /\ e \in Duty /\ d.slot = e.slot
        BY <1>3, <2>2
      <3>2. d = e
        BY <1>7, <3>1 DEF Duty
      <3> QED BY <1>7, <3>2
    <2>3. CASE d \in added /\ e \in rest
      BY <1>3, <1>4, <1>5, <1>7, <2>3 DEF Available
    <2>4. CASE d \in rest /\ e \in added
      <3>1. ~Overlap(slot[e.slot].time, slot[d.slot].time)
        BY <1>3, <1>4, <1>5, <1>7, <2>4 DEF Available
      <3>2. slot[d.slot].time \in Window /\ slot[e.slot].time \in Window
        BY <1>3, <1>4, <1>6, <2>4
      <3> QED BY <3>1, <3>2, OverlapSymmetric
    <2> QED BY <1>7, <2>1, <2>2, <2>3, <2>4
  <1>8. NoClash(rest \cup added, X \cup {x})
    BY <1>7, Zenon DEF NoClash
  <1> QED BY <1>1, <1>3, <1>4, <1>8

(* Every live slot has its turn.                                           *)
LEMMA EachHasATurn ==
    ASSUME NEW order \in SetToSeqs(Live)
    PROVE  \E n \in Nat : /\ DOMAIN order = 1..n
                          /\ \A k \in 1..n : order[k] \in Live
                          /\ \A x \in Live : \E k \in 1..n : order[k] = x
  <1> DEFINE n == Cardinality(Live)
  <1>1. IsFiniteSet(Live) /\ n \in Nat
    <2>1. Live \subseteq Slot
      BY DEF Live
    <2> QED BY <2>1, SlotAssumption, FS_Subset, FS_CardinalityType
  <1>2. /\ order \in [1..n -> Live]
        /\ \A i, j \in 1..n : i # j => order[i] # order[j]
    BY DEF SetToSeqs
  <1> HIDE DEF n
  <1>3. order \in Injection(1..n, Live)
    BY <1>2 DEF Injection, IsInjective
  <1>4. Cardinality(1..n) = n
    BY <1>1, FS_Interval
  <1>5. order \in Surjection(1..n, Live)
    BY <1>1, <1>3, <1>4, FS_Injection DEF n
  <1>6. \A x \in Live : \E k \in 1..n : order[k] = x
    BY <1>5 DEF Surjection
  <1> QED BY <1>1, <1>2, <1>6

LEMMA NobodyTwice ==
    ASSUME NEW order \in SetToSeqs(Live), slot \in [Slot -> SlotRow], duties \subseteq Duty
    PROVE  NoClash(FoldLeft(StaffSlot, duties, order), Live)
  <1>1. PICK n \in Nat : /\ DOMAIN order = 1..n
                         /\ \A k \in 1..n : order[k] \in Live
                         /\ \A x \in Live : \E k \in 1..n : order[k] = x
    BY EachHasATurn
  <1>2. PICK held : /\ held[0] = duties
                    /\ \A k \in 1..n : held[k] = StaffSlot(held[k - 1], order[k])
                    /\ FoldLeft(StaffSlot, duties, order) = held[n]
    BY <1>1, StaffingSteps
  <1> DEFINE Done(k) == {order[j] : j \in 1..k}
             Good == {k \in 0..n : held[k] \subseteq Duty /\ NoClash(held[k], Done(k))}
  <1>3. 0 \in Good
    <2>1. Done(0) = {}
      OBVIOUS
    <2>2. NoClash(held[0], {})
      BY DEF NoClash
    <2>3. held[0] \subseteq Duty
      BY <1>2
    <2> HIDE DEF Done
    <2> QED BY <2>1, <2>2, <2>3
  <1>4. ASSUME NEW k \in 1..n, k - 1 \in Good PROVE k \in Good
    <2>1. Done(k) = Done(k - 1) \cup {order[k]}
      <3>1. 1..k = 1..(k - 1) \cup {k}
        OBVIOUS
      <3> QED BY <3>1
    <2> DEFINE before == held[k - 1]
               x == order[k]
               X == Done(k - 1)
    <2>2. before \subseteq Duty /\ NoClash(before, X)
      BY <1>4
    <2>3. held[k] = StaffSlot(before, x) /\ x \in Slot
      BY <1>1, <1>2 DEF Live
    <2> HIDE DEF before, x, X
    <2>4. StaffSlot(before, x) \subseteq Duty /\ NoClash(StaffSlot(before, x), X \cup {x})
      BY <2>2, <2>3, StaffOne
    <2>5. Done(k) = X \cup {x}
      BY <2>1, Zenon DEF X, x
    <2> HIDE DEF Done
    <2>6. held[k] \subseteq Duty /\ NoClash(held[k], Done(k))
      BY <2>3, <2>4, <2>5, Zenon
    <2> QED BY <2>6
  <1> HIDE DEF Good
  <1>5. n \in Good
    <2>1. \A k \in 0..n : k \in Good
      BY <1>3, <1>4, Climb
    <2> QED BY <2>1
  <1>6. NoClash(held[n], Done(n))
    BY <1>5 DEF Good
  <1>7. Live \subseteq Done(n)
    BY <1>1
  <1> HIDE DEF Done
  <1>8. NoClash(held[n], Live)
    BY <1>6, <1>7 DEF NoClash
  <1> QED BY <1>2, <1>8, Zenon

(* An automatic assignment that is alone leaves the slots as they are and  *)
(* the live ones covered.                                                  *)
Covers(held) ==
    /\ \A x \in Live : Manned(held, x)
    /\ NoClash(OfSlots(held, Live), Live)

AutoCovers ==
    \A s \in Session :
        txn[s].op = "auto" /\ txn[s].alone
            => txn[s].rows = Keep /\ Covers(DutiesAfter(txn[s]))

CInv == IInv /\ AutoCovers

LEMMA AutoPlans ==
    ASSUME IInv, NEW order \in SetToSeqs(Live), NEW staff, NEW t,
           staff = {d \in Duty : d \in OfSlots(FoldLeft(StaffSlot, duties, order), Live)},
           \A x \in Live : Manned(staff, x),
           t.duties.gone = OfSlots(duties, Live), t.duties.new = staff
    PROVE  Covers(DutiesAfter(t))
  <1> DEFINE held == FoldLeft(StaffSlot, duties, order)
  <1>1. NoClash(held, Live)
    BY NobodyTwice DEF IInv, Typed
  <1> HIDE DEF held
  <1>2. staff = {d \in Duty : d \in OfSlots(held, Live)}
    BY DEF held
  <1>3. OfSlots(DutiesAfter(t), Live) = OfSlots(staff, Live)
    BY DEF DutiesAfter, OfSlots
  <1>4. OfSlots(staff, Live) \subseteq held
    BY <1>2 DEF OfSlots
  <1>5. NoClash(OfSlots(DutiesAfter(t), Live), Live)
    BY <1>1, <1>3, <1>4 DEF NoClash
  <1>6. ASSUME NEW x \in Live PROVE Manned(DutiesAfter(t), x)
    <2>1. OnDuty(DutiesAfter(t), x) = OnDuty(staff, x)
      BY DEF DutiesAfter, OfSlots, OnDuty
    <2>2. Manned(staff, x)
      OBVIOUS
    <2> QED BY <2>1, <2>2 DEF Manned
  <1> QED BY <1>5, <1>6 DEF Covers

(* What a request asks for.                                                *)
LEMMA BegunCovers ==
    ASSUME IInv, NEW s \in Session, NEW t, Begin(s, t),
           t.op = "auto" => t.rows = Keep /\ Covers(DutiesAfter(t))
    PROVE  AutoCovers'
  <1> SUFFICES ASSUME NEW r \in Session, txn'[r].op = "auto", txn'[r].alone
               PROVE  txn'[r].rows = Keep /\ Covers(DutiesAfter(txn[r]))'
    BY DEF AutoCovers
  <1>1. slot' = slot /\ duties' = duties
    BY DEF Begin
  <1>2. txn'[r] = IF r = s THEN t ELSE [txn[r] EXCEPT !.alone = FALSE]
    BY DEF Begin
  <1>3. r = s
    <2> SUFFICES ASSUME r # s PROVE FALSE
      OBVIOUS
    <2>1. txn'[r].alone = FALSE
      <3>1. CASE txn[r] = Idle
        BY <1>2, <3>1, IdleBeside
      <3>2. CASE Shaped(txn[r])
        BY <1>2, <3>2, Beside
      <3> QED BY <3>1, <3>2 DEF IInv, Typed
    <2> QED BY <2>1
  <1>4. txn'[r] = t /\ t.rows = Keep /\ Covers(DutiesAfter(t))
    BY <1>2, <1>3
  <1>5. Covers(DutiesAfter(t)) => Covers(DutiesAfter(txn[r]))'
    BY <1>1, <1>4 DEF Covers, DutiesAfter, OfSlots, NoClash, Manned, OnDuty, Live
  <1> QED BY <1>4, <1>5

LEMMA AutoCoversBegun ==
    ASSUME IInv, NEW s \in Session, AutoAssign(s)
    PROVE  AutoCovers'
  <1>1. PICK order \in SetToSeqs(Live) :
          LET held  == FoldLeft(StaffSlot, duties, order)
              staff == {d \in Duty : d \in OfSlots(held, Live)}
          IN  /\ \A x \in Live : Manned(staff, x)
              /\ Begin(s, Writes("auto", {}, <<>>, Keep, {}, Same,
                          [gone |-> OfSlots(duties, Live), new |-> staff]))
    BY DEF AutoAssign
  <1> DEFINE staff == {d \in Duty : d \in OfSlots(FoldLeft(StaffSlot, duties, order), Live)}
             change == [gone |-> OfSlots(duties, Live), new |-> staff]
             t == Writes("auto", {}, <<>>, Keep, {}, Same, change)
  <1>2. Begin(s, t) /\ \A x \in Live : Manned(staff, x)
    BY <1>1
  <1>3. t.rows = Keep /\ t.duties = change
    BY WritesFields
  <1>4. change.gone = OfSlots(duties, Live) /\ change.new = staff
    OBVIOUS
  <1> HIDE DEF t, change
  <1>5. Covers(DutiesAfter(t))
    BY <1>2, <1>3, <1>4, AutoPlans
  <1> QED BY <1>2, <1>3, <1>5, BegunCovers

(* Every other request is something else.                                  *)
LEMMA OthersBegin ==
    ASSUME NEW s \in Session,
           \/ CreateSlot(s) \/ UpdateSlot(s) \/ DeleteSlot(s) \/ ShareHall(s)
           \/ Register(s)
           \/ SeatSlot(s) \/ SeatBulk(s) \/ SeatHall(s)
           \/ AddInvigilator(s) \/ ReplaceInvigilator(s) \/ RemoveInvigilator(s)
    PROVE  \E t : Begin(s, t) /\ t.op # "auto"
  <1>0. \A op, slots, rooms, rows, students, seating, staff :
            Writes(op, slots, rooms, rows, students, seating, staff).op = op
    BY DEF Writes
  <1>1. CASE CreateSlot(s)
    BY <1>0, <1>1 DEF CreateSlot
  <1>2. CASE UpdateSlot(s)
    BY <1>0, <1>2 DEF UpdateSlot
  <1>3. CASE DeleteSlot(s)
    BY <1>0, <1>3 DEF DeleteSlot
  <1>4. CASE ShareHall(s)
    BY <1>0, <1>4 DEF ShareHall
  <1>5. CASE Register(s)
    BY <1>0, <1>5 DEF Register
  <1>6. CASE SeatSlot(s)
    BY <1>0, <1>6 DEF SeatSlot
  <1>7. CASE SeatBulk(s)
    BY <1>0, <1>7 DEF SeatBulk
  <1>8. CASE SeatHall(s)
    BY <1>0, <1>8 DEF SeatHall
  <1>9. CASE AddInvigilator(s)
    BY <1>0, <1>9 DEF AddInvigilator
  <1>10. CASE ReplaceInvigilator(s)
    BY <1>0, <1>10 DEF ReplaceInvigilator
  <1>11. CASE RemoveInvigilator(s)
    BY <1>0, <1>11 DEF RemoveInvigilator
  <1> QED BY <1>1, <1>2, <1>3, <1>4, <1>5, <1>6, <1>7, <1>8, <1>9, <1>10, <1>11

(* A request that ends is not alone beside another, and is idle then.      *)
LEMMA EndedCovers ==
    ASSUME IInv, NEW s \in Session, txn[s] # Idle, txn' = [txn EXCEPT ![s] = Idle]
    PROVE  AutoCovers'
  <1> SUFFICES ASSUME NEW r \in Session, txn'[r].op = "auto", txn'[r].alone PROVE FALSE
    BY DEF AutoCovers
  <1>1. txn = [q \in Session |-> txn[q]]
    BY DEF IInv, Typed
  <1>2. CASE r = s
    <2>1. txn'[r] = Idle
      BY <1>1, <1>2
    <2> QED BY <2>1 DEF Idle
  <1>3. CASE r # s
    <2>1. txn'[r] = txn[r]
      BY <1>1, <1>3
    <2> QED BY <1>3, <2>1 DEF IInv, AloneIsSound
  <1> QED BY <1>2, <1>3

LEMMA CoversStarted == Init => CInv
  <1> SUFFICES ASSUME Init PROVE AutoCovers
    BY Started DEF CInv
  <1> QED BY DEF Init, Idle, AutoCovers

LEMMA CoversStepped == CInv /\ [Next]_vars => CInv'
  <1> SUFFICES ASSUME IInv, AutoCovers, [Next]_vars PROVE AutoCovers'
    BY Stepped DEF CInv
  <1>1. CASE Next
    <2>1. PICK s \in Session :
        \/ CreateSlot(s) \/ UpdateSlot(s) \/ DeleteSlot(s) \/ ShareHall(s)
        \/ Register(s)
        \/ SeatSlot(s) \/ SeatBulk(s) \/ SeatHall(s)
        \/ AddInvigilator(s) \/ ReplaceInvigilator(s) \/ RemoveInvigilator(s)
        \/ AutoAssign(s)
        \/ Commit(s) \/ Abort(s)
      BY <1>1 DEF Next
    <2>2. CASE AutoAssign(s)
      BY <2>2, AutoCoversBegun
    <2>3. CASE Commit(s)
      BY <2>3, EndedCovers DEF Commit
    <2>4. CASE Abort(s)
      BY <2>4, EndedCovers DEF Abort
    <2>5. CASE ~AutoAssign(s) /\ ~Commit(s) /\ ~Abort(s)
      <3>1. PICK t : Begin(s, t) /\ t.op # "auto"
        BY <2>1, <2>5, OthersBegin, Zenon
      <3> QED BY <3>1, BegunCovers
    <2> QED BY <2>2, <2>3, <2>4, <2>5
  <1>2. CASE UNCHANGED vars
    <2>1. slot' = slot /\ duties' = duties /\ txn' = txn
      BY <1>2 DEF vars
    <2> QED BY <2>1 DEF AutoCovers, Covers, DutiesAfter, OfSlots, NoClash, Manned,
                        OnDuty, Live
  <1> QED BY <1>1, <1>2

(* Whatever was scheduled, moved and assigned before, an automatic         *)
(* assignment that nothing overlaps commits with every live slot manned as *)
(* it asks and no teacher on two duties at once: the roster is gone        *)
(* through slot by slot, and a slot that is not manned makes the whole     *)
(* assignment fail (auto_assign_invigilators).                             *)
THEOREM AutoStaffsAll == Spec => AutoStaffs
  <1>1. CInv => [\A s \in Session :
           txn[s].op = "auto" /\ txn[s].alone /\ Commit(s) => Covered']_vars
    <2> SUFFICES ASSUME CInv, NEW s \in Session,
                        txn[s].op = "auto", txn[s].alone, Commit(s)
                 PROVE  Covered'
      OBVIOUS
    <2> DEFINE t == txn[s]
    <2>1. t.rows = Keep /\ Covers(DutiesAfter(t))
      BY DEF CInv, AutoCovers
    <2>2. slot' = SlotsAfter(t) /\ duties' = DutiesAfter(t)
      BY DEF Commit
    <2> HIDE DEF t
    <2>3. slot' = slot
      BY <2>1, <2>2, KeepSlots DEF CInv, IInv, Typed
    <2>4. Live' = Live
      BY <2>3 DEF Live
    <2> DEFINE held == DutiesAfter(t)
    <2>5. Covers(held)
      BY <2>1
    <2> HIDE DEF held
    <2>6. duties' = held
      BY <2>2 DEF held
    <2>7. (\A x \in Live : Manned(duties, x))'
      BY <2>3, <2>4, <2>5, <2>6 DEF Covers, Manned, OnDuty
    <2>8. OfSlots(duties, Live)' = OfSlots(held, Live)
      BY <2>4, <2>6 DEF OfSlots
    <2>9. \A d \in OfSlots(held, Live) : d.slot \in Live
      BY DEF OfSlots
    <2>10. (\A d, e \in OfSlots(duties, Live) :
              d.teacher = e.teacher /\ d # e
                  => ~Overlap(slot[d.slot].time, slot[e.slot].time))'
      BY <2>3, <2>5, <2>8, <2>9 DEF Covers, NoClash
    <2> QED BY <2>7, <2>10 DEF Covered
  <1> QED BY CoversStarted, CoversStepped, <1>1, PTL DEF Spec, AutoStaffs

-----------------------------------------------------------------------------
(* The places of a list of rooms, in a row: FlattenSeq puts the rooms      *)
(* together one by one, in a recursive function whose existence comes      *)
(* first.                                                                  *)
Place == [room : Room, seat : Nat]

IsJoining(flat, seqs, k) ==
    flat = [i \in 1..k |-> IF i = 1 THEN seqs[i] ELSE flat[i - 1] \o seqs[i]]

LEMMA JoiningExists ==
    ASSUME NEW seqs, NEW n \in Nat
    PROVE  \E flat : IsJoining(flat, seqs, n)
  <1> DEFINE Good == {k \in 0..n : \E flat : IsJoining(flat, seqs, k)}
  <1>1. 0 \in Good
    <2> DEFINE flat == [i \in 1..0 |-> seqs]
    <2>1. flat = [i \in 1..0 |-> IF i = 1 THEN seqs[i] ELSE flat[i - 1] \o seqs[i]]
      OBVIOUS
    <2> HIDE DEF flat
    <2>2. IsJoining(flat, seqs, 0)
      BY <2>1 DEF IsJoining
    <2> QED BY <2>2
  <1>2. ASSUME NEW k \in 1..n, k - 1 \in Good PROVE k \in Good
    <2>1. PICK flat : IsJoining(flat, seqs, k - 1)
      BY <1>2
    <2>2. flat = [i \in 1..(k - 1) |-> IF i = 1 THEN seqs[i] ELSE flat[i - 1] \o seqs[i]]
      BY <2>1 DEF IsJoining
    <2> DEFINE Here(i) == IF i = 1 THEN seqs[i] ELSE flat[i - 1] \o seqs[i]
               more == [i \in 1..k |-> Here(i)]
    <2>3. \A i \in 1..(k - 1) : flat[i] = Here(i)
      BY <2>2, Zenon
    <2>4. \A i \in 1..k : more[i] = Here(i)
      BY Zenon
    <2>5. \A i \in 1..(k - 1) : more[i] = flat[i]
      <3> HIDE DEF Here, more
      <3> QED BY <2>3, <2>4
    <2>6. ASSUME NEW i \in 1..k
          PROVE  more[i] = IF i = 1 THEN seqs[i] ELSE more[i - 1] \o seqs[i]
      <3>1. CASE i = 1
        BY <2>4, <3>1, Zenon
      <3>2. CASE i # 1
        <4>1. i - 1 \in 1..(k - 1)
          BY <3>2
        <4>2. more[i - 1] = flat[i - 1]
          BY <2>5, <4>1, Zenon
        <4>3. more[i] = flat[i - 1] \o seqs[i]
          BY <2>4, <3>2, Zenon
        <4> HIDE DEF more
        <4> QED BY <3>2, <4>2, <4>3, Zenon
      <3> QED BY <3>1, <3>2
    <2>7. more = [i \in 1..k |-> more[i]]
      BY Zenon
    <2> HIDE DEF more
    <2>8. IsJoining(more, seqs, k)
      BY <2>6, <2>7, Zenon DEF IsJoining
    <2> QED BY <2>8
  <1> HIDE DEF Good
  <1>3. \A k \in 0..n : k \in Good
    BY <1>1, <1>2, Climb
  <1>4. n \in Good
    BY <1>3
  <1> QED BY <1>4 DEF Good

LEMMA Joined ==
    ASSUME NEW seqs, NEW n \in Nat \ {0}, Len(seqs) = n
    PROVE  \E flat : /\ FlattenSeq(seqs) = flat[n]
                     /\ flat[1] = seqs[1]
                     /\ \A i \in 2..n : flat[i] = flat[i - 1] \o seqs[i]
  <1> DEFINE flat == CHOOSE g : IsJoining(g, seqs, n)
  <1>1. IsJoining(flat, seqs, n)
    BY JoiningExists, Zenon
  <1>2. FlattenSeq(seqs) = flat[n]
    <2>1. FlattenSeq(seqs) = (CHOOSE g : IsJoining(g, seqs, Len(seqs)))[Len(seqs)]
      BY DEF FlattenSeq, IsJoining
    <2> QED BY <2>1
  <1> HIDE DEF flat
  <1>3. flat = [i \in 1..n |-> IF i = 1 THEN seqs[i] ELSE flat[i - 1] \o seqs[i]]
    BY <1>1 DEF IsJoining
  <1>4. \A i \in 1..n : flat[i] = IF i = 1 THEN seqs[i] ELSE flat[i - 1] \o seqs[i]
    BY <1>3, Zenon
  <1>5. flat[1] = seqs[1]
    BY <1>4
  <1>6. ASSUME NEW i \in 2..n PROVE flat[i] = flat[i - 1] \o seqs[i]
    <2>1. i \in 1..n /\ i # 1
      OBVIOUS
    <2> QED BY <1>4, <2>1, Zenon
  <1> QED BY <1>2, <1>5, <1>6

(* q holds exactly the places of the first k rooms, and each once if no    *)
(* room is listed twice.                                                   *)
Row(q, rooms, size, k) ==
    /\ q \in Seq(Place)
    /\ \A j \in 1..Len(q) : \E i \in 1..k : q[j].room = rooms[i] /\ q[j].seat \in 1..size[rooms[i]]
    /\ \A i \in 1..k : \A n \in 1..size[rooms[i]] :
           \E j \in 1..Len(q) : q[j].room = rooms[i] /\ q[j].seat = n
    /\ IsInjective(rooms) => \A i, j \in 1..Len(q) : q[i] = q[j] => i = j

LEMMA RowGrows ==
    ASSUME NEW rooms, NEW size, NEW k \in Nat, NEW q, Row(q, rooms, size, k),
           NEW room \in Room, room = rooms[k + 1], size[room] \in Nat,
           IsInjective(rooms) => \A i \in 1..k : rooms[i] # room,
           NEW s, s = [n \in 1..size[room] |-> [room |-> room, seat |-> n]]
    PROVE  Row(q \o s, rooms, size, k + 1)
  <1> DEFINE m == size[room]
             r == q \o s
  <1>1. /\ s \in Seq(Place) /\ Len(s) = m
        /\ \A j \in 1..m : s[j] \in Place /\ s[j].room = room /\ s[j].seat = j
    <2>1. \A n \in 1..m : [room |-> room, seat |-> n] \in Place
      BY DEF Place
    <2>2. s \in [1..m -> Place]
      BY <2>1
    <2>3. \A j \in 1..m : s[j] = [room |-> room, seat |-> j]
      OBVIOUS
    <2> QED BY <2>1, <2>2, <2>3
  <1>2. q \in Seq(Place) /\ Len(q) \in Nat
    BY DEF Row
  <1>3. /\ r \in Seq(Place) /\ Len(r) = Len(q) + m
        /\ \A j \in 1..Len(q) : r[j] = q[j]
        /\ \A j \in 1..m : r[Len(q) + j] = s[j]
    BY <1>1, <1>2
  <1> HIDE DEF r, m
  <1>m. m \in Nat /\ m = size[room]
    BY DEF m
  <1>4. ASSUME NEW j \in 1..Len(r)
        PROVE  \/ j \in 1..Len(q) /\ r[j] = q[j]
               \/ \E l \in 1..m : j = Len(q) + l /\ r[j] = s[l]
    <2>1. CASE j <= Len(q)
      BY <1>2, <1>3, <2>1
    <2>2. CASE j > Len(q)
      <3> DEFINE l == j - Len(q)
      <3>1. l \in 1..m /\ j = Len(q) + l
        BY <1>2, <1>3, <1>m, <2>2
      <3> HIDE DEF l
      <3> QED BY <1>3, <3>1
    <2>3. j \in Int
      OBVIOUS
    <2>4. j <= Len(q) \/ j > Len(q)
      BY <1>2, <2>3
    <2> QED BY <2>1, <2>2, <2>4, Zenon
  <1>5. ASSUME NEW j \in 1..Len(r)
        PROVE  \E i \in 1..(k + 1) : r[j].room = rooms[i] /\ r[j].seat \in 1..size[rooms[i]]
    <2>1. CASE j \in 1..Len(q) /\ r[j] = q[j]
      <3>1. PICK i \in 1..k : q[j].room = rooms[i] /\ q[j].seat \in 1..size[rooms[i]]
        BY <2>1 DEF Row
      <3>2. i \in 1..(k + 1)
        OBVIOUS
      <3> QED BY <2>1, <3>1, <3>2
    <2>2. CASE \E l \in 1..m : j = Len(q) + l /\ r[j] = s[l]
      <3>1. PICK l \in 1..m : r[j] = s[l]
        BY <2>2
      <3>2. r[j].room = rooms[k + 1] /\ r[j].seat \in 1..size[rooms[k + 1]]
        BY <1>1, <1>m, <3>1
      <3>3. k + 1 \in 1..(k + 1)
        OBVIOUS
      <3> QED BY <3>2, <3>3
    <2> QED BY <1>4, <2>1, <2>2
  <1>6. ASSUME NEW i \in 1..(k + 1), NEW n \in 1..size[rooms[i]]
        PROVE  \E j \in 1..Len(r) : r[j].room = rooms[i] /\ r[j].seat = n
    <2>1. CASE i \in 1..k
      <3>1. PICK j \in 1..Len(q) : q[j].room = rooms[i] /\ q[j].seat = n
        BY <2>1 DEF Row
      <3>2. j \in 1..Len(r) /\ r[j] = q[j]
        BY <1>2, <1>3, <1>m
      <3> QED BY <3>1, <3>2
    <2>2. CASE i = k + 1
      <3>1. n \in 1..m
        BY <1>m, <2>2
      <3>2. r[Len(q) + n] = s[n]
        BY <1>3, <3>1
      <3>4. Len(q) + n \in 1..Len(r)
        <4>1. Len(r) = Len(q) + m
          BY <1>3
        <4>2. n \in Nat /\ 1 <= n /\ n <= m
          BY <1>m, <3>1
        <4> QED BY <1>2, <1>m, <4>1, <4>2
      <3>3. s[n].room = rooms[i] /\ s[n].seat = n
        BY <1>1, <2>2, <3>1
      <3> QED BY <3>2, <3>3, <3>4
    <2> QED BY <2>1, <2>2
  <1>8. IsInjective(rooms) => \A i, j \in 1..Len(q) : q[i] = q[j] => i = j
    BY DEF Row
  <1>7. ASSUME IsInjective(rooms), NEW i \in 1..Len(r), NEW j \in 1..Len(r), r[i] = r[j]
        PROVE  i = j
    <2>1. ASSUME NEW e \in 1..Len(q), NEW l \in 1..m PROVE q[e] # s[l]
      <3>1. PICK d \in 1..k : q[e].room = rooms[d]
        BY DEF Row
      <3>2. q[e].room # room
        BY <1>7, <3>1
      <3>3. s[l].room = room
        BY <1>1
      <3> QED BY <3>2, <3>3
    <2>2. CASE i \in 1..Len(q) /\ r[i] = q[i] /\ j \in 1..Len(q) /\ r[j] = q[j]
      BY <1>7, <1>8, <2>2
    <2>3. CASE /\ \E l \in 1..m : i = Len(q) + l /\ r[i] = s[l]
               /\ \E l \in 1..m : j = Len(q) + l /\ r[j] = s[l]
      <3>1. PICK l \in 1..m : i = Len(q) + l /\ r[i] = s[l]
        BY <2>3
      <3>2. PICK h \in 1..m : j = Len(q) + h /\ r[j] = s[h]
        BY <2>3
      <3>3. s[l].seat = l /\ s[h].seat = h
        BY <1>1
      <3>4. l = h
        BY <1>7, <3>1, <3>2, <3>3
      <3> QED BY <3>1, <3>2, <3>4
    <2>4. CASE i \in 1..Len(q) /\ r[i] = q[i] /\ \E l \in 1..m : j = Len(q) + l /\ r[j] = s[l]
      BY <1>7, <2>1, <2>4
    <2>5. CASE j \in 1..Len(q) /\ r[j] = q[j] /\ \E l \in 1..m : i = Len(q) + l /\ r[i] = s[l]
      BY <1>7, <2>1, <2>5
    <2>6. /\ \/ i \in 1..Len(q) /\ r[i] = q[i]
             \/ \E l \in 1..m : i = Len(q) + l /\ r[i] = s[l]
          /\ \/ j \in 1..Len(q) /\ r[j] = q[j]
             \/ \E l \in 1..m : j = Len(q) + l /\ r[j] = s[l]
      BY <1>4
    <2> QED BY <2>2, <2>3, <2>4, <2>5, <2>6, Zenon
  <1> QED BY <1>3, <1>5, <1>6, <1>7, Zenon DEF Row, r

(* What a hall offers: its places in a row, each once if no room is listed *)
(* twice.                                                                  *)
LEMMA PlacesInARow ==
    ASSUME NEW rooms, rooms \in Seq(Room) \ {<<>>},
           NEW size \in [Room -> Nat]
    PROVE  LET places == Places(rooms, size) IN
           /\ places \in Seq(Place)
           /\ {places[k] : k \in DOMAIN places} = PlacesOf(rooms, size)
           /\ IsInjective(rooms) =>
                  \A i, j \in DOMAIN places : places[i] = places[j] => i = j
  <1> DEFINE n == Len(rooms)
             of(i) == [k \in 1..size[rooms[i]] |-> [room |-> rooms[i], seat |-> k]]
             seqs == [i \in 1..n |-> of(i)]
             places == Places(rooms, size)
  <1>1. /\ n \in Nat \ {0} /\ DOMAIN rooms = 1..n
        /\ \A i \in 1..n : rooms[i] \in Room
    OBVIOUS
  <1>2. \A i \in 1..n : size[rooms[i]] \in Nat
    BY <1>1
  <1>3. IsInjective(rooms) => \A i, j \in 1..n : rooms[i] = rooms[j] => i = j
    BY <1>1 DEF IsInjective
  <1>4. places = FlattenSeq(seqs)
    BY <1>1 DEF Places
  <1>5. Len(seqs) = n /\ \A i \in 1..n : seqs[i] = of(i)
    <2>1. DOMAIN seqs = 1..n
      OBVIOUS
    <2>2. Len(seqs) = n
      <3> HIDE DEF seqs
      <3> QED BY <1>1, <2>1
    <2> QED BY <2>2
  <1> HIDE DEF n, seqs, places
  <1>6. PICK flat : /\ FlattenSeq(seqs) = flat[n]
                    /\ flat[1] = seqs[1]
                    /\ \A i \in 2..n : flat[i] = flat[i - 1] \o seqs[i]
    BY <1>1, <1>5, Joined
  <1> DEFINE Good == {k \in 0..n : k # 0 => Row(flat[k], rooms, size, k)}
  <1>7. 0 \in Good
    BY <1>1
  <1>8. ASSUME NEW k \in 1..n, k - 1 \in Good PROVE k \in Good
    <2> HIDE DEF of
    <2>1. CASE k = 1
      <3> DEFINE h == 0
                 q == <<>>
      <3>1. h \in Nat /\ Row(q, rooms, size, h)
        BY DEF Row
      <3>2. rooms[1] \in Room /\ size[rooms[1]] \in Nat
        BY <1>1, <1>2
      <3> DEFINE room == rooms[1]
                 s == of(1)
      <3>3. s = [l \in 1..size[room] |-> [room |-> room, seat |-> l]]
        BY DEF of
      <3>4. room \in Room /\ size[room] \in Nat /\ room = rooms[h + 1]
        BY <3>2
      <3>5. IsInjective(rooms) => \A i \in 1..h : rooms[i] # room
        OBVIOUS
      <3> HIDE DEF h, q, s, room
      <3>6. Row(q \o s, rooms, size, h + 1)
        BY <3>1, <3>3, <3>4, <3>5, RowGrows
      <3>7. s \in Seq(Place)
        <4>1. \A l \in 1..size[room] : [room |-> room, seat |-> l] \in Place
          BY <3>4 DEF Place
        <4>2. s \in [1..size[room] -> Place]
          BY <3>3, <4>1, Zenon
        <4> QED BY <3>4, <4>2
      <3>8. q \o s = s /\ h + 1 = k
        BY <2>1, <3>7 DEF h, q
      <3>9. flat[k] = s
        BY <1>1, <1>5, <1>6, <2>1 DEF s
      <3>10. Row(flat[k], rooms, size, k)
        BY <3>6, <3>8, <3>9
      <3> QED BY <3>10
    <2>2. CASE k # 1
      <3> DEFINE h == k - 1
                 q == flat[h]
                 room == rooms[k]
                 s == of(k)
      <3>1. h \in Nat /\ h # 0 /\ h + 1 = k /\ k \in 2..n
        BY <1>1, <2>2
      <3>2. Row(q, rooms, size, h)
        BY <1>8, <3>1
      <3>3. s = [l \in 1..size[room] |-> [room |-> room, seat |-> l]]
        BY DEF of
      <3>4. room \in Room /\ size[room] \in Nat /\ room = rooms[h + 1]
        BY <1>1, <1>2, <3>1
      <3>5. IsInjective(rooms) => \A i \in 1..h : rooms[i] # room
        <4> SUFFICES ASSUME IsInjective(rooms), NEW i \in 1..h PROVE rooms[i] # room
          OBVIOUS
        <4>1. i \in 1..n /\ i # k
          BY <1>1, <3>1
        <4> QED BY <1>3, <4>1, Zenon
      <3>6. flat[k] = q \o s
        BY <1>5, <1>6, <3>1
      <3> HIDE DEF h, q, room, s
      <3>7. Row(q \o s, rooms, size, h + 1)
        BY <3>1, <3>2, <3>3, <3>4, <3>5, RowGrows
      <3>8. Row(flat[k], rooms, size, k)
        BY <3>1, <3>6, <3>7
      <3> QED BY <3>8
    <2> QED BY <2>1, <2>2
  <1> HIDE DEF Good, of
  <1>9. n \in Good
    <2>1. \A k \in 0..n : k \in Good
      BY <1>1, <1>7, <1>8, Climb
    <2> QED BY <1>1, <2>1
  <1>10. Row(places, rooms, size, n)
    BY <1>1, <1>4, <1>6, <1>9 DEF Good
  <1>11. /\ places \in Seq(Place) /\ DOMAIN places = 1..Len(places)
         /\ \A j \in DOMAIN places : places[j] \in Place
    BY <1>10 DEF Row
  <1>12. IsInjective(rooms) =>
             \A i, j \in DOMAIN places : places[i] = places[j] => i = j
    BY <1>10, <1>11 DEF Row
  <1>13. ASSUME NEW j \in DOMAIN places PROVE places[j] \in PlacesOf(rooms, size)
    <2>1. PICK i \in 1..n : places[j].room = rooms[i] /\ places[j].seat \in 1..size[rooms[i]]
      BY <1>10, <1>11 DEF Row
    <2>2. places[j] = [room |-> rooms[i], seat |-> places[j].seat]
      BY <1>11, <2>1 DEF Place
    <2> QED BY <1>1, <2>1, <2>2 DEF PlacesOf
  <1>14. ASSUME NEW p \in PlacesOf(rooms, size) PROVE \E j \in DOMAIN places : places[j] = p
    <2>0. PICK i \in 1..n : \E l \in 1..size[rooms[i]] : p = [room |-> rooms[i], seat |-> l]
      BY <1>1 DEF PlacesOf
    <2>1. PICK l \in 1..size[rooms[i]] : p = [room |-> rooms[i], seat |-> l]
      BY <2>0
    <2>2. PICK j \in 1..Len(places) : places[j].room = rooms[i] /\ places[j].seat = l
      BY <1>10 DEF Row
    <2>3. places[j] = p
      BY <1>11, <2>1, <2>2 DEF Place
    <2> QED BY <1>11, <2>2, <2>3
  <1>15. {places[k] : k \in DOMAIN places} = PlacesOf(rooms, size)
    BY <1>13, <1>14
  <1> QED BY <1>11, <1>12, <1>15 DEF places

(* The rows of a seating: as many as students, and either everybody has    *)
(* one or every place is taken; and as many as places they take if no room *)
(* is listed twice.                                                        *)
LEMMA SeatedFills ==
    ASSUME NEW due, IsFiniteSet(due), NEW order \in SetToSeqs(due),
           NEW rooms, rooms \in Seq(Room) \ {<<>>},
           NEW size \in [Room -> Nat], NEW papers, NEW X,
           \A k \in DOMAIN order : papers[k] \in X,
           NEW held, OfSlots(held, X) = Seated(order, Places(rooms, size), papers),
           due = UNION {Due(x) : x \in X}
    PROVE  /\ Filled(held, X, PlacesOf(rooms, size))
           /\ IsInjective(rooms) => Apiece(held, X)
  <1> DEFINE places == Places(rooms, size)
             all == PlacesOf(rooms, size)
             D == DOMAIN order \cap DOMAIN places
             row(k) == [slot |-> papers[k], student |-> order[k],
                        room |-> places[k].room, seat |-> places[k].seat]
             rows == {row(k) : k \in D}
             sat == {r.student : r \in rows}
             used == {[room |-> r.room, seat |-> r.seat] : r \in rows}
  <1>1. /\ places \in Seq(Place)
        /\ {places[k] : k \in DOMAIN places} = all
        /\ IsInjective(rooms) =>
               \A i, j \in DOMAIN places : places[i] = places[j] => i = j
    BY PlacesInARow
  <1> DEFINE n == Cardinality(due)
  <1>2. n \in Nat
    BY FS_CardinalityType
  <1>3. /\ order \in [1..n -> due]
        /\ \A i, j \in 1..n : i # j => order[i] # order[j]
    BY DEF SetToSeqs
  <1>4. \A e \in due : \E k \in 1..n : order[k] = e
    <2> HIDE DEF n
    <2>1. order \in Injection(1..n, due)
      BY <1>3 DEF Injection, IsInjective
    <2>2. Cardinality(1..n) = n
      BY <1>2, FS_Interval
    <2>3. order \in Surjection(1..n, due)
      BY <1>2, <2>1, <2>2, FS_Injection DEF n
    <2> QED BY <2>3 DEF Surjection
  <1>5. OfSlots(held, X) = rows
    BY DEF Seated
  <1> HIDE DEF places, all, n
  <1>6. \A k \in DOMAIN places : places[k] = [room |-> places[k].room, seat |-> places[k].seat]
    <2> TAKE k \in DOMAIN places
    <2>1. places[k] \in Place
      BY <1>1
    <2> QED BY <2>1 DEF Place
  <1>7. ASSUME NEW r \in rows
        PROVE  \E k \in D : r = row(k) /\ r.student = order[k]
                            /\ [room |-> r.room, seat |-> r.seat] = places[k]
    <2>1. PICK k \in D : r = row(k)
      OBVIOUS
    <2>2. r.student = order[k] /\ r.room = places[k].room /\ r.seat = places[k].seat
      BY <2>1
    <2>3. [room |-> r.room, seat |-> r.seat] = places[k]
      BY <1>6, <2>2
    <2> QED BY <2>1, <2>2, <2>3
  <1>8. ASSUME NEW k \in D
        PROVE  \E r \in rows : r.student = order[k]
                               /\ [room |-> r.room, seat |-> r.seat] = places[k]
    <2>1. row(k) \in rows
      OBVIOUS
    <2>2. row(k).student = order[k] /\ row(k).room = places[k].room /\ row(k).seat = places[k].seat
      OBVIOUS
    <2> HIDE DEF row, rows
    <2>3. [room |-> row(k).room, seat |-> row(k).seat] = places[k]
      BY <1>6, <2>2
    <2> QED BY <2>1, <2>2, <2>3
  <1>9. IsFiniteSet(rows)
    <2>1. IsFiniteSet(D)
      <3>1. D \subseteq 1..n /\ IsFiniteSet(1..n)
        BY <1>2, <1>3, FS_Interval
      <3> QED BY <3>1, FS_Subset
    <2> DEFINE f == [k \in D |-> row(k)]
    <2>2. f \in Surjection(D, rows)
      BY DEF Surjection
    <2> HIDE DEF f, D, rows
    <2> QED BY <2>1, <2>2, FS_Surjection
  <1> HIDE DEF row, rows
  <1>10. Cardinality(rows) = Cardinality(sat)
    <2> DEFINE f == [r \in rows |-> r.student]
    <2>1. f \in [rows -> sat] /\ \A e \in sat : \E r \in rows : f[r] = e
      OBVIOUS
    <2>2. \A r, q \in rows : f[r] = f[q] => r = q
      <3> SUFFICES ASSUME NEW r \in rows, NEW q \in rows, r.student = q.student PROVE r = q
        OBVIOUS
      <3>1. PICK k \in D : r = row(k) /\ r.student = order[k]
        BY <1>7
      <3>2. PICK l \in D : q = row(l) /\ q.student = order[l]
        BY <1>7
      <3>3. k = l
        BY <1>3, <3>1, <3>2
      <3> QED BY <3>1, <3>2, <3>3
    <2> HIDE DEF f, sat
    <2>3. f \in Bijection(rows, sat)
      BY <2>1, <2>2 DEF Bijection, Injection, Surjection, IsInjective
    <2> QED BY <1>9, <2>3, FS_Bijection DEF ExistsBijection
  <1>11. ASSUME IsInjective(rooms), NEW r \in rows, NEW q \in rows,
                r.room = q.room, r.seat = q.seat
         PROVE  r = q
    <2>1. PICK k \in D : r = row(k) /\ [room |-> r.room, seat |-> r.seat] = places[k]
      BY <1>7
    <2>2. PICK l \in D : q = row(l) /\ [room |-> q.room, seat |-> q.seat] = places[l]
      BY <1>7
    <2>3. k = l
      BY <1>1, <1>11, <2>1, <2>2
    <2> QED BY <2>1, <2>2, <2>3
  <1>12. sat \subseteq due
    BY <1>3, <1>7
  <1>13. used \subseteq all
    BY <1>1, <1>7
  <1>14. sat = due \/ used = all
    <2>1. CASE n <= Len(places)
      <3>1. \A e \in due : e \in sat
        <4> SUFFICES ASSUME NEW e \in due PROVE e \in sat
          OBVIOUS
        <4>1. PICK k \in 1..n : order[k] = e
          BY <1>4
        <4>2. k \in D
          BY <1>1, <1>2, <1>3, <2>1
        <4> QED BY <1>8, <4>1, <4>2
      <3> QED BY <1>12, <3>1
    <2>2. CASE Len(places) < n
      <3>1. \A p \in all : p \in used
        <4> SUFFICES ASSUME NEW p \in all PROVE p \in used
          OBVIOUS
        <4>1. PICK k \in DOMAIN places : places[k] = p
          BY <1>1
        <4>2. k \in D
          BY <1>1, <1>2, <1>3, <2>2
        <4>3. PICK r \in rows : [room |-> r.room, seat |-> r.seat] = places[k]
          BY <1>8, <4>2
        <4> QED BY <4>1, <4>3
      <3> QED BY <1>13, <3>1
    <2>3. Len(places) \in Nat
      BY <1>1
    <2>4. n <= Len(places) \/ Len(places) < n
      BY <1>2, <2>3
    <2> QED BY <2>1, <2>2, <2>4
  <1>15. /\ sat \subseteq due /\ used \subseteq all
         /\ Cardinality(rows) = Cardinality(sat)
         /\ sat = due \/ used = all
    BY <1>10, <1>12, <1>13, <1>14
  <1> HIDE DEF D
  <1>16. Filled(held, X, PlacesOf(rooms, size))
    BY <1>5, <1>15, Zenon DEF Filled, all
  <1>17. IsInjective(rooms) => Apiece(held, X)
    BY <1>5, <1>11 DEF Apiece
  <1> QED BY <1>16, <1>17

(* A seating that is alone changes neither slots nor registrations and     *)
(* leaves the seats as they should be; students are registered from among  *)
(* those there are.                                                        *)
Seating == {"seat", "bulk", "hall"}

RegistersStudents(t) == "students" \in DOMAIN t /\ t.students \subseteq Student

SeatsPlanned(t) ==
    t.alone /\ t.op \in Seating
        => /\ t.rows = Keep /\ t.students = {}
           /\ SeatedWell(t, SeatsAfter(t))
           /\ SeatsDistinct(t) => SeatedApart(t, SeatsAfter(t))

SInv ==
    /\ IInv
    /\ registered \subseteq Student
    /\ \A s \in Session :
           /\ txn[s] # Idle => RegistersStudents(txn[s])
           /\ SeatsPlanned(txn[s])

(* The new seats of slots whose old ones are dropped.                      *)
LEMMA NewSeats ==
    ASSUME NEW X, NEW Y \in SUBSET X, NEW t, t.seats.gone = OfSlots(seats, X),
           \A n \in t.seats.new : n.slot \in X
    PROVE  OfSlots(SeatsAfter(t), Y) = OfSlots(t.seats.new, Y)
  <1>1. Taken(t) = {}
    BY DEF Taken, OfSlots
  <1> QED BY <1>1 DEF SeatsAfter, OfSlots

LEMMA DueFinite ==
    ASSUME registered \subseteq Student, NEW X
    PROVE  IsFiniteSet(UNION {Due(x) : x \in X})
  <1>1. UNION {Due(x) : x \in X} \subseteq Student
    BY DEF Due
  <1> QED BY <1>1, StudentAssumption, FS_Subset

LEMMA OwnRoom ==
    ASSUME NEW x \in Slot, slot \in [Slot -> SlotRow], NEW rooms,
           rooms \in Hall \/ rooms = <<slot[x].room>>
    PROVE  /\ rooms \in Seq(Room) \ {<<>>}
           /\ SeatsIn(x) \in [Room -> Nat]
  <1>1. slot[x].room \in Room /\ slot[x].capacity \in Nat
    BY DEF SlotRow
  <1>2. SeatsIn(x) \in [Room -> Nat]
    BY <1>1, CapacityAssumption DEF SeatsIn
  <1>3. CASE rooms \in Hall
    BY <1>2, <1>3, HallAssumption
  <1>4. CASE rooms = <<slot[x].room>>
    <2>1. rooms \in Seq(Room) /\ rooms # <<>> /\ DOMAIN rooms = 1..1
      BY <1>1, <1>4
    <2> QED BY <1>2, <2>1
  <1> QED BY <1>3, <1>4

(* One slot, seated for itself.                                            *)
LEMMA SlotFills ==
    ASSUME NEW x \in Slot, slot \in [Slot -> SlotRow], registered \subseteq Student,
           NEW rooms, rooms \in Hall \/ rooms = <<slot[x].room>>,
           NEW order \in SetToSeqs(Due(x)),
           NEW held, OfSlots(held, {x}) = SeatsFor(x, rooms, order)
    PROVE  Filled(held, {x}, PlacesOf(rooms, SeatsIn(x)))
  <1> DEFINE due == Due(x)
             papers == [k \in DOMAIN order |-> x]
             size == SeatsIn(x)
             X == {x}
  <1>1. due = UNION {Due(y) : y \in X}
    OBVIOUS
  <1>2. IsFiniteSet(due)
    <2>1. IsFiniteSet(UNION {Due(y) : y \in X})
      BY DueFinite
    <2> QED BY <1>1, <2>1
  <1>3. /\ rooms \in Seq(Room) \ {<<>>}
        /\ size \in [Room -> Nat]
    BY OwnRoom
  <1>4. \A k \in DOMAIN order : papers[k] \in X
    OBVIOUS
  <1>5. OfSlots(held, X) = Seated(order, Places(rooms, size), papers)
    BY DEF SeatsFor
  <1>6. order \in SetToSeqs(due)
    OBVIOUS
  <1> HIDE DEF due, papers, size, X
  <1>7. Filled(held, X, PlacesOf(rooms, size))
    BY <1>1, <1>2, <1>3, <1>4, <1>5, <1>6, SeatedFills
  <1> QED BY <1>7 DEF X, size

LEMMA SeatsForSlotOnly ==
    ASSUME NEW x, NEW rooms, NEW order
    PROVE  OfSlots(SeatsFor(x, rooms, order), {x}) = SeatsFor(x, rooms, order)
  BY SeatsForSlot DEF OfSlots

-----------------------------------------------------------------------------
(* Beginning.                                                              *)
LEMMA SeatingFields ==
    ASSUME NEW op, NEW slots, NEW rooms, NEW seating, NEW t,
           t = Writes(op, slots, rooms, Keep, {}, seating, Same)
    PROVE  /\ t.op = op /\ t.slots = slots /\ t.rooms = rooms
           /\ t.rows = Keep /\ t.students = {} /\ t.seats = seating
           /\ RegistersStudents(t)
  BY DEF Writes, RegistersStudents

(* What a seating should be depends on the slots and who is registered.    *)
LEMMA SameWell ==
    ASSUME UNCHANGED <<slot, registered>>, NEW t, NEW held
    PROVE  SeatedWell(t, held)' <=> SeatedWell(t, held)
  <1>1. \A x : Due(x)' = Due(x) /\ SeatsIn(x)' = SeatsIn(x)
    BY DEF Due, SeatsIn
  <1>2. \A X, places : Filled(held, X, places)' <=> Filled(held, X, places)
    BY <1>1 DEF Filled, OfSlots
  <1> QED BY <1>1, <1>2 DEF SeatedWell, PlacesOf

LEMMA SameApart ==
    ASSUME NEW t, NEW held, SeatsAfter(t)' = held
    PROVE  (SeatsDistinct(t) => SeatedApart(t, SeatsAfter(t)))' <=>
               (SeatsDistinct(t) => SeatedApart(t, held))
  BY DEF SeatsDistinct, SeatedApart, Apiece, OfSlots

LEMMA SamePieces ==
    ASSUME NEW t, seats' = SeatsAfter(t), SeatedApart(t, SeatsAfter(t))
    PROVE  SeatedApart(t, seats)'
  BY DEF SeatedApart, Apiece, OfSlots

LEMMA BegunSeats ==
    ASSUME SInv, IInv', NEW s \in Session, NEW t, Begin(s, t),
           RegistersStudents(t), SeatsPlanned(t)
    PROVE  SInv'
  <1>1. UNCHANGED <<slot, registered, seats>>
    BY DEF Begin
  <1>2. \A r \in Session :
            txn'[r] = IF r = s THEN t ELSE [txn[r] EXCEPT !.alone = FALSE]
    BY DEF Begin
  <1>3. ASSUME NEW r \in Session
        PROVE  /\ txn'[r] # Idle => RegistersStudents(txn'[r])
               /\ SeatsPlanned(txn[r])'
    <2>1. CASE r = s
      <3>1. txn'[r] = t
        BY <1>2, <2>1
      <3>2. SeatsPlanned(txn[r])'
        <4>1. SeatsAfter(t)' = SeatsAfter(t)
          BY <1>1 DEF SeatsAfter, Taken
        <4>2. PICK held : held = SeatsAfter(t)
          OBVIOUS
        <4>3. SeatedWell(t, held)' <=> SeatedWell(t, held)
          BY <1>1, SameWell
        <4>4. SeatedWell(t, SeatsAfter(t))' <=> SeatedWell(t, held)'
          BY <4>1, <4>2
        <4>5. (SeatsDistinct(t) => SeatedApart(t, SeatsAfter(t)))' <=>
                  (SeatsDistinct(t) => SeatedApart(t, held))
          BY <4>1, <4>2, SameApart
        <4>6. SeatsPlanned(t)'
          BY <4>2, <4>3, <4>4, <4>5 DEF SeatsPlanned
        <4> QED BY <3>1, <4>6
      <3> QED BY <3>1, <3>2
    <2>2. CASE r # s
      <3>1. txn'[r] = [txn[r] EXCEPT !.alone = FALSE]
        BY <1>2, <2>2
      <3>2. CASE txn[r] = Idle
        <4>1. txn'[r] = Idle /\ ~txn'[r].alone
          BY <3>1, <3>2, IdleBeside
        <4> QED BY <4>1 DEF SeatsPlanned
      <3>3. CASE txn[r] # Idle
        <4>1. Shaped(txn[r]) /\ RegistersStudents(txn[r])
          BY <3>3 DEF SInv, IInv, Typed
        <4>2. txn'[r].alone = FALSE /\ RegistersStudents(txn'[r])
          BY <3>1, <4>1 DEF Shaped, RegistersStudents
        <4> QED BY <4>2 DEF SeatsPlanned
      <3> QED BY <3>2, <3>3
    <2> QED BY <2>1, <2>2
  <1>4. registered' \subseteq Student
    BY <1>1 DEF SInv
  <1>5. \A r \in Session :
           /\ (txn[r] # Idle => RegistersStudents(txn[r]))'
           /\ SeatsPlanned(txn[r])'
    <2>1. ASSUME NEW r \in Session
          PROVE  (txn[r] # Idle => RegistersStudents(txn[r]))'
      BY <1>3 DEF RegistersStudents
    <2> QED BY <1>3, <2>1
  <1> QED BY <1>4, <1>5 DEF SInv

LEMMA SeatSlotPlans ==
    ASSUME SInv, IInv', NEW s \in Session, SeatSlot(s)
    PROVE  SInv'
  <1>1. PICK x \in Live : \E rooms \in Hall \cup {<<slot[x].room>>},
                             order \in SetToSeqs(Due(x)) :
            Begin(s, Writes("seat", {x}, rooms, Keep, {},
                       [gone |-> OfSlots(seats, {x}),
                        new |-> SeatsFor(x, rooms, order)], Same))
    BY DEF SeatSlot
  <1>2. PICK rooms \in Hall \cup {<<slot[x].room>>}, order \in SetToSeqs(Due(x)) :
            Begin(s, Writes("seat", {x}, rooms, Keep, {},
                       [gone |-> OfSlots(seats, {x}),
                        new |-> SeatsFor(x, rooms, order)], Same))
    BY <1>1
  <1> DEFINE seating == [gone |-> OfSlots(seats, {x}), new |-> SeatsFor(x, rooms, order)]
             t == Writes("seat", {x}, rooms, Keep, {}, seating, Same)
  <1>3. Begin(s, t)
    BY <1>2
  <1>4. seating.gone = OfSlots(seats, {x}) /\ seating.new = SeatsFor(x, rooms, order)
    OBVIOUS
  <1> HIDE DEF seating
  <1>5. /\ t.op = "seat" /\ t.slots = {x} /\ t.rooms = rooms
        /\ t.rows = Keep /\ t.students = {} /\ t.seats = seating
        /\ RegistersStudents(t)
    BY SeatingFields
  <1> HIDE DEF t
  <1> DEFINE held == SeatsAfter(t)
  <1>6. OfSlots(held, {x}) = SeatsFor(x, rooms, order)
    <2>1. \A n \in t.seats.new : n.slot \in {x}
      BY <1>4, <1>5, SeatsForSlot
    <2>2. OfSlots(held, {x}) = OfSlots(t.seats.new, {x})
      BY <1>4, <1>5, <2>1, NewSeats
    <2> QED BY <1>4, <1>5, <2>2, SeatsForSlotOnly
  <1>d. SeatsDistinct(t) => Apiece(held, {x})
    <2>1. \A n \in OfSlots(held, {x}) : n \in t.seats.new /\ n.slot = x
      BY <1>4, <1>5, <1>6, SeatsForSlot
    <2> QED BY <2>1 DEF SeatsDistinct, Apiece
  <1> HIDE DEF held
  <1>7. x \in Slot /\ slot \in [Slot -> SlotRow] /\ registered \subseteq Student
    BY DEF SInv, IInv, Typed, Live
  <1>8. Filled(held, {x}, PlacesOf(rooms, SeatsIn(x)))
    BY <1>6, <1>7, SlotFills
  <1>9. SeatedWell(t, held) /\ (SeatsDistinct(t) => SeatedApart(t, held))
    BY <1>5, <1>d, <1>8 DEF SeatedWell, SeatedApart
  <1>10. SeatsPlanned(t)
    BY <1>5, <1>9 DEF SeatsPlanned, held
  <1> QED BY <1>3, <1>5, <1>10, BegunSeats

LEMMA SeatBulkPlans ==
    ASSUME SInv, IInv', NEW s \in Session, SeatBulk(s)
    PROVE  SInv'
  <1>1. PICK X \in SUBSET Live :
           LET served == {x \in X : Due(x) # {}} IN
           \E order \in [served -> UNION {SetToSeqs(Due(x)) : x \in served}] :
               /\ \A x \in served : order[x] \in SetToSeqs(Due(x))
               /\ Begin(s, Writes("bulk", served, <<>>, Keep, {},
                           [gone |-> OfSlots(seats, served),
                            new |-> SeatsForEach(served, order)], Same))
    BY DEF SeatBulk
  <1> DEFINE served == {x \in X : Due(x) # {}}
  <1>a. served \subseteq Live
    OBVIOUS
  <1>2. PICK order :
               /\ \A x \in served : order[x] \in SetToSeqs(Due(x))
               /\ Begin(s, Writes("bulk", served, <<>>, Keep, {},
                           [gone |-> OfSlots(seats, served),
                            new |-> SeatsForEach(served, order)], Same))
    BY <1>1
  <1> HIDE DEF served
  <1> DEFINE seating == [gone |-> OfSlots(seats, served), new |-> SeatsForEach(served, order)]
             t == Writes("bulk", served, <<>>, Keep, {}, seating, Same)
  <1>3. Begin(s, t)
    BY <1>2
  <1>4. seating.gone = OfSlots(seats, served) /\ seating.new = SeatsForEach(served, order)
    OBVIOUS
  <1> HIDE DEF seating
  <1>5. /\ t.op = "bulk" /\ t.slots = served
        /\ t.rows = Keep /\ t.students = {} /\ t.seats = seating
        /\ RegistersStudents(t)
    BY SeatingFields
  <1> HIDE DEF t
  <1> DEFINE held == SeatsAfter(t)
  <1>6. ASSUME NEW n \in t.seats.new
        PROVE  \E x \in served : n \in SeatsFor(x, <<slot[x].room>>, order[x]) /\ n.slot = x
    BY <1>4, <1>5, SeatsForSlot DEF SeatsForEach
  <1>7. ASSUME NEW x \in served
        PROVE  /\ Filled(held, {x}, PlacesOf(<<slot[x].room>>, SeatsIn(x)))
               /\ SeatsDistinct(t) => Apiece(held, {x})
    <2> DEFINE rooms == <<slot[x].room>>
    <2>1. OfSlots(held, {x}) = OfSlots(t.seats.new, {x})
      <3>1. {x} \in SUBSET served /\ \A n \in t.seats.new : n.slot \in served
        BY <1>6
      <3>2. t.seats.gone = OfSlots(seats, served)
        BY <1>4, <1>5
      <3> QED BY <3>1, <3>2, NewSeats
    <2>2. OfSlots(t.seats.new, {x}) = SeatsFor(x, rooms, order[x])
      <3>1. \A n \in SeatsFor(x, rooms, order[x]) : n.slot = x /\ n \in t.seats.new
        BY <1>4, <1>5, SeatsForSlot DEF SeatsForEach
      <3> QED BY <1>6, <3>1 DEF OfSlots
    <2>3. x \in Slot /\ slot \in [Slot -> SlotRow] /\ registered \subseteq Student
      BY <1>a DEF SInv, IInv, Typed, Live
    <2>4. order[x] \in SetToSeqs(Due(x))
      BY <1>2
    <2>5. OfSlots(held, {x}) = SeatsFor(x, rooms, order[x])
      BY <2>1, <2>2
    <2>6. rooms = <<slot[x].room>>
      OBVIOUS
    <2>8. SeatsDistinct(t) => Apiece(held, {x})
      <3>1. \A n \in OfSlots(held, {x}) : n \in t.seats.new /\ n.slot = x
        BY <2>1 DEF OfSlots
      <3> QED BY <3>1 DEF SeatsDistinct, Apiece
    <2> HIDE DEF rooms, held
    <2>7. Filled(held, {x}, PlacesOf(rooms, SeatsIn(x)))
      BY <2>3, <2>4, <2>5, <2>6, SlotFills
    <2> QED BY <2>7, <2>8 DEF rooms
  <1> HIDE DEF held
  <1>8. SeatedWell(t, held) /\ (SeatsDistinct(t) => SeatedApart(t, held))
    BY <1>5, <1>7 DEF SeatedWell, SeatedApart
  <1>9. SeatsPlanned(t)
    BY <1>5, <1>8 DEF SeatsPlanned, held
  <1> QED BY <1>3, <1>5, <1>9, BegunSeats

LEMMA SeatHallPlans ==
    ASSUME SInv, IInv', NEW s \in Session, SeatHall(s)
    PROVE  SInv'
  <1>1. PICK X \in (SUBSET Live) \ {{}}, rooms \in Hall :
           LET due == UNION {Due(x) : x \in X} IN
           /\ AtOneTime(X)
           /\ due # {}
           /\ \E paper \in [due -> X], order \in SetToSeqs(due) :
               /\ \A e \in due : e \in Due(paper[e])
               /\ \A e, f \in due : ClassOf[e] = ClassOf[f] => paper[e] = paper[f]
               /\ Begin(s, Writes("hall", X, rooms, Keep, {},
                       [gone |-> OfSlots(seats, X),
                        new |-> Seated(order, Places(rooms, Capacity),
                                       [k \in DOMAIN order |-> paper[order[k]]])],
                       Same))
    BY DEF SeatHall
  <1> DEFINE due == UNION {Due(x) : x \in X}
  <1>2. PICK paper \in [due -> X], order \in SetToSeqs(due) :
               Begin(s, Writes("hall", X, rooms, Keep, {},
                       [gone |-> OfSlots(seats, X),
                        new |-> Seated(order, Places(rooms, Capacity),
                                       [k \in DOMAIN order |-> paper[order[k]]])],
                       Same))
    BY <1>1
  <1> DEFINE papers == [k \in DOMAIN order |-> paper[order[k]]]
             rows == Seated(order, Places(rooms, Capacity), papers)
             seating == [gone |-> OfSlots(seats, X), new |-> rows]
             t == Writes("hall", X, rooms, Keep, {}, seating, Same)
  <1>3. Begin(s, t)
    BY <1>2
  <1>4. seating.gone = OfSlots(seats, X) /\ seating.new = rows
    OBVIOUS
  <1> HIDE DEF seating
  <1>5. /\ t.op = "hall" /\ t.slots = X /\ t.rooms = rooms
        /\ t.rows = Keep /\ t.students = {} /\ t.seats = seating
        /\ RegistersStudents(t)
    BY SeatingFields
  <1> HIDE DEF t
  <1>6. \A k \in DOMAIN order : papers[k] \in X
    BY DEF SetToSeqs
  <1> HIDE DEF due, papers
  <1>7. \A n \in rows : n.slot \in X
    BY <1>6 DEF Seated
  <1> DEFINE held == SeatsAfter(t)
  <1>8. OfSlots(held, X) = rows
    <2> HIDE DEF rows
    <2>1. OfSlots(held, X) = OfSlots(t.seats.new, X)
      BY <1>4, <1>5, <1>7, NewSeats
    <2> QED BY <1>4, <1>5, <1>7, <2>1 DEF OfSlots
  <1> HIDE DEF held
  <1>9. IsFiniteSet(due) /\ due = UNION {Due(x) : x \in X}
    BY DueFinite DEF due, SInv
  <1>10. /\ rooms \in Seq(Room) \ {<<>>}
         /\ Capacity \in [Room -> Nat]
    BY HallAssumption, CapacityAssumption
  <1>11. /\ Filled(held, X, PlacesOf(rooms, Capacity))
         /\ IsInjective(rooms) => Apiece(held, X)
    BY <1>6, <1>8, <1>9, <1>10, SeatedFills
  <1>12. SeatedWell(t, held) /\ SeatedApart(t, held)
    BY <1>5, <1>11 DEF SeatedWell, SeatedApart
  <1>13. SeatsPlanned(t)
    BY <1>5, <1>12 DEF SeatsPlanned, held
  <1> QED BY <1>3, <1>5, <1>13, BegunSeats

(* Every other request is no seating.                                      *)
LEMMA OthersSeatNobody ==
    ASSUME NEW s \in Session,
           \/ CreateSlot(s) \/ UpdateSlot(s) \/ DeleteSlot(s) \/ ShareHall(s)
           \/ Register(s)
           \/ AddInvigilator(s) \/ ReplaceInvigilator(s) \/ RemoveInvigilator(s)
           \/ AutoAssign(s)
    PROVE  \E t : Begin(s, t) /\ t.op \notin Seating /\ RegistersStudents(t)
  <1>0. \A op, rows, students, staff :
            students \subseteq Student /\ op \notin Seating
            => LET t == Writes(op, {}, <<>>, rows, students, Same, staff) IN
               t.op \notin Seating /\ RegistersStudents(t)
    BY DEF Writes, RegistersStudents
  <1>d. \A rows, students, seating, staff :
            students \subseteq Student
            => LET t == Writes("delete", {}, <<>>, rows, students, seating, staff) IN
               t.op \notin Seating /\ RegistersStudents(t)
    BY DEF Writes, RegistersStudents, Seating
  <1>n. /\ "create" \notin Seating /\ "update" \notin Seating /\ "session" \notin Seating
        /\ "register" \notin Seating /\ "add" \notin Seating /\ "replace" \notin Seating
        /\ "remove" \notin Seating /\ "auto" \notin Seating /\ {} \subseteq Student
    BY DEF Seating
  <1>1. CASE CreateSlot(s)
    BY <1>0, <1>n, <1>1 DEF CreateSlot
  <1>2. CASE UpdateSlot(s)
    BY <1>0, <1>n, <1>2 DEF UpdateSlot
  <1>3. CASE DeleteSlot(s)
    BY <1>d, <1>n, <1>3 DEF DeleteSlot
  <1>4. CASE ShareHall(s)
    BY <1>0, <1>n, <1>4 DEF ShareHall
  <1>5. CASE Register(s)
    <2>1. PICK c \in Class :
            Begin(s, Writes("register", {}, <<>>, Keep,
                       {e \in Student : ClassOf[e] = c} \ registered, Same, Same))
      BY <1>5 DEF Register
    <2>2. {e \in Student : ClassOf[e] = c} \ registered \subseteq Student
      OBVIOUS
    <2> QED BY <1>0, <1>n, <2>1, <2>2
  <1>6. CASE AddInvigilator(s)
    BY <1>0, <1>n, <1>6 DEF AddInvigilator
  <1>7. CASE ReplaceInvigilator(s)
    BY <1>0, <1>n, <1>7 DEF ReplaceInvigilator
  <1>8. CASE RemoveInvigilator(s)
    BY <1>0, <1>n, <1>8 DEF RemoveInvigilator
  <1>9. CASE AutoAssign(s)
    BY <1>0, <1>n, <1>9 DEF AutoAssign
  <1> QED BY <1>1, <1>2, <1>3, <1>4, <1>5, <1>6, <1>7, <1>8, <1>9

(* A request that ends was not alone beside another, and is idle then.     *)
LEMMA EndedSeats ==
    ASSUME SInv, IInv', NEW s \in Session, txn[s] # Idle,
           txn' = [txn EXCEPT ![s] = Idle], registered' \subseteq Student
    PROVE  SInv'
  <1>1. txn = [q \in Session |-> txn[q]]
    BY DEF SInv, IInv, Typed
  <1>2. \A r \in Session : txn'[r] = IF r = s THEN Idle ELSE txn[r]
    BY <1>1
  <1>3. ASSUME NEW r \in Session PROVE ~txn'[r].alone
    <2>1. CASE r = s
      BY <1>2, <2>1, IdleBeside
    <2>2. CASE r # s
      BY <1>2, <2>2 DEF SInv, IInv, AloneIsSound
    <2> QED BY <2>1, <2>2
  <1>4. ASSUME NEW r \in Session
        PROVE  (txn[r] # Idle => RegistersStudents(txn[r]))'
    BY <1>2 DEF SInv, RegistersStudents
  <1>5. ASSUME NEW r \in Session PROVE SeatsPlanned(txn[r])'
    BY <1>3 DEF SeatsPlanned
  <1> QED BY <1>4, <1>5 DEF SInv

LEMMA SeatsStarted == Init => SInv
  <1> SUFFICES ASSUME Init PROVE SInv
    OBVIOUS
  <1>1. \A s \in Session : txn[s] = Idle /\ ~Idle.alone
    BY IdleBeside DEF Init
  <1>2. registered \subseteq Student
    BY DEF Init
  <1> QED BY Started, <1>1, <1>2 DEF SInv, SeatsPlanned

LEMMA SeatsStepped == SInv /\ [Next]_vars => SInv'
  <1> SUFFICES ASSUME SInv, [Next]_vars PROVE SInv'
    OBVIOUS
  <1>0. IInv'
    BY Stepped DEF SInv
  <1>1. CASE Next
    <2>1. PICK s \in Session :
        \/ CreateSlot(s) \/ UpdateSlot(s) \/ DeleteSlot(s) \/ ShareHall(s)
        \/ Register(s)
        \/ SeatSlot(s) \/ SeatBulk(s) \/ SeatHall(s)
        \/ AddInvigilator(s) \/ ReplaceInvigilator(s) \/ RemoveInvigilator(s)
        \/ AutoAssign(s)
        \/ Commit(s) \/ Abort(s)
      BY <1>1 DEF Next
    <2>2. CASE SeatSlot(s)
      BY <1>0, <2>2, SeatSlotPlans
    <2>3. CASE SeatBulk(s)
      BY <1>0, <2>3, SeatBulkPlans
    <2>4. CASE SeatHall(s)
      BY <1>0, <2>4, SeatHallPlans
    <2>5. CASE Commit(s)
      <3>1. /\ txn[s] # Idle /\ txn' = [txn EXCEPT ![s] = Idle]
            /\ registered' = registered \cup txn[s].students
        BY <2>5 DEF Commit
      <3>2. registered' \subseteq Student
        BY <3>1 DEF SInv, RegistersStudents
      <3> QED BY <1>0, <3>1, <3>2, EndedSeats
    <2>6. CASE Abort(s)
      <3>1. /\ txn[s] # Idle /\ txn' = [txn EXCEPT ![s] = Idle]
            /\ registered' \subseteq Student
        BY <2>6 DEF Abort, SInv
      <3> QED BY <1>0, <3>1, EndedSeats
    <2>7. CASE /\ ~SeatSlot(s) /\ ~SeatBulk(s) /\ ~SeatHall(s)
               /\ ~Commit(s) /\ ~Abort(s)
      <3>1. PICK t : Begin(s, t) /\ t.op \notin Seating /\ RegistersStudents(t)
        BY <2>1, <2>7, OthersSeatNobody, Zenon
      <3>2. SeatsPlanned(t)
        BY <3>1 DEF SeatsPlanned
      <3> QED BY <1>0, <3>1, <3>2, BegunSeats
    <2> QED BY <2>2, <2>3, <2>4, <2>5, <2>6, <2>7
  <1>2. CASE UNCHANGED vars
    <2>1. UNCHANGED <<slot, registered, seats, txn>>
      BY <1>2 DEF vars
    <2>2. ASSUME NEW r \in Session
          PROVE  /\ (txn[r] # Idle => RegistersStudents(txn[r]))'
                 /\ SeatsPlanned(txn[r])'
      <3>1. PICK t : t = txn[r]
        OBVIOUS
      <3>2. txn'[r] = t
        BY <2>1, <3>1
      <3>3. (txn'[r] # Idle => RegistersStudents(txn'[r])) /\ SeatsPlanned(t)
        BY <3>1, <3>2 DEF SInv
      <3>4. SeatsAfter(t)' = SeatsAfter(t)
        BY <2>1 DEF SeatsAfter, Taken
      <3>5. PICK held : held = SeatsAfter(t)
        OBVIOUS
      <3>6. SeatedWell(t, held)' <=> SeatedWell(t, held)
        BY <2>1, SameWell
      <3>7. SeatedWell(t, SeatsAfter(t))' <=> SeatedWell(t, held)'
        BY <3>4, <3>5
      <3>a. (SeatsDistinct(t) => SeatedApart(t, SeatsAfter(t)))' <=>
                (SeatsDistinct(t) => SeatedApart(t, held))
        BY <3>4, <3>5, SameApart
      <3>8. SeatsPlanned(t)'
        BY <3>3, <3>5, <3>6, <3>7, <3>a DEF SeatsPlanned
      <3>9. SeatsPlanned(txn[r])'
        BY <3>2, <3>8
      <3>10. (txn[r] # Idle => RegistersStudents(txn[r]))'
        BY <3>3 DEF RegistersStudents
      <3> QED BY <3>9, <3>10
    <2> QED BY <1>0, <2>1, <2>2 DEF SInv
  <1> QED BY <1>1, <1>2

(* A seating that nothing overlaps seats those who are due and nobody      *)
(* else, each once, and leaves somebody without only when every place of   *)
(* its rooms is taken, whichever way the students are ordered, however     *)
(* large the rooms are and however often the list names them: for one      *)
(* slot, for each slot of a bulk and for a hall that slots share.  No two  *)
(* students get one seat, provided that a shared hall names no room twice  *)
(* (_allocate_students_to_rooms, generate_combined_hall).                  *)
THEOREM SeatingFillsPlaces == Spec => PlacesFilled
  <1>1. SInv => [\A s \in Session : \A t \in {txn[s]} :
                    t.alone /\ Commit(s) => (SeatedWell(t, seats) /\ SeatedApart(t, seats))']_vars
    <2> SUFFICES ASSUME SInv, NEW s \in Session, NEW t, t = txn[s], t.alone, Commit(s)
                 PROVE  (SeatedWell(t, seats) /\ SeatedApart(t, seats))'
      OBVIOUS
    <2>1. CASE t.op \in Seating
      <3>1. /\ t.rows = Keep /\ t.students = {}
            /\ SeatedWell(t, SeatsAfter(t)) /\ SeatedApart(t, SeatsAfter(t))
        BY <2>1 DEF SInv, SeatsPlanned, Commit
      <3>2. /\ slot' = SlotsAfter(t) /\ seats' = SeatsAfter(t)
            /\ registered' = registered \cup t.students
        BY DEF Commit
      <3>3. slot' = slot
        BY <3>1, <3>2, KeepSlots DEF SInv, IInv, Typed
      <3>4. registered' = registered
        BY <3>1, <3>2
      <3>5. PICK held : held = SeatsAfter(t)
        OBVIOUS
      <3>6. SeatedWell(t, held)'
        BY <3>1, <3>3, <3>4, <3>5, SameWell
      <3>7. SeatedApart(t, seats)'
        BY <3>1, <3>2, SamePieces
      <3> QED BY <3>2, <3>5, <3>6, <3>7
    <2>2. CASE t.op \notin Seating
      BY <2>2 DEF SeatedWell, SeatedApart, Seating
    <2> QED BY <2>1, <2>2
  <1> QED BY SeatsStarted, SeatsStepped, <1>1, PTL DEF Spec, PlacesFilled
=============================================================================
