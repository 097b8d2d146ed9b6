SPECIFICATION Spec
CONSTANTS
  s1 = s1
  s2 = s2
  x1 = x1
  x2 = x2
  x3 = x3
  A = A
  B = B
  small = small
  large = large
  a1 = a1
  a2 = a2
  b1 = b1
  t1 = t1
  t2 = t2
  Session = {s1, s2}
  MaxRequests = 3
  Slot = {x1, x2, x3}
  Class = {A, B}
  Room = {small, large}
  Window <- Windows
  Need = {1, 2}
  Form <- Forms
  Student = {a1, a2, b1}
  ClassOf <- Classes
  Capacity <- Rooms
  Hall <- Halls
  Roster <- Teachers
  Schedule <- FirstPlan
SYMMETRY Symmetry
INVARIANTS
  FeeBilledOnce
  ScheduleSound
PROPERTIES
  AutoStaffs
  PlacesFilled
CHECK_DEADLOCK FALSE
