SPECIFICATION FairSpec
CONSTANTS
  e1 = e1
  e2 = e2
  p1 = p1
  None = None
  Student = {e1, e2}
  Requests = 3
  Poller = {p1}
  SessionMode = TRUE
  Wanted = {"present", "absent"}
INVARIANTS
  MarksAreAudited
PROPERTIES
  BoardCatchesUp
