SPECIFICATION Spec
CONSTANTS
  r1 = r1
  r2 = r2
  t1 = t1
  t2 = t2
  t3 = t3
  Session = {"A", "B"}
  Student = {1}
  Source <- Chain
  Target <- Next1
  FirstYear = "2024"
  Actions = {"promote", "withdrawn"}
  Request = {r1}
  Task = {t1, t2, t3}
  MaxRuns = 3
  MaxFeeEdits = 0
  Ops = {"resume", "raise", "crash", "transfer", "abort"}
SYMMETRY Symmetric
CHECK_DEADLOCK FALSE
INVARIANTS
  BilledOnce
  LogTellsTruth
PROPERTIES
  PromotedStaysEnrolled
  StartsBeforeTurn
