SPECIFICATION Spec
CONSTANTS
  r1 = r1
  r2 = r2
  t1 = t1
  t2 = t2
  t3 = t3
  Session = {"A"}
  Student = {1}
  Source <- Chain
  Target <- Next1
  FirstYear = "2024"
  Actions = {"promote", "graduate", "pending"}
  Request = {r1, r2}
  Task = {t1, t2}
  MaxRuns = 2
  MaxFeeEdits = 1
  Ops = {"override", "map", "place", "reopen", "unlock", "validate", "visit"}
SYMMETRY Symmetric
CHECK_DEADLOCK FALSE
PROPERTIES
  StartsLocked
  StartsAlone
