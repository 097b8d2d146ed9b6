SPECIFICATION Spec
CONSTANTS
  s1 = s1
  s2 = s2
  m1 = m1
  m2 = m2
  r1 = r1
  r2 = r2
  Student = {s1, s2}
  Mark = {m1, m2}
  Grace = {0, 1}
  Request = {r1, r2}
  MaxVersion = 2
  MaxRevisions = 2
  Ops = {"save", "override", "patch", "grace", "compute", "publish", "revise", "expire", "fail"}
SYMMETRY Symmetric
CHECK_DEADLOCK FALSE
INVARIANTS
  RevisionsLinear
  ResultsOfCurrent
PROPERTIES
  MarksGoForward
