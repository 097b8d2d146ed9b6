SPECIFICATION Spec
CONSTANTS
  a1 = a1
  a2 = a2
  n1 = n1
  n2 = n2
  r1 = r1
  r2 = r2
  None = None
  Application = {a1, a2}
  Number = {n1, n2}
  Year = {2024, 2025}
  FormNumber = {n1}
  FormYear = {2024}
  File <- TwoRows
  ImportYear = 2025
  Request = {r1, r2}
  MaxRank = 2
  Ops = {"convert", "advance", "reject", "list", "promote", "enrol", "transfer", "import", "crash"}
SYMMETRY Symmetric
CHECK_DEADLOCK FALSE
INVARIANTS
  OneStudentPerNumber
  PlacedOnceAYear
  WaitlistedIsListed
  ReportExact
PROPERTIES
  NoOvertaking
