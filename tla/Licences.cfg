SPECIFICATION Spec
CONSTANTS
    None = None
    Session = {s1, s2}
    MaxStudent = 2
    BranchOf <- Campuses
    Key = {k1, k2}
    MaxGrant = 2
    MbPerLicence = 600
    Ops <- Operations
SYMMETRY Symmetry
INVARIANTS
    TypeOK
    ConvertedWithinGrant
    CountersMatchRows
    NeverOversold
CHECK_DEADLOCK FALSE
