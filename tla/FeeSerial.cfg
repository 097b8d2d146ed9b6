SPECIFICATION Spec
CONSTANTS
    i1 = i1
    AutoRefund = AutoRefund
    None = None
    Session = {s1}
    Invoice = {i1}
    Payment = {p1, p2}
    Requests = {r1}
    Notes = {n1}
    For <- AllForI1
    Split <- Halves
    Total <- Two
    Amounts = {1, 2}
    Ops <- SerialOps
SYMMETRY Symmetry
PROPERTIES
    InvoicesAreLedgers
    PaidMovesWithMoney
CHECK_DEADLOCK FALSE
