SPECIFICATION Spec
CONSTANTS
    i1 = i1
    AutoRefund = AutoRefund
    None = None
    Session = {s1, s2}
    Invoice = {i1}
    Payment = {p1, p2}
    Requests = {r1}
    Notes = {}
    For <- AllForI1
    Split <- Halves
    Total <- Two
    Amounts = {1, 2}
    Ops <- RefundOps
SYMMETRY Symmetry
INVARIANTS
    PaidWithinReceipts
    RefundsWithinPayment
    RefundedIffCovered
CHECK_DEADLOCK FALSE
