SPECIFICATION FairSpec
CONSTANTS
    i1 = i1
    AutoRefund = AutoRefund
    None = None
    Session = {s1, s2}
    Invoice = {i1, i2}
    Payment = {p1, p2}
    Requests = {}
    Notes = {}
    For <- OneApart
    Split <- Halves
    Total <- Two
    Amounts = {1, 2}
    Ops <- CaptureOps
INVARIANTS
    ReceiptsGapFree
    ReceiptHasMoney
PROPERTIES
    CreditedOnce
    CapturedIsReceipted
CHECK_DEADLOCK FALSE
