SPECIFICATION BillingSpec
CONSTANTS
    c1 = c1
    c2 = c2
    r1 = r1
    r2 = r2
    m1 = m1
    Components <- TwoInstallments
    Concession = {c1, c2}
    RuleOf <- Rules
    Discount <- Discounts
    Request = {r1, r2}
    Mover = {m1}
    MaxBills = 1
    MaxMoved = 1
    MaxRefund = 1
SYMMETRY Symmetric
INVARIANTS
    StatusMatchesAmounts
    RowsAddUp
    OldestPaidFirst
    RuleOffOnce
PROPERTIES
    SettledKeepsTotal
CHECK_DEADLOCK FALSE
