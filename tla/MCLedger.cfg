SPECIFICATION Spec
CONSTANTS
    s = s
    p = p
    q = q
    x = x
    y = y
    None = none
    Users = {s, p, q}
    Items = {x, y}
    Approvals = {a1, a2}
    Callers = {c1, c2}
    Readers = {t1}
    Refunders = {f1, f2}
    SignerOf <- MCSigner
    Approved = {s}
    Opening <- MCOpening
    PaidBy <- MCPaidBy
    Costs = {3}
    Amounts = {2}
    ApprovalsShared = FALSE
    TrimOverlaps = FALSE
    LapsedShared = FALSE
    MaxPaidIn = 2
    MaxAmiss = 1
CONSTRAINT Explored
SYMMETRY Symmetric
INVARIANTS TypeOK OneReservation UsedIsReserved
PROPERTY ImplementsLedger
CHECK_DEADLOCK FALSE
