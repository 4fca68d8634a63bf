SPECIFICATION Spec
CONSTANTS
    s = s
    p = p
    q = q
    x = x
    y = y
    None = none
    Users = {s, p, q}
    Items = {x, y}
    Approvals = {a1, a2}
    Callers = {c1}
    Readers = {t1, t2}
    Refunders = {}
    SignerOf <- MCSigner
    Approved = {s}
    Opening <- MCOpening
    PaidBy <- MCPaidBy
    Costs = {1, 3}
    Amounts = {2}
    ApprovalsShared = FALSE
    TrimOverlaps = TRUE
    LapsedShared = FALSE
    MaxPaidIn = 2
    MaxAmiss = 1
SYMMETRY Symmetric
INVARIANT NoFreeCredit
CHECK_DEADLOCK FALSE
