SPECIFICATION X402Spec
CONSTANTS
    Payments = {p1}
    p1 = p1
    p2 = p1
    Purchases <- MCNames
    Intents = {"fresh"}
    Handlers = {h1, h2, h3}
    None = none
    MaxTroubles = 0
    Goods = {}
    MaxRequests = 0
INVARIANT LandedNeverRefunded
CHECK_DEADLOCK FALSE
