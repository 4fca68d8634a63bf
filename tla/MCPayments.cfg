SPECIFICATION X402FairSpec
CONSTANTS
    Payments = {p1, p2}
    p1 = p1
    p2 = p2
    Purchases <- MCPurchases
    Intents = {"fresh", "own", "change"}
    Handlers = {h1, h2, h3}
    None = none
    MaxTroubles = 1
    Goods = {x}
    MaxRequests = 2
INVARIANTS TypeOK NotBothWays OneOutcome NameOrCredits OnePurchase CreditsWithinPayment
PROPERTIES NoMoneyKept PendingIsDecided NamesSettled NoMoneyKeptForNames
CHECK_DEADLOCK FALSE
