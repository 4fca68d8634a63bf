\* Three items, one lost from the object store, one refused by permanent_data_items; a
\* failure, retries, verify runs one at a time, and plans enough to be planned thrice.
SPECIFICATION Spec
CONSTANTS
    Items = {i1, i2, i3}
    Plans = {p1, p2, p3}
    Bundles = {b1, b2}
    Workers = {w1, w2}
    None = none
    Attempts = 2
    RetryLimit = 3
    MaxRedrives = 0
    Missing = {i2}
    Unroutable = {i1}
    GatewayMayMiss = FALSE
    ReplicaLag = FALSE
    MultiProcess = FALSE
    MayRefuse = FALSE
    VerifyCron = FALSE
    VerifyOverlaps = FALSE
    MaxUploads = 1
    MaxFaults = 1
    MaxStalls = 0
    MaxSweeps = 0
SYMMETRY SymmetricButItems
INVARIANTS
    NoItemLost
    OneItemTable
    NoDuplicateData
CHECK_DEADLOCK FALSE
