\* The reader pool is a replica that lags: one item uploaded twice, a step that fails, a
\* job redelivered while its first execution goes on, overlapping scheduled handlers.
SPECIFICATION Spec
CONSTANTS
    Items = {i1}
    Plans = {p1, p2}
    Bundles = {b1, b2}
    Workers = {w1, w2}
    None = none
    Attempts = 2
    RetryLimit = 1
    MaxRedrives = 0
    Missing = {}
    Unroutable = {}
    GatewayMayMiss = FALSE
    ReplicaLag = TRUE
    MultiProcess = TRUE
    MayRefuse = FALSE
    VerifyCron = FALSE
    VerifyOverlaps = TRUE
    MaxUploads = 2
    MaxFaults = 1
    MaxStalls = 1
    MaxSweeps = 0
SYMMETRY Symmetric
INVARIANTS
    NoItemLost
    OneBundleTable
CHECK_DEADLOCK FALSE
