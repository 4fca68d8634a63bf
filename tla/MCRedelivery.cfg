\* One item through the whole pipeline: a step that fails, a job redelivered while its
\* first execution goes on, a re-drive sweep, overlapping scheduled handlers, an upload
\* that is refused, a gateway that misses; and the pipeline implements Delivery.
SPECIFICATION Spec
CONSTANTS
    Items = {i1}
    Plans = {p1, p2}
    Bundles = {b1, b2}
    Workers = {w1, w2}
    None = none
    Attempts = 1
    RetryLimit = 2
    MaxRedrives = 0
    Missing = {}
    Unroutable = {}
    GatewayMayMiss = TRUE
    ReplicaLag = FALSE
    MultiProcess = TRUE
    MayRefuse = TRUE
    VerifyCron = FALSE
    VerifyOverlaps = TRUE
    MaxUploads = 1
    MaxFaults = 1
    MaxStalls = 1
    MaxSweeps = 1
SYMMETRY Symmetric
INVARIANTS
    TypeOK
    OneBundleTable
    PermanentOnChain
    NoStrandedItems
PROPERTIES
    ImplementsDelivery
CHECK_DEADLOCK FALSE
