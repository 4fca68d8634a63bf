\* Every accepted item is settled, when a cron keeps asking for a verify run: one of
\* two items is missing from the store, a bundle is seeded again or demoted.
SPECIFICATION FairSpec
CONSTANTS
    Items = {i1, i2}
    Plans = {p1, p2}
    Bundles = {b1, b2}
    Workers = {w1, w2}
    None = none
    Attempts = 2
    RetryLimit = 1
    MaxRedrives = 1
    Missing = {i1}
    Unroutable = {}
    GatewayMayMiss = FALSE
    ReplicaLag = FALSE
    MultiProcess = FALSE
    MayRefuse = FALSE
    VerifyCron = TRUE
    VerifyOverlaps = FALSE
    MaxUploads = 1
    MaxFaults = 0
    MaxStalls = 0
    MaxSweeps = 2
PROPERTIES
    EventuallySettled
CHECK_DEADLOCK FALSE
