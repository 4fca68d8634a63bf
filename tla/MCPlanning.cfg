\* Any four of six items, in every order, read through a window that is too small for
\* them; a run that fails, before or while its plans are inserted, a plan repacked.
SPECIFICATION FairSpec
CONSTANTS
    Items = {1, 2, 3, 4, 5, 6}
    Size <- Sizes
    Feature <- Features
    MaxBundleBytes = 4
    MaxItemBytes = 6
    MaxItems = 2
    Window = 3
    MaxArrivals = 4
    MaxFaults = 1
INVARIANTS
    PlansFit
    FirstFit
    Partition
PROPERTIES
    OverdueLeaves
CHECK_DEADLOCK FALSE
