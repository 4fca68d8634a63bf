\* Two bundles made permanent before, between or during sweeps, with two faults: copies
\* not asked for, failing or short, looks and deletions that fail, a crash; or a bundle
\* that is seeded in two chunks, with or without the gate, with one thing going wrong.
SPECIFICATION StoresSpec
CONSTANTS
    x1 = x1
    b1 = b1
    b2 = b2
    c1 = c1
    None = none
    Items = {x1}
    Bundles = {b1, b2}
    ItemsOf <- MCItemsOf
    Sweeps = {s1}
    PageSize = 2
    Attempts = 1
    MaxFaults = 2
    Posted = {c1}
    ChunksOf <- MCChunksOf
    NoDeadline = noDeadline
    Concurrency = 2
    Tries = 2
    Gates = {TRUE, FALSE}
    MaxPolls = 1
    MaxRedrives = 1
    MaxTroubles = 1
INVARIANTS TypeOK NeverTheLastCopy NothingLeftBehind ChunksKept GivenUpUnconfirmed
PROPERTIES EverythingReclaimed SeededAnyway
CHECK_DEADLOCK FALSE
