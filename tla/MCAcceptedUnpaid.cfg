\* Nothing fails: two requests finalize one upload, the second before the first ended.
SPECIFICATION Spec
CONSTANTS
    Items = {x1}
    Requests = {r1, r2}
    None = none
    Faults = {"overlap"}
    ChunkSizes <- MCChunkSizes
    Attempts = 3
    MaxFaults = 1
    MaxBegun = 2
INVARIANT AcceptedStaysPaid
CHECK_DEADLOCK FALSE
