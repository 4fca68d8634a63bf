\* One item, posted whole, in parts or both ways, by requests that overlap; two faults of
\* any kind: calls that fail or whose answer is lost, crashes, a cache away or expired.
SPECIFICATION FairSpec
CONSTANTS
    Items = {x1}
    Requests = {r1, r2}
    None = none
    Faults = {"cache", "lookup", "step", "approval", "no reserve answer", "refund",
              "no refund answer", "dropped refund", "expired", "crash", "overlap", "repeated chunk"}
    ChunkSizes <- MCChunkSizes
    Attempts = 3
    MaxFaults = 2
    MaxBegun = 2
INVARIANTS NoFreeCredit AssembledInOrder
PROPERTIES RejectedRefunded ResumedUpload
CHECK_DEADLOCK FALSE
