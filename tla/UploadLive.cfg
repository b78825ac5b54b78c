SPECIFICATION FairSpec
CONSTANTS
    Uploads = {u1}
    Requests = {r1, r2}
    Keys = {k1, k2}
    None = None
    Sizes = {1}
    Chunks = {1}
    MinChunk = 1
    MaxParts = 1
    SessionTTL = 1
    MaxTime = 2
    MaxQueued = 4
    Ops = {"initiate", "chunk", "complete", "expire", "purge", "gc", "refuse", "mismatch"}
CHECK_DEADLOCK FALSE
INVARIANT NoOrphanContent
PROPERTY DeletedIsSwept QueueDrains
