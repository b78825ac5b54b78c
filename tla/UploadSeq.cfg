SPECIFICATION Spec
CONSTANTS
    Uploads = {u1}
    Requests = {r1}
    Keys = {k1, k2}
    None = None
    Sizes = {0, 2}
    Chunks = {1, 2}
    MinChunk = 1
    MaxParts = 2
    SessionTTL = 1
    MaxTime = 2
    MaxQueued = 1
    Ops = {"initiate", "chunk", "complete", "abort", "expire", "purge", "gc", "refuse", "mismatch"}
CHECK_DEADLOCK FALSE
SYMMETRY Symmetric
INVARIANT TypeOK OneNodePerSession SizeIsContent
