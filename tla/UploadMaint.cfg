SPECIFICATION Spec
CONSTANTS
    Uploads = {u1}
    Requests = {r1, r2}
    Keys = {k1, k2}
    None = None
    Sizes = {1}
    Chunks = {1}
    MinChunk = 1
    MaxParts = 1
    SessionTTL = 1
    MaxTime = 2
    MaxQueued = 2
    Ops = {"initiate", "chunk", "complete", "purge", "abandon", "fault", "refuse", "confirm", "presign"}
CHECK_DEADLOCK FALSE
SYMMETRY Symmetric
INVARIANT RetryPossible ContentExists
PROPERTY PublishesAtomically
