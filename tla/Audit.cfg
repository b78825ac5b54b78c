SPECIFICATION FairSpec
CONSTANTS
    Calls = {c1, c2, c3}
    Audited = {c1, c2, c3}
    Worker = worker
    None = None
    AuditorBuffer = 1
    BatchSize = 2
    MaxWithTx = 2
    Faults = {"refuse", "panic", "stopTimeout"}
CHECK_DEADLOCK FALSE
INVARIANT OneWriter TrailExact
PROPERTY NobodyWaitsForever
