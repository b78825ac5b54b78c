SPECIFICATION Spec
CONSTANTS
    Nodes = {n1}
    Keys = {k1, k2}
    Requests = {r1}
    Logins = {}
    None = None
    Sizes = {1}
    Quota = 1
    KeepVersions = TRUE
    MaxVersions = 2
    MaxNumber = 3
    MaxUsed = 2
    Ops = {"overwrite", "restoreVersion", "deleteVersion", "deleteRestored", "purge"}
CHECK_DEADLOCK FALSE
INVARIANT RowsHaveContent
