SPECIFICATION Spec
CONSTANTS
    Nodes = {n1, n2}
    Keys = {k1, k2, k3, k4}
    Requests = {r1, r2}
    Logins = {l1}
    None = None
    Sizes = {1, 2}
    Quota = 2
    KeepVersions = TRUE
    MaxVersions = 1
    MaxNumber = 2
    MaxUsed = 1
    Ops = {"overwrite", "restoreVersion", "deleteVersion", "copy", "purgeNode", "purge", "recount", "login", "abandon", "fault", "refuse"}
CHECK_DEADLOCK FALSE
SYMMETRY Symmetric
INVARIANT TypeOK RowsMatchContent KeyOwnedOnce VersionsBounded NothingLeaked UsageIsContent ContentWithinQuota
PROPERTY FilesKeepContent
