SPECIFICATION Spec
CONSTANTS
    Links = {l1}
    Tokens = {"t"}
    Visitors = {v1, v2}
    Nodes = {n1, n2}
    None = None
    Settings <- SomeSettings
    Passwords = {"p", "q"}
    AccessTTL = 2
    MaxAccess = 1
    MaxCount = 3
    MaxTime = 1
    Ops = {"update", "delete", "expireShares", "move", "trash", "purge"}
CHECK_DEADLOCK FALSE
SYMMETRY Symmetric
INVARIANT TypeOK BudgetHeld InsideShare RevokedStaysRevoked ForgottenPassword
