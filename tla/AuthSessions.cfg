SPECIFICATION Spec
CONSTANTS
    Users = {admin, u1, u2}
    Builtin = {admin}
    Sessions = {s1, s2}
    Calls = {c1, c2}
    None = None
    Passwords = {p1}
    Clients = {u1}
    Grants = {"user_manage"}
    MaxRank = 3
    TTL = 1
    MaxTime = 1
CHECK_DEADLOCK FALSE
SYMMETRY Symmetric
INVARIANT TypeOK RevocationHolds OneTokenPerLogin RotationKeepsDeadline DeletedStaysDeleted BelowAdmin
