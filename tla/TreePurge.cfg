SPECIFICATION Spec
CONSTANTS
    MaxId = 3
    a = a
    b = b
    A = A
    Names = {a, b}
    Lower <- NoCapitals
    CaseFold = TRUE
    MaxDepth = 4
    PageSize = 50
    Ops = {"purgeTrash"}
CHECK_DEADLOCK FALSE
SYMMETRY Symmetric
INVARIANT ExpiredTrashPurgeable
