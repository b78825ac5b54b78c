SPECIFICATION Spec
CONSTANTS
    MaxId = 3
    a = a
    b = b
    A = A
    Names = {a, b}
    Lower <- NoCapitals
    CaseFold = TRUE
    MaxDepth = 3
    PageSize = 50
    Ops = {"rename", "move", "editTrashed", "trashAgain", "mixedTrash", "restore", "empty", "purgeTrash"}
CHECK_DEADLOCK FALSE
SYMMETRY Symmetric
INVARIANT TypeOK ActiveUnderActive
PROPERTY PathsImplementTree
