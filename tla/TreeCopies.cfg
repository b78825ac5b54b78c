SPECIFICATION Spec
CONSTANTS
    MaxId = 4
    a = a
    b = b
    A = A
    Names = {a, A}
    Lower <- Capital
    CaseFold = TRUE
    MaxDepth = 2
    PageSize = 50
    Ops = {"rename", "move", "restore", "copy"}
CHECK_DEADLOCK FALSE
INVARIANT NamesUnique TrashListed 
