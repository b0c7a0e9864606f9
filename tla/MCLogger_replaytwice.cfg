CONSTANTS
    a = a
    b = b
    Names = {a, b}
    Ops <- AllOps
    MaxTrans = 3
    MaxId = 4
    MaxCrashes = 1
    Windows = {"commit"}
    Overlap = FALSE
    NoFile = NoFile
    NoColumn = NoColumn
SPECIFICATION Spec
INVARIANT Recoverable
CHECK_DEADLOCK FALSE
