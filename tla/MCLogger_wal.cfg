CONSTANTS
    a = a
    b = b
    Names = {a, b}
    Ops <- AllOps
    MaxTrans = 3
    MaxId = 4
    MaxCrashes = 1
    Windows = {}
    Overlap = FALSE
    NoFile = NoFile
    NoColumn = NoColumn
SPECIFICATION Spec
INVARIANTS Recoverable SequenceKept ViewExact NeverFatal
CHECK_DEADLOCK FALSE
