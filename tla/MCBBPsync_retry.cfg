CONSTANTS
    b1 = b1
    b2 = b2
    Bats = {b1}
    MaxVersion = 3
    MaxFails = 2
    MaxFiles = 5
    Kinds = {TRUE}
    InPlace = FALSE
    Trims = FALSE
    NoFile = NoFile
    Torn = Torn
    NewOids = FALSE
    Referenced = FALSE
    DelStays = TRUE
    AfterLate = FALSE
SPECIFICATION Spec
INVARIANTS Recoverable Undone DirKept
