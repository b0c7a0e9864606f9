CONSTANTS
    b1 = b1
    b2 = b2
    Bats = {b1, b2}
    MaxVersion = 3
    MaxFails = 0
    MaxFiles = 5
    Kinds = {TRUE, FALSE}
    InPlace = FALSE
    Trims = FALSE
    NoFile = NoFile
    Torn = Torn
    NewOids = TRUE
    Referenced = FALSE
    DelStays = FALSE
    AfterLate = FALSE
SPECIFICATION Spec
INVARIANTS Recoverable Durable CountersSound BackupDirExact
PROPERTY ImplementsCheckpoint
