SPECIFICATION Spec
CONSTANTS
    p = p
    v = v
    t1 = t1
    t2 = t2
    tr = tr
    Threads = {t1, t2}
    Trimmer = tr
    Stored = {p}
    Views = {v}
    Parent <- TheParent
    MaxVal = 2
    LocksFlags = TRUE
    Operations = {"fix", "unfix", "keep", "release", "create", "view", "update", "save", "trim", "commit"}
SYMMETRY Sessions
CHECK_DEADLOCK FALSE
INVARIANTS
    UseSafe
    NothingLost
    CountersExact
    SomeoneRuns
