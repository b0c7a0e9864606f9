SPECIFICATION Spec
CONSTANTS
    p = p
    v = v
    t1 = t1
    t2 = t2
    tr = tr
    Threads = {t1, t2}
    Trimmer = tr
    Stored = {p}
    Views = {v}
    Parent <- TheParent
    MaxVal = 2
    LocksFlags = FALSE
    Operations = {"fix", "unfix", "update", "commit"}
SYMMETRY Sessions
CHECK_DEADLOCK FALSE
INVARIANTS
    UseSafe
