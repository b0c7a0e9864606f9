SPECIFICATION Spec
CONSTANTS
    s1 = s1
    s2 = s2
    t = t
    u = u
    a = a
    c = c
    Sessions = {s1, s2}
    Tables = {t, u}
    Columns = {a, c}
    TableOf <- TwoTables
    Schema = sys
    InitialTime = 1
    InOrder = FALSE
    MaxStamp = 7
    MaxWork = 4
SYMMETRY Symmetric
INVARIANT
    NoWriteLost
CHECK_DEADLOCK FALSE
