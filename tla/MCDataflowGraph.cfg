\* All blocks of three instructions with up to two arguments each, in which a
\* variable may be assigned several times.
CONSTANTS
    x = x
    y = y
    Vars = {x, y}
    Size = 3
    MaxArgs = 2
    Inputs <- SmallBlocks
SPECIFICATION Spec
\* The graph is finished.
CHECK_DEADLOCK FALSE
INVARIANTS
    WakeupsExact
    BlocksMatchWakeups
