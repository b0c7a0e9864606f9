\* Session a runs a block with duplicate wakeup edges whose first instruction
\* makes a recursive call; session b runs an empty block; anything may fail.
\* A worker left waiting for a block that never starts may be all that is left.
CONSTANTS
    a = a
    b = b
    f1 = f1
    f2 = f2
    f3 = f3
    NoClient = NoClient
    NoItem = NoItem
    Threads = 3
    Limit = 1
    Clients = {a, b}
    Flows <- NestedFlows
    ClientOf <- NestedClients
    Host <- NestedHosts
    Deep = {}
    Start <- NestedStarts
    Wakeup <- NestedWakeups
    MayFail = TRUE
    Claims <- AllItems
    Faulty <- AllItems
    Big = {}
SPECIFICATION Spec
CHECK_DEADLOCK FALSE
INVARIANTS
    TypeOK
    PermitAccounting
    DonePermits
    SingleCopy
    BlocksExact
    ReleasedClean
    SlotsFree
PROPERTY ImplementsSpec
