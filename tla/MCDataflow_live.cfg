\* Two sessions: every call returns and so does the shutdown, with the instructions of f2 allowed to run forever.
CONSTANTS
    a = a
    b = b
    f1 = f1
    f2 = f2
    f3 = f3
    NoClient = NoClient
    NoItem = NoItem
    Threads = 3
    Limit = 1
    Clients = {a, b}
    Flows <- TwoFlows
    ClientOf <- TwoClients
    Host <- TwoHosts
    Deep = {}
    Start <- TwoStarts
    Wakeup <- TwoWakeups
    MayFail = FALSE
    Claims <- LiveClaims
    Faulty <- LiveFaulty
    Big = {f2}
SPECIFICATION FairSpec
INVARIANTS
    PoolRestored
    WorkerStaysSpecific
PROPERTIES
    CallsReturn
    StopReturns
