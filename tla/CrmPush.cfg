SPECIFICATION Spec
CONSTANTS
    p1 = p1
    p2 = p2
    w1 = w1
    w2 = w2
    Pushes <- MCPushes
    Workers <- MCWorkers
    SyncRetries = 1
    WorkerRetries = 1
    FaultSets <- MCFaultSets
INVARIANTS
    TypeOK
    HeldOnce
    FailureReachesWorker
    EveryTurnIsLogged
    OvertakenIsLogged
PROPERTIES
    EveryPushIsSettled
