SPECIFICATION FairSpec
CONSTANTS
    f1 = f1
    f2 = f2
    backend = backend
    j1 = j1
    j2 = j2
    j3 = j3
    Services = {backend}
    Fibers = {f1, f2}
    Order <- PoolFirst
    Jobs = {j1, j2, j3}
    Endless = {j1}
    Yields = 1
    MaxSleep = 1
    GameThread = game
    MainThread = main
    None = none
INVARIANTS
    TypeOK
    RunningScriptExists
    IdentityIsBorrowed
PROPERTIES
    ImplementsJobPool
    QueuedJobTaken
    ScriptsRemoved
CHECK_DEADLOCK FALSE
