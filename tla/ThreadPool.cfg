SPECIFICATION FairSpec
CONSTANTS
    Workers = {w1, w2}
    Pushers = {p1, p2}
    Jobs = {j1, j2, j3}
    Main = main
    None = none
INVARIANTS
    TypeOK
    NoMissedWakeup
    JobInOnePlace
    AvailableIsIdle
    DestroyedIsQuiet
PROPERTIES
    DestroyReturns
    PushedJobServed
    ImplementsJobPool
CHECK_DEADLOCK FALSE
