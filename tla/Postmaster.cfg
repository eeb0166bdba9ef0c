SPECIFICATION FairSpec
CONSTANTS
    Clients = {c1}
    Workers = {w1}
    DeadEnds = {d1}
    MaxChildren = 1
    MaxCrashes = 1
INVARIANTS
    CheckpointAlone
    CleanExit
    RecoveryAlone
    CrashTold
PROPERTIES
    ResetAlone
    CrashEndsInRecovery
    ImplementsPgServer
    FastStops
    SmartStops
    CrashRecovers
CHECK_DEADLOCK FALSE
