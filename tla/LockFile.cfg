SPECIFICATION Spec
CONSTANTS
    Procs = {p1, p2, p3}
    NoProc = NoProc
    MaxStarting = 3
    MaxKills = 3
    MaxQuits = 1
INVARIANTS
    ExclusiveUnlessStolen
PROPERTY
    ImplementsPgServer
CHECK_DEADLOCK FALSE
