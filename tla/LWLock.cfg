SPECIFICATION FairSpec
CONSTANTS
    p1 = p1
    p2 = p2
    p3 = p3
    Procs = {p1, p2, p3}
    MaxCalls = 1
    MaxBogus = 1
CHECK_DEADLOCK FALSE
INVARIANTS MutualExclusion NoLostWakeup SignalsKept
PROPERTIES CallsReturn
