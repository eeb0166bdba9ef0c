SPECIFICATION FairSpec
CONSTANTS
    p1 = p1
    p2 = p2
    Backends = {p1, p2}
    Flags = {"WAIT", "FORCE"}
    W = 4
    MaxLag = 2
INVARIANTS SuccessIsMine FlagsReachCheckpoint
PROPERTIES RequestsReturn
