SPECIFICATION FairSpec
CONSTANTS
    r1 = r1
    Rels = {r1}
    MaxFork = 1
    Segnos = {0}
    MaxRequests = 2
    CtrWidth = 3
    Errors = TRUE
    NoRel = NoRel
INVARIANTS DurableUnlessForfeited DropsAreHarmless
PROPERTIES FirstFileOutlivesCheckpoint CheckpointEnds
