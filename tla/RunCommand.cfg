SPECIFICATION FairSpec
CONSTANTS
    PipeSize = 2
    MaxOutput = 4
INVARIANTS
    OutputComplete
PROPERTIES
    CommandReturns
