SPECIFICATION FairSpec
CONSTANTS
    Dirs = {d1}
    NoDir = NoDir
    MaxStartRetries = 1
    NumDbs = 1
PROPERTIES
    StartTerminates
    QuitTerminates
