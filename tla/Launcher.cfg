SPECIFICATION Spec
CONSTANTS
    Dirs = {d1, d2}
    NoDir = NoDir
    MaxStartRetries = 1
    NumDbs = 2
SYMMETRY Sym
INVARIANTS
    SelectedDirServes
    ProvisionedInOrder
    ApiFindsDatabases
    ConfOnlyFreshCluster
PROPERTIES
    OnlySelectedWritten
    QuitStopsServer
