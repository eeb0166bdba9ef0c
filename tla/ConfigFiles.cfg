SPECIFICATION Spec
CONSTANTS
    Users = {u1, u2}
    None = None
    MaxCrashes = 1
INVARIANT ConnectionSettings
