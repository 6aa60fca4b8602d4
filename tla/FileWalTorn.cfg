SPECIFICATION Spec
CONSTANTS
    c1 = c1
    c2 = c2
    Clients = {c1, c2}
    MaxBatch = 2
    MaxSegment = 2
    SyncToDisk = TRUE
    Faults = {"write"}
    PurgePoints = {}
    MaxAppends = 3
    MaxCrashes = 1
PROPERTIES
    RecoveryDropsOnlyPartial
