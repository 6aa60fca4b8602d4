SPECIFICATION Spec
CONSTANTS
    c1 = c1
    c2 = c2
    Clients = {c1, c2}
    MaxBatch = 2
    MaxSegment = 2
    SyncToDisk = TRUE
    Faults = {"write", "sync", "create"}
    PurgePoints = {2, 3}
    MaxAppends = 3
    MaxCrashes = 2
INVARIANTS
    StoredOnce
PROPERTIES
    CallsAnswered
