SPECIFICATION Spec
CONSTANTS
    c1 = c1
    c2 = c2
    Clients = {c1, c2}
    MaxBatch = 2
    MaxSegment = 2
    SyncToDisk = FALSE
    Faults = {}
    PurgePoints = {}
    MaxAppends = 3
    MaxCrashes = 1
INVARIANTS
    FlushedReadable
