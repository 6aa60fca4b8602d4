SPECIFICATION Spec
CONSTANTS
    c1 = c1
    c2 = c2
    Clients = {c1, c2}
    MaxBatch = 2
    MaxSegment = 2
    SyncToDisk = TRUE
    Faults = {}
    PurgePoints = {2, 3}
    MaxAppends = 4
    MaxCrashes = 1
PROPERTIES
    PurgeKeepsNewer
