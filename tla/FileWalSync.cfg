SPECIFICATION Spec
CONSTANTS
    c1 = c1
    c2 = c2
    Clients = {c1, c2}
    MaxBatch = 2
    MaxSegment = 2
    SyncToDisk = TRUE
    Faults = {"create"}
    PurgePoints = {}
    MaxAppends = 5
    MaxCrashes = 3
SYMMETRY Symmetry
INVARIANTS
    TypeOK
    AckedReadable
PROPERTIES
    AckMonotonic
    RecoveryDropsOnlyPartial
    ImplementsContract
