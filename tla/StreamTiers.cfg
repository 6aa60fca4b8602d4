CONSTANTS
    Counts = {1}
    Uploaders = {u1}
    Compactors = {k1}
    Trimmers = {t1}
    Deleters = {d1}
    Fetchers = {}
    TargetSize = 3
    TrimTargets = {1, 2}
    MaxCached = 2
    MaxOffset = 3
    IoFaults = TRUE
SPECIFICATION Spec
INVARIANTS
    AckedStored
    RegisteredExist
CHECK_DEADLOCK FALSE
