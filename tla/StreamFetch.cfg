CONSTANTS
    Counts = {1, 2}
    Uploaders = {u1}
    Compactors = {}
    Trimmers = {t1}
    Deleters = {d1, d2}
    Fetchers = {f1}
    TargetSize = 3
    TrimTargets = {0, 1}
    MaxCached = 1
    MaxOffset = 2
    IoFaults = TRUE
SPECIFICATION Spec
INVARIANTS
    UploadedFetchable
PROPERTY OnlyTrimMovesBack
CHECK_DEADLOCK FALSE
