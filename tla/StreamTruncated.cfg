CONSTANTS
    Counts = {1}
    Uploaders = {}
    Compactors = {}
    Trimmers = {}
    Deleters = {d1}
    Fetchers = {}
    TargetSize = 3
    TrimTargets = {}
    MaxCached = 2
    MaxOffset = 2
    IoFaults = FALSE
SPECIFICATION Spec
INVARIANT TruncatedEvicted
CHECK_DEADLOCK FALSE
