CONSTANTS
    Counts = {1}
    Uploaders = {u1, u2}
    Compactors = {k1}
    Trimmers = {}
    Deleters = {}
    Fetchers = {}
    TargetSize = 9
    TrimTargets = {}
    MaxCached = 1
    MaxOffset = 3
    IoFaults = FALSE
SPECIFICATION Spec
INVARIANT RegisteredExist
CHECK_DEADLOCK FALSE
