CONSTANTS
    Counts = {1}
    Uploaders = {u1}
    Compactors = {}
    Trimmers = {}
    Deleters = {}
    Fetchers = {f1}
    TargetSize = 3
    TrimTargets = {}
    MaxCached = 1
    MaxOffset = 2
    IoFaults = FALSE
SPECIFICATION Spec
INVARIANT AckedFetchable
