CONSTANTS
    Counts = {1}
    Uploaders = {u1}
    Compactors = {k1}
    Trimmers = {}
    Deleters = {}
    Fetchers = {f1}
    TargetSize = 9
    TrimTargets = {}
    MaxCached = 1
    MaxOffset = 3
    IoFaults = FALSE
SPECIFICATION Spec
INVARIANT UploadedFetchable
