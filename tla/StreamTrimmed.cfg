CONSTANTS
    Counts = {1}
    Uploaders = {u1, u2}
    Compactors = {}
    Trimmers = {}
    Deleters = {}
    Fetchers = {}
    TargetSize = 3
    TrimTargets = {}
    MaxCached = 2
    MaxOffset = 2
    IoFaults = FALSE
SPECIFICATION Spec
PROPERTY TrimmedIsInS3
CHECK_DEADLOCK FALSE
