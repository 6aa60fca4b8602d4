CONSTANTS
    Producers = {c1}
    Partitions = {p1}
    Fetchers = {f1}
    Isolations = {1}
    SharedId = FALSE
    MaxBatches = 1
    MaxTxns = 1
    MaxEpoch = 0
    MaxFaults = 0
SPECIFICATION Spec
INVARIANT AbortedNeverExposed
