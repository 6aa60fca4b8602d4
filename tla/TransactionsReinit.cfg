CONSTANTS
    Producers = {c1}
    Partitions = {p1}
    Fetchers = {f1}
    Isolations = {1}
    SharedId = FALSE
    MaxBatches = 2
    MaxTxns = 2
    MaxEpoch = 1
    MaxFaults = 0
SPECIFICATION Spec
INVARIANT NothingBeforeEndTxn
