CONSTANTS
    Producers = {c1}
    Partitions = {p1, p2}
    Fetchers = {f1}
    Isolations = {1}
    SharedId = FALSE
    MaxBatches = 2
    MaxTxns = 1
    MaxEpoch = 0
    MaxFaults = 1
SPECIFICATION Spec
INVARIANT AnsweredIsMarked
