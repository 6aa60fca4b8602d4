CONSTANTS
    Producers = {c1, c2}
    Partitions = {p1}
    Fetchers = {}
    Isolations = {1}
    SharedId = TRUE
    MaxBatches = 2
    MaxTxns = 2
    MaxEpoch = 1
    MaxFaults = 1
SPECIFICATION Spec
INVARIANTS
    MarkerEpochsOrdered
PROPERTIES
    LsoMonotonic
    EndTxnAnswered
CHECK_DEADLOCK FALSE
