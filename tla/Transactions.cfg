CONSTANTS
    Producers = {c1, c2}
    Partitions = {p1}
    Fetchers = {f1}
    Isolations = {0, 1}
    SharedId = FALSE
    MaxBatches = 2
    MaxTxns = 2
    MaxEpoch = 0
    MaxFaults = 0
SPECIFICATION Spec
INVARIANTS
    LsoBelowOpen
    NothingBeforeEndTxn
SYMMETRY Symmetry
