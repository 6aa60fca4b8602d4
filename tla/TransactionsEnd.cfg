CONSTANTS
    Producers = {c1, c2}
    Partitions = {p1, p2}
    Fetchers = {}
    Isolations = {1}
    SharedId = FALSE
    MaxBatches = 1
    MaxTxns = 2
    MaxEpoch = 0
    MaxFaults = 0
SPECIFICATION Spec
INVARIANTS
    AnsweredIsMarked
    QuiescentLso
SYMMETRY Symmetry
CHECK_DEADLOCK FALSE
