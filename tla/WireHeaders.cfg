SPECIFICATION Spec
CONSTANTS
    Null = Null
    MaxElems = 2
    RequestShapes <- MCShapes
    ResponseShapes <- MCResponseShapes
    Beyond = 3
    ClientIds <- MCClientIds
    Codecs = {"none", "gzip", "zstd"}
    GroupBits = 3
    WordBits = 7
    Timestamps = {0, 5, 63}
    MaxRecords = 2
    MaxBatches = 2
INVARIANT EveryHeaderUnderstood
