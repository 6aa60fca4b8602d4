CONSTANTS
    Threads = {"one", "two"}
    Calls <- MCCalls
    ValidNames = {"t"}
    ColonNames = {"x:y"}
    Defaults <- MCDefaults
    BrokerConfigs <- MCBrokerConfigs
    Keys <- MCKeys
    MaxCount = 2
    MaxPartitions = 3
    MaxAppends = 2
    MaxOffsets = 1
SPECIFICATION Spec
INVARIANTS
    HeldOrRemoved
    OwnRecords
    RegisteredIsProvisioned
    LoadRestores
    ConfigViewsAgree
    NoDeadlock
