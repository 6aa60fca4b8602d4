CONSTANTS
    Clients = {c1, c2}
    TopicPartitions = {t1}
    Offsets = {5}
    MaxGeneration = 3
    MaxSyncs = 2
    MaxMember = 3
    MaxResets = 1
SPECIFICATION Spec
INVARIANTS
    LeaderIsMember
    OneHolderOfGeneration
PROPERTIES
    MembersProtected
