SPECIFICATION FairSpec
CONSTANTS
    NodePools <- MastersAndData
    NameRank <- Rank
    Replicas <- ThreeMastersThreeData
    MasterPools = {m}
    DataPools = {d}
    MaxEdits = 1
    MaxFaults = 1
    NoPod = NoPod
    m = m
    d = d
INVARIANTS
    RestrictionIsRecorded
    OnePodDown
    OneNodeMissing
PROPERTIES
    RestartCompletes
