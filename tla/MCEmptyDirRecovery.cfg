SPECIFICATION FairSpec
CONSTANTS
    NodePools <- MastersAndData
    Replicas <- ThreeMastersOneData
    MasterPools = {m}
    DataPools = {d}
    GracePeriod = 2
    Losses <- OneMasterOrMore
    MaxEvents = 2
    m = m
    d = d
PROPERTIES
    BootstrapsOnlyAfterLoss
    ActsOnSustainedLoss
    ClusterRecovers
