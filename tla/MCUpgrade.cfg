CONSTANTS
    data1 = data1
    both1 = both1
    index = index
    NodePools <- Pools
    Replicas <- Sizes
    MasterPools <- Masters
    DataPools <- Datas
    Shards = {index}
    SystemShards = {index}
    Placements <- FirstPlaces
    Confs <- Setups
    Versions <- ThreeVersions
    MaxEvents = 2
    NoPod = NoPod
SPECIFICATION Spec
INVARIANTS ShardsStayAvailable
PROPERTIES MastersAreLast VersionIsRun UpgradeCompletes
