SPECIFICATION Spec
CONSTANTS
    NodePools <- TwoPools
    MinReplicas = 0
    MaxReplicas = 2
    InitialReplicas <- FirstReplicas
    RemovablePools = {p2}
    EditWhileScaling = TRUE
    MaxEdits = 2
    MaxFaults = 1
    NoNode = NoNode
    p1 = p1
    p2 = p2
PROPERTIES RemovesOnlyEmptyNodes
