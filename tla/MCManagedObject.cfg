CONSTANTS
    Names <- TwoNames
    Contents <- TwoContents
    MaxEvents = 2
    MaxFaults = 1
SPECIFICATION Spec
CHECK_DEADLOCK FALSE
PROPERTIES
    NeverTouchesForeign
    OwnsByTheRules
    Converges
    DeletionCompletes
