SPECIFICATION Spec
CONSTANTS
    Specs <- LargerDiskFewerNodes
    Confs <- SomeSetups
    MaxReplicas = 3
    MaxSize = 2
    MaxEvents = 1
    None = None
INVARIANT DrainsFirst
