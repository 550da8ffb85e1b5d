SPECIFICATION Spec
CONSTANTS
    Specs <- SomeSpecs
    Confs <- SomeSetups
    MaxReplicas = 3
    MaxSize = 2
    MaxEvents = 2
    None = None
PROPERTIES Settles VolumesAreResized
