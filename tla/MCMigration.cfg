SPECIFICATION Spec
CONSTANTS
    Kinds <- AllKinds
    Secrets = {s1, s2}
    MaxGen = 2
    MaxEvents = 4
    None = None
PROPERTIES NothingIsLost CertificatesSurvive Migrates DeletionFollows
CHECK_DEADLOCK FALSE
