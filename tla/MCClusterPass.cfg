SPECIFICATION FairSpec
CONSTANTS
    Setups <- TheSetups
    Ordinals = {0, 1}
    Validity = 2
    RotateDays = 1
    AdminThreshold = 1
    Repos = {r1, r2}
    MaxDays = 1
    MaxEvents = 2
    None = None
    r1 = r1
    r2 = r2
CHECK_DEADLOCK FALSE
INVARIANTS
    SingleCluster
    NodesTrustEachOther
    PodsFindTheirCertificate
    PodsRunTheirConfig
PROPERTIES
    CertificatesAreRenewed
    PassConverges
