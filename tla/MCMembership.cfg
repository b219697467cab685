SPECIFICATION FairSpec
CONSTANTS
    Node = {1, 2, 3}
    Configs <- MCConfigs
    Cuts <- AnyLinks
    EarlyTimeouts = TRUE
    MaxFaults = 2
    MaxRequests = 0
INVARIANTS
    TypeOK
PROPERTIES
    PartitionsHeal
