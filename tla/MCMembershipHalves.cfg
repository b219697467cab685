SPECIFICATION FairSpec
CONSTANTS
    Node = {1, 2, 3, 4}
    Configs <- RandomConfig
    Cuts <- Halves
    EarlyTimeouts = FALSE
    MaxFaults = 1
    MaxRequests = 1
PROPERTIES
    PartitionsHeal
