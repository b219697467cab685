SPECIFICATION Spec
CONSTANTS
    Node = {1, 2, 3}
    Configs <- HostConfigs
    Cuts <- AnyLinks
    EarlyTimeouts = TRUE
    MaxFaults = 1
    MaxRequests = 1
INVARIANTS
    EntriesNameTheirHost
