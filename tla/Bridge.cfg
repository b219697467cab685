SPECIFICATION Spec
CONSTANTS
    Node = {a}
    Source = a
    maxBars = 1
    Speed = {2}
    Seek = {0, 9}
    MaxPolls = 2
    MaxVersion = 1
    MaxOrders = 1
INVARIANTS
    TypeOK
    OneInterval
PROPERTIES
    ReplayUndisturbed
    DashboardCatchesUp
    DeadNodesNoticed
    ReplayEnds
