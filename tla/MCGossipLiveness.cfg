SPECIFICATION FairGossipSpec
CONSTANTS
    Node = {a, b}
    Price = {1}
    Lossy = {}
    Quantity = {1}
    MarketQuantity = {1}
    MaxOps = 2
    MaxClock = 2
    Strategy = "WYTHOFF"
    MaxGossipOps = 2
    MaxInFlight = 1
INVARIANTS
    OperationsArriveInOrder
PROPERTIES
    UpdatesPropagate
    ImplementsReplication
CONSTRAINTS FewActs OnlyBids
