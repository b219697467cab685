SPECIFICATION GossipSpec
CONSTANTS
    Node = {a, b}
    Price = {1}
    Lossy = {}
    Quantity = {1}
    MarketQuantity = {}
    MaxOps = 2
    MaxClock = 2
    Strategy = "RANDOM"
    MaxGossipOps = 2
    MaxInFlight = 2
SYMMETRY Symmetry
CONSTRAINTS OnlyBids Unsettled NoHeartbeats OneSuspects OneRound OneTrader
INVARIANTS
    GossipTypeOK
    OperationsArriveInOrder
