SPECIFICATION FairGossipSpec
CONSTANTS
    Node = {a, b}
    Price = {1}
    Lossy = {}
    Quantity = {1}
    MarketQuantity = {}
    MaxOps = 2
    MaxClock = 2
    Strategy = "RANDOM"
    MaxGossipOps = 1
    MaxInFlight = 1
PROPERTIES
    UpdatesPropagate
