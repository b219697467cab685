SPECIFICATION RestartSpec
CONSTANTS
    Node = {a, b}
    Price = {1}
    Lossy = {}
    Quantity = {1}
    MarketQuantity = {1}
    MaxOps = 2
    MaxClock = 2
    MaxRestarts = 1
INVARIANTS
    DeltaIsFull
