SPECIFICATION ServerSpec
CONSTANTS
    Node = {a}
    Price = {1, 7, 12, 99}
    Lossy = {}
    Quantity = {2, 7, 20}
    MarketQuantity = {}
    MaxOps = 2
    MaxClock = 2
    c1 = c1
    c2 = c2
    Conn = {c1, c2}
    Scripts <- MCScripts
    Text <- MCText
    Garbage <- MCGarbage
    NaN = 99
INVARIANTS
    ServerTypeOK
    CommandsAsWritten
    ValidOrdersOnly
    ReportsAddUp
PROPERTIES
    StalledClientsHoldUpNobody
    ShutdownCompletes
CHECK_DEADLOCK FALSE
