SPECIFICATION Spec
CONSTANTS
    Node = {a, b, c}
    Price = {1, 2, 3}
    Lossy = {2, 3}
    Quantity = {1}
    MarketQuantity = {1}
    MaxOps = 3
    MaxClock = 3
SYMMETRY Symmetry
CONSTRAINTS FewActs OnlyTopBids
INVARIANTS
    TypeOK
    NoOperationTwice
    ClocksMeasureCausality
    AntiEntropyComplete
    BookFollowsLog
    CausalNodesAgree
    PriceDriftBounded
    WireKeepsMessages
