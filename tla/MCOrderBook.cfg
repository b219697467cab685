SPECIFICATION Spec
CONSTANTS
    OrderId = {o1, o2, o3}
    Price = {1, 2}
    Quantity = {1, 2}
SYMMETRY Symmetry
INVARIANTS
    TypeOK
    IndexConsistent
    TotalsExact
    SnapshotShowsTheBook
PROPERTIES
    FillsRespectPriority
    OrdersNeverComeBack
    ImplementsPriceTimePriority
