SPECIFICATION Spec
CONSTANTS
    NumNodes = {2, 3, 4, 5, 6}
    MaxRound = 10000
    MaxLaps = 6
    MaxSpread = 8
INVARIANTS
    TypeOK
    EveryPairBothWays
    UniformCoverage
PROPERTIES
    PullsSkipAPair
CHECK_DEADLOCK FALSE
