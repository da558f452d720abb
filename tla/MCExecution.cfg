SPECIFICATION FairSpec
CONSTANTS
    Duration = 5
    Every = 2
    MaxGoal = 2
    None = None
INVARIANTS
    RevocationReachesRunner
PROPERTIES
    ContractHolds
    KeepsTime
    RevocationEnds
CHECK_DEADLOCK FALSE
