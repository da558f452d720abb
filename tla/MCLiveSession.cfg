SPECIFICATION Spec
CONSTANTS
    MaxRuns = 2
    MaxExchanges = 3
    MaxKeys = 1
    MaxBatch = 2
    Kinds <- MCKinds
    Replies <- MCReplies
    None = None
INVARIANTS
    NextTurnEncodes
    NothingOutlives
PROPERTY
    CancelEnds
CHECK_DEADLOCK FALSE
