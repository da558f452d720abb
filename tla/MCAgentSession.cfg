SPECIFICATION FairSpec
CONSTANTS
    MaxBatch = 2
    MaxTurns = 2
    MaxTasks = 2
    None = None
INVARIANTS
    RecordedFirst
    ArchiveTells
PROPERTIES
    CancelHolds
    CancelEnds
CHECK_DEADLOCK FALSE
