SPECIFICATION SandboxSpec
CONSTANTS
    MaxWrites = 2
    Nothing = Nothing
INVARIANTS
    WorkSurvives
    CleanedIsClean
PROPERTIES
    StopEndsEffects
CHECK_DEADLOCK FALSE
