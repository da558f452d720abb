SPECIFICATION RunSpec
CONSTANTS
    MaxCalls = 5
    MaxSteps = 5
    MaxCandidate = 2
    Policies <- MCPolicies
    Large = 3
    Preview = 2
    NoValue = NoValue
INVARIANTS
    LogTellsEffects
    RebuiltAgrees
    CancelIsPrompt
    ContextWhole
CHECK_DEADLOCK FALSE
