SPECIFICATION Spec
CONSTANTS
    Slots = 2
    SlotCalls = 2
    MaxCalls = 3
    Cap = 2
    CallTokens = 1
    CampaignTokens = 2
    MaxStreak = 2
    MaxFaults = 1
    None = None
    Torn = Torn
    Odd = Odd
INVARIANTS
    LedgerFirst
    ReportTrue
PROPERTIES
    StopIsFinal
CHECK_DEADLOCK FALSE
