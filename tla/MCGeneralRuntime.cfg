SPECIFICATION Spec
CONSTANTS
    Capabilities = {"read", "write"}
    Scopes = {"input", "output", "all"}
    Covers <- MCCovers
    Setups <- MCSetups
    HardSteps = 2
    HardCalls = 3
    None = None
INVARIANTS
    WithinAuthority
    RecordsAgree
PROPERTIES
    EvaluatorIsStopped
CHECK_DEADLOCK FALSE
