SPECIFICATION Spec
CONSTANTS
    Tasks = 3
    Conv = {c1}
    Owner = {w1, w2}
    Slots = 1
    Version = {}
    MaxAttempt = 0
    None = None
SYMMETRY Sessions
INVARIANTS
    SlotsRespected
    ConversationOrder
CHECK_DEADLOCK FALSE
