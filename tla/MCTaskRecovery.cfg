SPECIFICATION FairSpec
CONSTANTS
    Tasks = 1
    Conv = {c1}
    Owner = {w1, w2}
    Slots = 2
    Version = {1, 2}
    MaxAttempt = 1
    None = None
INVARIANTS
    StopIsProof
    PointsAreCurrent
PROPERTIES
    ControlsHold
    StopsAreConfirmed
CHECK_DEADLOCK FALSE
