CONSTANTS
    Value = {v1, v2}
    NoValue = NoValue
    Capacity = 3
    LoopPushes = TRUE
    MaxHeld = 4
SPECIFICATION Spec
INVARIANTS
    TypeOK
    TwoWindows
