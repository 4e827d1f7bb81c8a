CONSTANTS
    Value = {v1, v2}
    NoValue = NoValue
    Capacity = 3
    LoopPushes = FALSE
    MaxHeld = 4
SPECIFICATION Spec
INVARIANTS
    SafeForOneProducer
