CONSTANTS
    Value = {v1, v2, v3}
    NoValue = NoValue
    Capacity = 3
    DroppedMax = 2
SPECIFICATION Spec
INVARIANTS
    TypeOK
    IndicesAgree
PROPERTIES
    ImplementsQueue
