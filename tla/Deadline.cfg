CONSTANTS
    WordSize = 16
    Period = 3
    MaxGap = 10
    Horizon = 40
SPECIFICATION Spec
INVARIANTS
    TypeOK
    NeverAhead
    NoDrift
    NoBurst
    NoAlias
