CONSTANTS
    NumberCapacity = 3
    HostLines <- All
    LineCapacity = 6
    ChunkSize = 4
    RxCapacity = 8
    ReadsPerTimeout = 2
    MaxLost = 1
SPECIFICATION Spec
PROPERTIES
    OverlongIsDiscarded
