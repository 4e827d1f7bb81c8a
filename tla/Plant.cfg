CONSTANTS
    FullSoc = 5
    CriticalSoc = 1
    RiseThreshold = 2
    RiseSamples = 3
    Curve <- SocCurve
    GaugeResistance = 1
    PackResistance = 2
    PackVolts = {3, 5, 8, 9}
    LoadCurrents = {0, 1}
    MaxSpeed = 4
    Accel = 2
    Decel = 3
SPECIFICATION Spec
INVARIANTS
    TypeOK
    NeverFlattering
    NewPackNoticed
    LoadIsBounded
PROPERTIES
    RiseIsSustained
    OnlySwapsRaise
    NoOvershoot
    GentleStart
    FirmStop
    Settles
