CONSTANTS
    WordSize = 16
    ControlPeriod = 1
    TelemetryPeriod = 1
    WatchdogTimeout = 1
    CommandTimeout = 4
    MaxSilence = 8
    HighCapacity = 1
    LowCapacity = 1
    DroppedMax = 0
    MaxLines = 2
    Lines <- ClearAndPress
    IsrEvents <- NoEvents
    Panel <- PanelQuiet
    LinkStates = {TRUE}
    FullSoc = 3
    CriticalSoc = 1
    RiseThreshold = 2
    RiseSamples = 2
    SocReadings = {3}
    BootTimes = {0}
    LinearAccel = 1
    LinearDecel = 2
    AngularAccel = 1
    AngularDecel = 2
    HalfTrack = 1
    MaxWheel = 2
SPECIFICATION Spec
INVARIANTS
    PressHonoured
