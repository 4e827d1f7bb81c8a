CONSTANTS
    WordSize = 8
    ControlPeriod = 1
    TelemetryPeriod = 2
    WatchdogTimeout = 1
    CommandTimeout = 2
    MaxSilence = 4
    HighCapacity = 1
    LowCapacity = 1
    DroppedMax = 0
    MaxLines = 1
    Lines <- Turning
    IsrEvents <- NoEvents
    Panel <- PanelAll
    LinkStates = {TRUE, FALSE}
    FullSoc = 3
    CriticalSoc = 1
    RiseThreshold = 2
    RiseSamples = 2
    SocReadings = {3}
    BootTimes = {0}
    LinearAccel = 1
    LinearDecel = 2
    AngularAccel = 1
    AngularDecel = 2
    HalfTrack = 2
    MaxWheel = 2
SPECIFICATION Spec
INVARIANTS
    TorqueMirrorsFaults
    NothingLeftOver
    FrameCoherent
    ArcSurvives
PROPERTIES
    SoftStart
    NeverIntoBumper
