CONSTANTS
    WordSize = 16
    ControlPeriod = 2
    TelemetryPeriod = 2
    WatchdogTimeout = 2
    CommandTimeout = 2
    MaxSilence = 12
    HighCapacity = 1
    LowCapacity = 1
    DroppedMax = 0
    MaxLines = 1
    Lines <- Mixed
    IsrEvents <- NoEvents
    Panel <- PanelQuiet
    LinkStates = {TRUE}
    FullSoc = 3
    CriticalSoc = 1
    RiseThreshold = 2
    RiseSamples = 2
    SocReadings = {3}
    BootTimes = {0, 13}
    LinearAccel = 1
    LinearDecel = 2
    AngularAccel = 1
    AngularDecel = 2
    HalfTrack = 1
    MaxWheel = 2
SPECIFICATION SupervisedSpec
INVARIANTS
    TypeOK
    DeadMansSwitch
PROPERTIES
    TorqueNeedsSetpoints
    ImplementsSafeRobot
