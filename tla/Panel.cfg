\* Three actions of a user, three launches of a simulator, two panels on two ports,
\* two lives of a simulation, one session of captures; two hosts of the USB server,
\* which keeps no OUT data.  Bounds are used up.
SPECIFICATION Spec
CONSTANTS
    Workers = {w1, w2}
    MaxSessions = 1
    MaxAsks = 3
    Stages <- ThreeStages
    FullDuty = TRUE
    Settle = 1
    MaxClock = 3
    MaxBenchActs = 3
    ClockTime = 3
    ClockLives = 3
    Firmwares = {"bf"}
    FcStarts = 3
    BootRuns = 4
INVARIANTS
    TypesOK
    PanelTruthful
    CaptureWhole
    UrbsSettled
    StreamKept
    BenchSafe
    RecordTrue
    FlashWhole
PROPERTIES
    SavedKept
CHECK_DEADLOCK FALSE
