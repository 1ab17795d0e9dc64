\* Violated: a frame begins in one life of the simulator and ends in the next.
SPECIFICATION Spec
CONSTANTS
    Workers = {w1, w2}
    MaxSessions = 1
    MaxAsks = 3
    Stages <- ThreeStages
    FullDuty = TRUE
    Settle = 1
    MaxClock = 3
    MaxBenchActs = 3
    ClockTime = 3
    ClockLives = 3
    Firmwares = {"bf"}
    FcStarts = 3
    BootRuns = 4
INVARIANTS
    FrameOfOneLife
CHECK_DEADLOCK FALSE
