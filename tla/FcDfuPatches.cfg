\* Violated: the script of a start in DFU mode patches the firmware that was there before.
SPECIFICATION Spec
CONSTANTS
    Workers = {w1, w2}
    MaxSessions = 1
    MaxAsks = 3
    Stages <- ThreeStages
    FullDuty = TRUE
    Settle = 1
    MaxClock = 3
    MaxBenchActs = 3
    ClockTime = 3
    ClockLives = 3
    Firmwares = {"bf"}
    FcStarts = 3
    BootRuns = 4
INVARIANTS
    PatchesFit
CHECK_DEADLOCK FALSE
