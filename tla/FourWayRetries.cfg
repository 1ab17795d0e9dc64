\* Violated: two copies of the next request are both answered.
SPECIFICATION Spec
CONSTANTS
    FlashUnits = 4
    FlashSectors <- DfuSectors
    FirmwareImages <- DfuImages
    DfuHosts = 2
    Escs = {e1}
    MaxCommands = 2
    MaxSends = 4
    WireBytes = 4
    ReadBytes = 2
    Parts = {"fourway"}
INVARIANT
    RetriesAnsweredOnce
CHECK_DEADLOCK FALSE
