\* The launcher's own USB device, the firmware's, or the DFU handoff to it; two
\* launches, one upset.
\* A closed program, or one whose launches are used up, may stop.
SPECIFICATION Spec
CONSTANTS
    Modes = {"stub", "flash", "dfu"}
    MaxStarts = 2
    MaxDownloads = 1
    MaxUpsets = 1
    Quiet = {"flash", "dfu"}
CHECK_DEADLOCK FALSE
INVARIANTS
    TypeOK
    NoLostImport
    EndpointsOwned
    PublishedIsCurrent
    RunningIsCurrent
