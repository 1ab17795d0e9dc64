\* Violated: a cancelled startup or handoff writes the status.
\* A closed program, or one whose launches are used up, may stop.
SPECIFICATION Spec
CONSTANTS
    Modes = {"stub", "dfu"}
    MaxStarts = 1
    MaxDownloads = 1
    MaxUpsets = 2
    Quiet = {}
CHECK_DEADLOCK FALSE
PROPERTY
    StatusStaysStopped
