\* Two processes of each store, two downloads of a window, two descendants of a
\* process.  The parts may stop: bounds are used up, processes end.
SPECIFICATION Spec
CONSTANTS
    Kids = {k1, k2}
    Processes = {p1, p2}
    ReleaseNames = {"r0", "r1"}
    Channels = {"stable"}
    Legacy = "r0"
    MaxVersion = 2
    MaxSuffix = 1
    Sources = {"url", "file"}
    Files = {"file"}
    Default = "url"
    Headers = {"h1", "h2"}
    MaxHad = 2
    MaxAsked = 3
    MaxChanges = 1
    Clients = {"c"}
    Targets = {"t", "u"}
    Settings = {"x", "y"}
    MaxLines = 3
    EscCounts = {1, 2}
    MaxWork = 2
    BuiltTargets <- ChosenTargets
    Bootloaders <- BuiltFiles
    Catalog <- TwoReleases
    MaxChoices = 3
    MaxEscs = 2
    DrivenInputs <- CanAndDshot
    MaxDevices = 2
    MaxReboots = 1
    LastChunk = 2
    MaxProbes = 2
    MaxFaults = 1
    MaxRetries = 2
INVARIANTS
    TypesOK
    StoresWhole
    WindowWhole
    AnswersOwn
    TreeDown
PROPERTIES
    StepsKeep
CHECK_DEADLOCK FALSE
