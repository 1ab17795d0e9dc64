\* One owner that polls a cancel event, one that blocks; one port; two sleeps.
SPECIFICATION FairSpec
CONSTANTS
    Clients = {c1, c2}
    Cancellable = {c1}
    Ports = {p1}
    MaxSleeps = 2
    NoPort = NoPort
    Free = Free
    Foreign = Foreign
    Worker = Worker
CHECK_DEADLOCK FALSE
INVARIANTS
    TypeOK
    NoLeakedImport
    NoStrandedLease
PROPERTIES
    ReleaseAfterDetach
    ImplementsLease
    AttachEventuallyDecided
    SleepEventuallyReleased
    CancelledAttachReturns
