\* One owner and one port are enough: no sleep is needed.
SPECIFICATION Spec
CONSTANTS
    Clients = {c1}
    Cancellable = {}
    Ports = {p1}
    MaxSleeps = 0
    NoPort = NoPort
    Free = Free
    Foreign = Foreign
    Worker = Worker
CHECK_DEADLOCK FALSE
PROPERTY ForeignLeftAlone
