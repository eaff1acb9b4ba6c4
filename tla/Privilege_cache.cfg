SPECIFICATION Spec
CONSTANTS
    p1 = p1
    None = None
    Pid = {p1}
    Timed = {"t"}
    Kernel = {"k"}
    Timeout = 2
    Offset = 1
    Latency = 1
    Boots = {1}
    Ready = 1
    Worlds <- MCWorlds
    MaxClock = 5
    MaxLife = 2
    MaxStops = 2
\* The clock, the processes and the crashes are bounded.
CHECK_DEADLOCK FALSE
INVARIANTS GrantedIsValid AuthorizedIsConfirmed RecordsAreOwn KernelGrantKept ReleasedStaysReleased
