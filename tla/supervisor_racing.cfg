SPECIFICATION MCSpec
CONSTANTS
    None = None
    k1 = k1
    k2 = k2
    d1 = d1
    d2 = d2
    s1 = s1
    s2 = s2
    Keys = {k1, k2}
    Supervisors = {s1, s2}
    Workers = {w1}
    Drivers = {d1, d2}
    Priorities <- MCPriorities
    ForcedDrivers <- ForcedForK2
    ReceivedThrottle = 1
    CompleteThrottle = 1
    InvalidTime = 0
    ReprobeDelays = {1}
    StartNotices = {"PROCESSING"}
    CacheLoss = TRUE
    Operator = TRUE
    WorkerLoss = TRUE
    MaxClock = 1
    MaxRequests = 2
INVARIANT DriverProvenance
INVARIANT TimesBounded
INVARIANT ForcedDriverWins
CHECK_DEADLOCK FALSE
