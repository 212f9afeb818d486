SPECIFICATION Spec
CONSTANTS
    None = None
    k1 = k1
    k2 = k2
    d1 = d1
    d2 = d2
    Keys = {k1}
    Supervisors = {s1, s2}
    Workers = {w1}
    Drivers = {d1, d2}
    Priorities <- MCPriorities
    ForcedDrivers <- NothingForced
    ReceivedThrottle = 1
    CompleteThrottle = 1
    InvalidTime = 2
    ReprobeDelays = {2, 3}
    StartNotices = {"PROCESSING"}
    CacheLoss = FALSE
    Operator = FALSE
    WorkerLoss = FALSE
    MaxClock = 2
    MaxRequests = 3
PROPERTY ReceivedThrottleRespected
CHECK_DEADLOCK FALSE
