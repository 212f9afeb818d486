SPECIFICATION UndisturbedSpec
CONSTANTS
    None = None
    k1 = k1
    k2 = k2
    d1 = d1
    d2 = d2
    Keys = {k1, k2}
    Supervisors = {s1}
    Workers = {w1}
    Drivers = {d1, d2}
    Priorities <- MCUnregistered
    ForcedDrivers <- NothingForced
    ReceivedThrottle = 2
    CompleteThrottle = 1
    InvalidTime = 2
    ReprobeDelays = {2}
    StartNotices = {"PROCESSING"}
    CacheLoss = FALSE
    Operator = FALSE
    WorkerLoss = FALSE
    MaxClock = 3
    MaxRequests = 3
INVARIANT SettledState
PROPERTY ThrottlesRespected
PROPERTY StartNullified
CHECK_DEADLOCK FALSE
