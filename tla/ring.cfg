SPECIFICATION MCSpec
CONSTANTS
    None = None
    Hosts = {h1, h2}
    Items <- MCItems
    Rank <- MCRank
    UpdatePeriod = 1
    DeadTime = 2
    Forgetful = TRUE
INVARIANT NoneNeglected
PROPERTY NewcomersAlive
PROPERTY DeadLeaveUnlessLost
PROPERTY CoveredUnlessLost
