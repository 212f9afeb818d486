SPECIFICATION MCSpec
CONSTANTS
    None = None
    Hosts = {h1, h2, h3}
    Items <- MCItems
    Rank <- MCRank
    UpdatePeriod = 1
    DeadTime = 1
    Forgetful = FALSE
PROPERTY DeadLeave
