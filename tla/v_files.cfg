SPECIFICATION MCSpec
CONSTANTS
    None = None
    w1 = w1
    w2 = w2
    near = near
    wide = wide
    far = far
    odd = odd
    sw = sw
    SW = SW
    p1 = p1
    p2 = p2
    c1 = c1
    rtr = rtr
    swh = swh
    term = term
    Watchers = {w1, w2}
    Hosts = {h1}
    ExpireAt = 1
    MaxClock = 3
    MaxLate = 1
    MaxReports = 3
    Workers = {w1, w2}
    Subnets = {near, wide, far, odd}
    ScanReports <- MCReports
    Local = {near, wide, far, odd}
    HostBits = {odd}
    Within <- MCWithin
    Prefetch = 2
    Lost = Lost
    Rtts = {1, 3}
    Addresses = 4
    ScanQueue = 3
    MaxRequests = 2
    MaxAge = 1
    Bulks <- MCBulks
    HostPorts <- MCHostPorts
    Uplinks <- MCUplinks
    Lower <- MCLower
    Directives <- MCDirectives
    Values = {0, 1}
    Configs <- MCConfigs
    Context <- MCContext
    Ignores <- MCIgnores
    Limit = 2
    AlertClock = 2
    MaxFaults = 1
    Ports = {p1}
    Ranges = {1, 2}
    Minute = 2
    Older = 2
    Speeds = {2}
    Steps = {0, 2}
    Width = 4
    Unit = 2
    LowPass = 8
    RankClock = 5
    Phones = {m1}
    Places = {a, b}
    Together <- MCTogether
    Delta = 1
    Links = {p1, p2}
    Channels = {c1}
    MemberOf <- MCMemberOf
    Peers = {"Core", "edge.slac"}
    FullName <- MCFullName
    Expiration = 2
    MaxTime = 4
    Devices = {rtr, swh, term}
    Terminals = {term}
    Excluded = {}
    Rules <- MCRules
    Categories = {"core", "edge", "other"}
    MaxChanges = 4
    MaxRuns = 3
    MaxCrashes = 1
    MaxQueue = 1
    MaxRestarts = 1
CHECK_DEADLOCK FALSE
PROPERTY NoneOutOfUse
