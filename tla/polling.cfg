SPECIFICATION MCSpec
CONSTANTS
    None = None
    d1 = d1
    d2 = d2
    d3 = d3
    p1 = p1
    a1 = a1
    a2 = a2
    s1 = s1
    s2 = s2
    Missing = Missing
    NoMoreMib = NoMoreMib
    MaxRepeaters = 3
    Base = 2
    Octets = 2
    Bits = 4
    Short = 2
    Run = 2
    Nibble = 1
    Ignored = {3}
    Banks = 2
    Modulus = 4
    Slots = {0, 1, 3}
    Aps = {a1, a2}
    Serials = {s1, s2}
    MaxKeys = 3
    Last = 3
    Ports <- MCPorts
    Kinds <- MCKinds
    Makers <- MCDrivers
    Collections <- MCCollections
    Parent <- MCParent
    Devices <- MCDevices
    WalkLists <- MCWalkLists
    Drivers = {d1, d2, d3}
    Lists <- MCLists
    Iterative = {d2}
    NetConfig = {d3}
    Timeout = 2
    MaxValues = 3
    MaxGroups = 2
INVARIANT InTime
INVARIANT OneSource
INVARIANT SlowIsReported
 
INVARIANT ResultsSound
INVARIANT WalkIsTable
INVARIANT ValuesReadBack
INVARIANT RowsJoined
PROPERTY ImplementsContract
PROPERTY WalkEnds
CHECK_DEADLOCK FALSE
