SPECIFICATION MCSpec
CONSTANTS
    None = None
    f1 = f1
    f2 = f2
    s1 = s1
    s2 = s2
    c1 = c1
    c2 = c2
    subnet = subnet
    switch = switch
    router = router
    Feeders = {f1, f2}
    Contexts = {c1, c2, subnet}
    Elsewhere = {subnet}
    Device <- MCDevice
    Bodies <- MCBodies
    Metas <- MCMetas
    MaxMessages = 3
    MaxFaults = 1
    OldMessages <- MCOldMessages
    Partitions <- MCPartitions
    Ours = {"near"}
    OldMax = 3
    Messages <- MCMessages
    Instances <- MCInstances
    ShardOf <- MCShardOf
    PortOffset = 1
    Chunks = 3
    MaxPoints = 8
    MaxErrors = 3
    MaxTime = 3
    Storers = {s1, s2}
    Subjects = {c1}
    Values <- MCValues
    ArchiveAfter = 2
    MaxReports = 4
    MaxCrashes = 1
SYMMETRY Symmetry
CHECK_DEADLOCK FALSE
PROPERTY FineIfItExists
