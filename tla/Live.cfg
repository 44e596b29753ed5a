SPECIFICATION MCSpec
CONSTANTS
    Clients = {c1, c2}
    Gateways = {g1}
    NoDg = zero
    Forced = {c2}
    ForcedDgs = {zero}
    TakenDgs = {zero}
    MaxIndex = 7
    ArpCounts = {1}
    Capacity = 3
    LowThr = 1
    HighThr = 2
    NumGens = 1
    Burst = 2
    MaxData = 0
    MaxTemp = 0
    HasMaxTime = FALSE
    IpfixVer = 10
    FlowSeqMod = 1
    FeMaxSize = 2
    FeMaxFiles = 1
    FeCapacity = 1
    FeQueue = 1
    Sizes = {1, 2, 3}
    MaxWrites = 1
    MaxFiles = 2
    Repeats = 2
    MaxPosts = 2
    StoreFiles = FALSE
CHECK_DEADLOCK FALSE
PROPERTIES
    EventuallyResolved
    ExportersEnd
