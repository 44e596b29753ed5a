SPECIFICATION MCSpec
CONSTANTS
    Focus = {"udp", "http", "gen", "trigger"}
    Capacity = 3
    LowThr = 1
    HighThr = 2
    NumGens = 2
    Burst = 2
    MaxData = 3
    MaxTemp = 1
    HasMaxTime = TRUE
    IpfixVer = 9
    FlowSeqMod = 3
    FeMaxSize = 2
    FeMaxFiles = 1
    FeCapacity = 1
    FeQueue = 1
    Sizes = {1, 2, 3}
    MaxWrites = 2
    MaxIndex = 2
    Repeats = 2
    MaxPosts = 3
    StoreFiles = FALSE
    GenJsons <- MCJsons
    Versions = {9, 10}
    Header = 3
    PktSizes = {1, 7, 9}
    MaxRecs = 5
    MaxTmpls = 2
    SpecLen = 1
    SeqSpace = 4
    RecSpace = 1000
    MaxPkts = 3
    DeviceCounts = {1, 2, 3, 7, 10, 11, 19, 25}
    Rampups = {1, 13}
    IpSpace = 64
    FirstIp = 60
    FirstMac = 1
    FirstClient = 40
    FirstDomain = 7
    ClientsPerDevice = 2
    SitesPerTenant = 2
    DevicesPerSite = 3
    RepeatsPerDevice = 2
    TakenMacs = {2}
CHECK_DEADLOCK FALSE
INVARIANTS
    NoWriteRefused
    PauseFollowsChannel
    FilesSound
    ExportSound
