SPECIFICATION MCSpec
CONSTANTS
    DcRecords = {"a", "b"}
    DcTtls = {0, 1, 5}
    TickSpace = 4
    DcChunk = 1
    DcCounts = {1, 2}
    MaxAdds = 3
    MaxFlushes = 2
    Askers = {"a1", "a2"}
    Domains = {"d1"}
    DbLists <- MCDbLists
    DnsPackets <- MCPackets
    MaxRx = 3
    MaxDbOps = 2
    Macs = {1, 2, 3}
    AutoParams <- MCAuto
    AutoUint64 = 64
    AutoUint16 = 64
    MaxQueries = 5
    MdClients = {c1, c2}
    MdHosts = {h1, h2}
    MdPackets <- MCMdPackets
    MdDataSets <- MCMdDataSets
    Nobody = Nobody
    PingIds = {1, 2}
    PingSeqs = {3}
    PingSeqMod = 5
    PingParams <- MCPing
    MaxPings = 2
    Scenarios <- MCScenarios
    AppSndBuf = 2
    IndexMod = 64
    AppDrops = TRUE
    StreamLimits = {0, 1, 2}
    MaxFlows = 3
    PppAssigned = "A"
    PppServerIp = "S"
    PppNoIp = "0"
    MaxPadt = 2
    InFlight = 3
    Both = {"appsim"}
    Single = {"ipfix", "tdl"}
    FamilyOf <- MCFamilyOf
    MaxAttempts = 5
    TdlBits = 2
    MetaMap <- MCMeta
    TdlParams <- MCTdlParams
    MaxTicks = 2
    FeMod = 8
    SizeMod = 65536
    FeSizeMod <- MCSizeMod
    FeRepeats = {0, 2}
    FeLists <- MCLists
    FePad = 0
    MaxUpdates = 4
    FtParams <- MCTimes
    FtMod = 64
    GenUnit = 119
    GenPart = 4
    GenDists <- MCDists
    HistByte = 2
    HistSizes = {2, 4, 8, 12}
    HistEntries <- MCEntries
    MaxDraws = 2
CHECK_DEADLOCK FALSE
INVARIANTS
    DnsCacheSound
    DnsServes
    MdAnswered
    PingSound
    AppSound
    PppSound
    ClientSound
    TdlSound
    EnginesSound
