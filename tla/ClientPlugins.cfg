SPECIFICATION MCSpec
CONSTANTS
    Focus = {"dhcpv6", "dot1x", "flows", "dhcp_any", "dhcp_net"}
    D6Msgs <- MCD6Msgs
    ReqMaxRc = 2
    DefT1 = 1
    DefT2 = 3
    T2Slack = 60
    None6d = "none"
    MaxRounds = 3
    Challenges = {ch1, ch2}
    NoChallenge = nochallenge
    Methods = {"md5", "mschap"}
    HasUser = TRUE
    HasPassword = TRUE
    MaxStart = 3
    CntMod = 256
    PortMin = 2
    PortMax = 3
    PortSpace = 5
    Retry = 4
    FixedPorts = {1}
    FixedEnds = {"group"}
    ServerPorts = {1}
    Dialled = {"server"}
    Callers = {"caller"}
    Addrs = {"ip1", "ip2"}
    Strays = FALSE
    SockIds = {s1, s2}
    Macs <- MCMacs
    Clients <- MCClients
    PoolParams <- MCPools
    AnyMsgs <- MCAnyMsgs
    ServerIp = 7
    Chunk = 3
    Threshold = 1
    OfferTimeout = 1
    MinLease = 4
    DefaultLease = 4
    MaxLease = 8
    DiscoverSec = 1
    OfferSec = 1
    MaxRequests = 1
    MaxDeclines = 1
    MaxCreates = 2
INVARIANTS
    PoolExact
    LeaseSound
    D6Sound
    X1Sound
    FlowSound
