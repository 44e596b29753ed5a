SPECIFICATION MCSpec
CONSTANTS
    Focus = {"igmp", "mld", "nd"}
    MaxIds = 2
    MaxIdsSG = 2
    MaxPyld = 20
    HdrLen = 8
    SrcLen = 4
    g1 = g1
    g2 = g2
    g3 = g3
    s1 = s1
    s2 = s2
    IgGroups = {g1, g2, g3}
    IgSources = {s1, s2}
    MaxResps = {1000}
    MinTick = 10
    MaxPPS = 100000
    MaxIgOps = 4
    NdRetries = 3
    c1 = c1
    c2 = c2
    a1 = a1
    a2 = a2
    Clients6 = {c1, c2}
    Addrs6 = {a1, a2}
    d1 = d1
    d2 = d2
    Dgs6 = {d1, d2}
    None6 = "none"
    SolGroup <- SolGroups
    AllNodes = "all"
    McGroups = {"y"}
    Sources6 = {"s"}
    Designator = c1
    Resps6 = {1000}
    MinTick6 = 10
    MaxPPS6 = 100000
    RouteSolRet = 2
    Max6 = 4
SYMMETRY Symmetric
INVARIANTS
    IgmpSound
    MldSound
    NdSound
