SPECIFICATION MCSpec
CONSTANTS
    Macs = {m1, m2}
    Ipv4s = {a1, a2}
    Ipv6s = {b1, b2}
    Zero = zero
    NoClient = none
    Counts = {1, 2}
    MaxEpoc = 5
    Tunnels = {t1, t2, t3}
    MaxClients = 1
    MaxNsEpoc = 5
    Clients = {c1, c2}
    NoDg = zero
    Gateways = {g1, g2}
    Forced = {c2}
    ForcedDgs = {zero}
    TakenDgs = {zero}
    MaxIndex = 3
    ArpCounts = {1}
SYMMETRY Symmetry
VIEW View
INVARIANTS
    TablesExact
    IterSound
    NamespacesSound
    FlowsExact
    IterComplete
PROPERTIES
    MacKept
