SPECIFICATION ArpSpec
CONSTANTS
    Clients = {c1, c2}
    Gateways = {g1}
    NoDg = zero
    Forced = {c2}
    ForcedDgs = {zero, g1}
    TakenDgs = {zero}
    MaxIndex = 3
    ArpCounts = {1}
INVARIANTS NoPanic
