SPECIFICATION MCSpec
CONSTANTS
    PktRing = 3
    Frame = {1, 2, 3}
    ZeroFrame = 1
    IsShort <- MCIsShort
    MaxFrames = 6
    PktLens = {1, 3, 9}
    HdrSize = 1
    BurstSize = 3
    MaxBuffer = 8
    OffMod = 13
    MaxPkts = 5
    TickCapacity = 2
    Delays = {0, 1, 3}
    MaxRequests = 3
CHECK_DEADLOCK FALSE
INVARIANTS
    LoopSound
PROPERTIES
    RingIsFifo
    IsFifo
    LoopLive
