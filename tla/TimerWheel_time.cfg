SPECIFICATION FairSpec
CONSTANTS
    Timers = {t1, t2}
    WheelSize = 4
    LevelDiv = 2
    MaxLevels = 3
    CntDiv <- MCCntDiv
    MinEvents = 1
    TickMod = 40
    StartTicks = {0, 4, 13, 36}
    CbTicks = {1, 5}
    MaxAge = 48
PROPERTIES
    TimeGoesOn
