SPECIFICATION Spec
CONSTANTS
    Timers = {t1, t2, t3}
    WheelSize = 4
    LevelDiv = 2
    MaxLevels = 2
    CntDiv <- MCCntDiv
    MinEvents = 1
    TickMod = 64
    StartTicks = {3, 4, 9}
    CbTicks = {0, 5}
    MaxAge = 100
SYMMETRY Symmetry
INVARIANTS
    FiresOnTime
PROPERTIES
    NoTimerLeftBehind
