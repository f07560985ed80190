SPECIFICATION Spec
CONSTANTS
    t1 = t1
    t2 = t2
    Mover = Mover
    Size = 3
    MaxTurns = 9
    Choices <- ThreeCells
    Grace = 2
    TimerIds <- TwoTimers
    RedisMayFail = FALSE
    SlowSets = FALSE
PROPERTIES
    EveryDisconnectIsTimed
CHECK_DEADLOCK FALSE
