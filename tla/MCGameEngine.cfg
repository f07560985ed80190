SPECIFICATION FairSpec
CONSTANTS
    t1 = t1
    t2 = t2
    Mover = Mover
    Size = 3
    MaxTurns = 9
    Choices <- ThreeCells
    Grace = 2
    TimerIds <- TwoTimers
    RedisMayFail = TRUE
    SlowSets = FALSE
INVARIANTS
    TypeOK
    ScoresCountCells
    PausedHasTimer
    ResultIsEarned
    BoardResultPersistedOnce
PROPERTIES
    MovesAlternate
    PauseEnds
    FinishedIsRemoved
    PlaysByTheRules
    KeysStayDeleted
CHECK_DEADLOCK FALSE
