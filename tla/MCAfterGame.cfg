SPECIFICATION FairSpec
CONSTANTS
    NoPlayer = NoPlayer
    NoRoom = NoRoom
    Games <- MCGames
    Fixtures <- MCFixtures
    Timers <- MCTimers
    Tasks <- MCTasks
    Players <- MCPlayers
    Elo <- MCElo
    Points <- MCPoints
    Start = 1000
    MayRollBack = TRUE
INVARIANTS
    TypeOK
    CountersMatchHistory
    NoWaitCycle
    
    RecordsAgree
PROPERTIES
    ResultsAreAtomic
    ResultIsRecorded
CHECK_DEADLOCK FALSE
