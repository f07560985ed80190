SPECIFICATION Spec
CONSTANTS
    NoPlayer = NoPlayer
    NoRoom = NoRoom
    Games <- MCGames
    Fixtures <- MCFixtures
    Timers <- MCTimers
    Tasks <- MCTasks
    Players <- MCPlayers
    Elo <- MCElo
    Points <- MCPoints
    Start = 1000
    MayRollBack = FALSE
INVARIANTS
    RoutedToOwnGame
CHECK_DEADLOCK FALSE
