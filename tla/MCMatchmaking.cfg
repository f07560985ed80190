SPECIFICATION FairSpec
CONSTANTS
    i1 = i1
    i2 = i2
    r1 = r1
    r2 = r2
    Instances <- MCInstances
    Rooms <- MCRooms
    Players <- MCPlayers
    Elo <- MCElo
    Base = 1
    PerTick = 4
    MaxTol = 5
    MaxWait = 1
    MaxFinds <- MCFinds
    MaxLeaving = 1
    MayFail = TRUE
INVARIANTS
    TypeOK
    NoDoubleMatching
    QueuedAreSearching
PROPERTIES
    WaitingStaysPlaced
    CompatibleNotStuck
CHECK_DEADLOCK FALSE
