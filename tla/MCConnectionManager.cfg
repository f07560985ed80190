SPECIFICATION FairSpec
CONSTANTS
    p1 = p1
    c1 = c1
    c2 = c2
    c3 = c3
    r1 = r1
    r2 = r2
    NoConn = NoConn
    NoRoom = NoRoom
    Players <- MCPlayers
    Conns <- MCConns
    Rooms <- MCRooms
    PlayerOf <- MCPlayerOf
INVARIANTS
    TypeOK
    RoomsConsistent
PROPERTIES
    LatestStaysReachable
    ForcedOutLeaves
CHECK_DEADLOCK FALSE
