SPECIFICATION FairSpec
CONSTANTS
    c1 = c1
    c2 = c2
    i1 = i1
    i2 = i2
    NoConn = NoConn
    Nowhere = Nowhere
    Conns <- MCConns
    Instances <- MCInstances
    MaxGames = 2
    Hosts <- MCHosts
INVARIANTS
    TypeOK
    AbsenceIsKnown
    EngineAndSessionAgree
    SessionMatchesPlayer
PROPERTIES
    AbandonmentIsHandled
CHECK_DEADLOCK FALSE
