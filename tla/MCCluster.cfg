SPECIFICATION FairSpec
CONSTANTS
    i1 = i1
    i2 = i2
    p1 = p1
    p2 = p2
    Nowhere = Nowhere
    Instances <- MCInstances
    Pair <- MCPair
    Late <- MCLate
    MaxConnects <- MCConnects
INVARIANTS
    TypeOK
    NewsInOrder
    NewsIsTrue
PROPERTIES
    NewsArrives
CHECK_DEADLOCK FALSE
