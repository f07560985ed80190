SPECIFICATION Spec
CONSTANTS
    i1 = i1
    i2 = i2
    p1 = p1
    p2 = p2
    Nowhere = Nowhere
    Instances <- MCInstances
    Pair <- MCPair
    Late <- MCLate
    MaxConnects <- MCConnects
INVARIANTS
    MovesReachGame
CHECK_DEADLOCK FALSE
