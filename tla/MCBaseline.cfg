SPECIFICATION Spec
CONSTANTS
    c1 = c1
    c2 = c2
    p1 = p1
    p2 = p2
    None = None
    Torn = Torn
    Conn <- MCConn
    Pair <- MCPair
    MaxLive = 1
    MaxPoints = 1
    SecondsPerDay = 2
    History <- MCHistory
    MaxSegments = 1
    MaxTime = 2
    MaxLog = 3
    MaxRotations = 1
    MaxLoads = 2
SYMMETRY MCSymmetry
INVARIANTS
    ServedIsABuild
    LastSeenIsLatest
PROPERTIES
    RejectionsTakeEffect
CHECK_DEADLOCK FALSE
