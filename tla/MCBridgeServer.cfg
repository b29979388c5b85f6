SPECIFICATION FairSpec
CONSTANTS
    Conn = {c1, c2}
    NoConn = NoConn
    MaxRequests = 2
INVARIANTS
    AnswersAreLogged
    CleanReturn
PROPERTIES
    SilentAfterReturn
    ServeReturns
    PeersAreAnswered
CHECK_DEADLOCK FALSE
