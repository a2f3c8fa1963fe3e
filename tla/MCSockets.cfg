SPECIFICATION FairSpec
CONSTANTS
    Sockets = {1, 2}
    Tokens = {"good", "bad"}
    Valid = {"good"}
    Presents <- MCPresents
    GuardVerdicts = {"pass", "refuse", "throw", "wait"}
    Closers = {1, 2}
    MaxMessages = 1
CHECK_DEADLOCK FALSE
INVARIANTS
    TypeOK
    Authenticated
    EventsTrue
    ClosedForGood
PROPERTIES
    HandshakeSettles
