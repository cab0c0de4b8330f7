\* One connection on two threads: three requests, in any fragmentation.
CONSTANTS
    c1 = c1
    t1 = t1
    t2 = t2
    none = none
    Conns <- MCConns
    Threads <- MCThreads
    MaxRequests = 3
    NoConn <- none
    Kinds <- AllKinds
    Eagerness <- MCAny
SPECIFICATION FairSpec
INVARIANTS
    MatchedAnswers
    OneHandler
PROPERTIES
    ClosedForAReason
    EveryRequestAnswered
    Reclaimed
