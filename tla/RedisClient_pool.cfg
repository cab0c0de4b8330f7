CONSTANTS
    t1 = t1
    c1 = c1
    c2 = c2
    none = none
    Threads <- MCThreads
    Conns <- MCConns
    NoConn <- none
    PoolSize = 1
    Messages <- MCMessages
    MaxPipeline = 2
    MaxCommands = 3
    StackSize = 3
    DiscardAt = 6
SPECIFICATION FairSpec
INVARIANTS
    MatchedReplies
    ReplyAsSent
    PoolSound
PROPERTIES
    EveryCommandEnds
