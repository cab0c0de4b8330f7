\* As many pooled connections as threads; connections break and may not be replaced.
CONSTANTS
    t1 = t1
    t2 = t2
    c1 = c1
    c2 = c2
    c3 = c3
    c4 = c4
    none = none
    Threads <- MCThreads
    Conns <- MCConns
    PoolSize = 2
    NoConn <- none
SPECIFICATION Spec
INVARIANTS
    MutualExclusion
    ExclusiveUse
    PoolSound
    NoLeak
    Conservation
PROPERTIES
    ImplementsResourcePool
