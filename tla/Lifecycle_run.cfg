\* Two threads; clients, failed accepts and signals in any order.  An idle
\* server waits for its clients.
CONSTANTS
    t1 = t1
    t2 = t2
    Threads <- MCThreads
    MaxClients = 2
    MaxErrors = 1
    MaxSignals = 2
CHECK_DEADLOCK FALSE
SPECIFICATION FairSpec
INVARIANTS
    ServicesOutliveThreads
PROPERTIES
    AcceptsForever
    StopHonoured
