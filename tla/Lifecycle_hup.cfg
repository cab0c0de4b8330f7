\* A SIGHUP before the SIGTERM.
CONSTANTS
    t1 = t1
    t2 = t2
    Threads <- MCThreads
    MaxClients = 0
    MaxErrors = 0
    MaxSignals = 2
CHECK_DEADLOCK FALSE
SPECIFICATION FairSpec
PROPERTIES
    TermExits
