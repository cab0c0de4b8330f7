\* Three commands, one message, a connection that may fail anywhere.
SPECIFICATION FairSpec
CONSTANTS
    c1 = c1
    c2 = c2
    p1 = p1
    Names <- MCNames
    Hash <- MCHash
    InitialSize = 1
    Patterns = {p1}
    Commands <- MCCommands
    MaxCommands = 3
    MaxMessages = 1
    Breakable = {"overtaking", "unknown"}
INVARIANTS
    MatchedReplies
    ContextSound
PROPERTIES
    EveryCallbackRuns
    DisconnectEnds
