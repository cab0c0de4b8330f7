\* A MONITOR beside other commands.
SPECIFICATION Spec
CONSTANTS
    c1 = c1
    c2 = c2
    p1 = p1
    Names <- MCNames
    Hash <- MCHash
    InitialSize = 1
    Patterns = {p1}
    Commands <- Monitoring
    MaxCommands = 3
    MaxMessages = 1
    Breakable = {"mixing"}
INVARIANTS
    OwnReplies
