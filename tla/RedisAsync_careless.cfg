\* SUBSCRIBE, UNSUBSCRIBE and SUBSCRIBE in one pipeline.
SPECIFICATION Spec
CONSTANTS
    c1 = c1
    c2 = c2
    p1 = p1
    Names <- MCNames
    Hash <- MCHash
    InitialSize = 1
    Patterns = {p1}
    Commands <- Subscriptions
    MaxCommands = 3
    MaxMessages = 1
    Breakable = {"overtaking"}
INVARIANTS
    AssertionsHold
