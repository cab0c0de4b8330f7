\* A POST with Content-Length 0.
CONSTANTS
    Messages <- EmptyMessages
    Edits = {}
    EditedMessages = {}
    Files <- MCFiles
SPECIFICATION Spec
INVARIANTS
    CompleteIsTrue
