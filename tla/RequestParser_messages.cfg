\* Messages, cut anywhere, and every one-byte edit of the short ones.
CONSTANTS
    Messages <- MCMessages
    Edits <- MCEdits
    EditedMessages <- ShortMessages
    Files <- MCFiles
SPECIFICATION Spec
INVARIANTS
    CompleteIsTrue
    ReadAsSent
    NothingLost
    ServedUnderRoot
    AnswerFramed
    GuestsGetTemplatesOnly
