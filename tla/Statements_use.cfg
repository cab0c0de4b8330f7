SPECIFICATION Spec
CONSTANTS
    Scripts <- MCScripts
    RowSets <- MCRowSets
    MaxRequests = 2
INVARIANTS
    RowAsStored
    HandlesClosed
    InSync
