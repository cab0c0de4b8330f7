\* Two requests in flight; a session lives for two seconds.
CONSTANTS
    r1 = r1
    r2 = r2
    home = home
    away = away
    Requests <- MCRequests
    Origins <- MCOrigins
    Validate = TRUE
    ExpirySec = 2
    UpdateSec = 2
    MaxTime = 4
SPECIFICATION Spec
SYMMETRY MCSymmetry
INVARIANTS
    IdleExpires
    StaysSignedIn
    SignOutHolds
