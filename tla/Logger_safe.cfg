\* Two minutes in an hour and two hours in a day: the compared field wraps.
CONSTANTS
    main = main
    t1 = t1
    Threads <- MCThreads
    Main <- main
    Rotation = "hourly"
    MinutesPerHour = 2
    HoursPerDay = 2
    DaysPerMonth = 2
    MaxTime = 3
    MaxLines = 3
SPECIFICATION FairSpec
INVARIANTS
    NoLineLost
PROPERTIES
    ShutdownCompletes
    ImplementsLineLog
