\* The compared field does not wrap within the bound: one hour is one minute.
CONSTANTS
    main = main
    t1 = t1
    Threads <- MCThreads
    Main <- main
    Rotation = "hourly"
    MinutesPerHour = 1
    HoursPerDay = 24
    DaysPerMonth = 30
    MaxTime = 3
    MaxLines = 3
SPECIFICATION Spec
PROPERTIES
    SkippedOnlyIfDone
