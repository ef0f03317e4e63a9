SPECIFICATION JobsSpec
CONSTANTS
    MaxStamp = 5
    MonthLength = 2
    KeepRecent = 1
    KeepMonthly = 2
    KeepBad = 1
    MaxFaults = 2
    MaxCrashes = 2
    AlertListings = {l1, l2}
    AlertDays = 3
    Closes = {0, 10, 11}
    AlertPct = 10
    MaxAlertEdits = 3
    MaxMailFaults = 1
INVARIANTS
    InstalledSound
    HistoryKept
    LogMatchesMail
PROPERTIES
    NothingLost
    BoundedByPruning
    MoveGetsLogged
CHECK_DEADLOCK FALSE
