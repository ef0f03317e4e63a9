SPECIFICATION Spec
CONSTANTS
    MaxStamp = 4
    MonthLength = 2
    KeepRecent = 1
    KeepMonthly = 2
    KeepBad = 1
    MaxFaults = 3
    MaxCrashes = 0
INVARIANTS
    QuarantineBounded
CHECK_DEADLOCK FALSE
