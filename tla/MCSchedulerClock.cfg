SPECIFICATION BothSpec
CONSTANTS
    j1 = j1
    e1 = e1
    e2 = e2
    q1 = q1
    q2 = q2
    None = None
    Jobs = {j1}
    Entries = {e1, e2}
    EntryJob <- MCEntryJob
    Requests = {q1}
    HistoryLimit = 2
    MaxRunId = 4
    MaxBoots = 2
    MaxFaults = 1
    DayTicks = 8
    ClockDays = 3
    MaxSleep = 3
    MaxRuntime = 2
    Shifts <- ShiftSet
    ClockSteps <- StepSet
    MaxSteps = 1
SYMMETRY Symmetry
INVARIANT OpenRowsExplained
INVARIANT ScheduleRowsOwned
INVARIANT FinishFindsItsRow
INVARIANT HistoryBounded
INVARIANT LatestRowIsLatestRun
INVARIANT FiresOnceADay
INVARIANT OnlyStepsLoseOrRepeat
PROPERTY HistoryIsAppendOnly
PROPERTY ImplementsJobService
CHECK_DEADLOCK FALSE
