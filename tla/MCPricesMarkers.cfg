CONSTANTS
    MaxDay = 3
    Figures = {1}
    Handlers = {h1}
    Job = job
    Lookback = 2
    SplitDates = {}
    DemergerDates = {}
    MarkerDates = {2, 3}
    HolidayDates = {2}
    MaxEdits = 2
SPECIFICATION FairSpec
INVARIANTS ProviderKeepsOut
PROPERTY GapsFilled
CHECK_DEADLOCK FALSE
