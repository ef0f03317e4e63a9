CONSTANTS
    MaxDay = 3
    Figures = {1}
    Handlers = {h1}
    Job = job
    Lookback = 2
    SplitDates = {3}
    DemergerDates = {3}
    MarkerDates = {}
    HolidayDates = {}
    MaxEdits = 3
SPECIFICATION Spec
INVARIANTS BasisSettles
CHECK_DEADLOCK FALSE
