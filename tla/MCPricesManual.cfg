CONSTANTS
    MaxDay = 2
    Figures = {1}
    Handlers = {h1}
    Job = job
    Lookback = 2
    SplitDates = {}
    DemergerDates = {}
    MarkerDates = {}
    HolidayDates = {}
    MaxEdits = 2
SPECIFICATION Spec
PROPERTY ManualOnlyByManual
CHECK_DEADLOCK FALSE
