CONSTANTS
    Listings = {l1, l2}
    HeldAtStart = {l1, l2}
    MaxDay = 2
    MonthLength = 2
    FallbackMonths = 1
    Lookback = 2
    Figures = {1, 2}
    Handlers = {h1}
    Job = job
    Importers = {i1}
    MarkerDates = {2}
    HolidayDates = {2}
    MaxEdits = 2
SPECIFICATION Spec
INVARIANTS FreshIsTrue TrueUpPending CaughtUp
SYMMETRY Symmetry
CHECK_DEADLOCK FALSE
