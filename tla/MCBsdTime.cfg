\* A log has an end.
CHECK_DEADLOCK FALSE
SPECIFICATION BSpec
CONSTANTS
    MinYear = 1590
    MaxYear = 2410
    LogYears = {1903, 1904, 1999, 2000, 2003, 2036}
    MaxSpan = 400
    None = None
INVARIANTS
    DaysAreCalendar
    StampsInReferenceYear
    IntervalsKept
    BackwardsOnlyOverNewYear
