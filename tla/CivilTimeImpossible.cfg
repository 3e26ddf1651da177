\* A line's date is read once.
CHECK_DEADLOCK FALSE
SPECIFICATION LineSpec
CONSTANTS
    MinYear = 1
    MaxYear = 9999
    None = None
INVARIANT OnlyRealDates
