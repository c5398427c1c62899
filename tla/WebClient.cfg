CONSTANTS
    Nothing = Nothing
    MaxTurns = 2
    MaxSessions = 2
    Prices = {1, 3}
    SpendCap = 2
    Mishaps = 1
    Visits = 2
SPECIFICATION FairSpec
INVARIANTS ReceiptIsTrue
PROPERTIES DroppedWindsDown NothingHangs
\* The user may stop, with everything answered.
CHECK_DEADLOCK FALSE
