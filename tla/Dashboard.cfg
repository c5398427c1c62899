CONSTANTS
    a = a  b = b  c1 = c1
    Nothing = Nothing
    Slots = {a, b}
    Windows = {7, 30}
    MaxRows = 1
    Credentials = {c1}
    Mishaps = 1
    Visits = 2
SPECIFICATION FairSpec
PROPERTIES FiguresAreTheOnesAsked ListShowsTheChange FeedCatchesUp
\* A page other than Live asks once and is done.
CHECK_DEADLOCK FALSE
