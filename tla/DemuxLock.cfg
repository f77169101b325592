SPECIFICATION ReadSpec
CONSTANTS
    File <- MCFile
    MaxPackBytes = 5
    Wants = {1, 3}
    LooksAhead = FALSE
PROPERTY CallsGetIn
\* Both readers may be done, and a lock that is not given back stops the other.
CHECK_DEADLOCK FALSE
