SPECIFICATION Spec
CONSTANTS
    File <- MCFile
    MaxPackBytes = 3
    Wants = {1, 3}
    LooksAhead = TRUE
INVARIANT TypeOK QueueIsPending TellPts QueuesBounded
\* Both readers may be done, and a lock that is not given back stops the other.
CHECK_DEADLOCK FALSE
