SPECIFICATION Spec
CONSTANTS
    BufSize = 4
    UIntRange = 6
    Outburst = 3
    ABufSize = 3
    NFrames = {2}
    FileUnits = 7
    MaxSeeks = 1
    HasVideo = TRUE
INVARIANTS TypeOK FifoSound HeardInOrder ResetAlone
PROPERTIES PauseHolds StopEnds ResumeWakes
CHECK_DEADLOCK FALSE
