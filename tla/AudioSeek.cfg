SPECIFICATION SeekSpec
CONSTANTS
    Size = 5
    MinSize = 1
    FrameSize = 1
    Reserv = 1
    Outburst = 1
    Chunks = {1}
    FileUnits = 3
    Reads <- MCShortReads
INVARIANT SeekExclusive
\* The program stops, and main may wait for a thread that cannot answer.
CHECK_DEADLOCK FALSE
