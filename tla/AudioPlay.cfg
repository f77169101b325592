SPECIFICATION PlaySpec
CONSTANTS
    Size = 12
    MinSize = 2
    FrameSize = 2
    Reserv = 1
    Outburst = 3
    Chunks = {2}
    FileUnits = 18
    Reads <- MCReads
INVARIANT TypeOK
PROPERTY HeardInOrder EndWakesReader
\* The program stops, and main may wait for a thread that cannot answer.
CHECK_DEADLOCK FALSE
