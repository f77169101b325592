SPECIFICATION SeekSpec
CONSTANTS
    Size = 12
    MinSize = 2
    FrameSize = 2
    Reserv = 1
    Outburst = 3
    Chunks = {2}
    FileUnits = 6
    Reads <- MCReads
PROPERTY PlayerAcksSleep
\* The program stops, and main may wait for a thread that cannot answer.
CHECK_DEADLOCK FALSE
