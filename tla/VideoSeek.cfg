SPECIFICATION SeekSpec
CONSTANTS
  NFrames = 3
  UIntRange = 16
  FileFrames = 3
INVARIANT SeekExclusive
PROPERTY AcksSleep
\* The program stops, and main may wait for a thread that has left.
CHECK_DEADLOCK FALSE
