SPECIFICATION PlaySpec
CONSTANTS
  NFrames = 4
  UIntRange = 16
  FileFrames = 6
INVARIANT TypeOK
INVARIANT NoTearing
INVARIANT OnlyDecodedShown
INVARIANT DurationsSettled
INVARIANT StoppedThreadsGone
PROPERTY PlaysInOrder
PROPERTY DecoderFinishes
PROPERTY AcksCancel
\* The program stops, and main may wait for a thread that has left.
CHECK_DEADLOCK FALSE
