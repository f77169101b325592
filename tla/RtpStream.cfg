SPECIFICATION Spec
CONSTANTS
    MaxPackets = 8
    SeqRange = 100
    Bases <- MCBases
    Jumps <- MCJumps
    Packets = 9
    Window = 3
    MaxFaults = 3
INVARIANTS TypeOK SlotsHoldTheirs InOrder CalmIsComplete
CHECK_DEADLOCK FALSE
