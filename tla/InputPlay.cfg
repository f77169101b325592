SPECIFICATION Spec
CONSTANTS
    QueueSize = 2
    MaxKeyDown = 2
    Keys = {"p", "s"}
    WindowKeys = {"p", "q", "click"}
    NoRepeatKeys = {"click"}
    Binds <- MCBinds
    FileCommands = {"quit"}
    MaxEvents = 4
    MaxRepeats = 2
INVARIANTS TypeOK QueueInOrder NothingLost TakesWhatItSaw RepeatsWhatIsHeld
PROPERTY QuitStops
CHECK_DEADLOCK FALSE
