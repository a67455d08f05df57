SPECIFICATION Spec
CONSTANTS
    blocksize = 4
    maxblocks = 3
    CommandLines <- AllOptions
    Prealloc = {TRUE, FALSE}
    HoleKinds = {"none", "zeroed", "garbage"}
    Faults = {"none", "dropped", "shortened", "misplaced", "flag", "unflagged", "ghost"}
    SysFaults = TRUE
    RunsBound = 1
INVARIANTS
    NoFalseAlarm
    PassedIsMapped
PROPERTIES
    Ends
