SPECIFICATION Spec
CONSTANTS
    blocksize = 4
    maxblocks = 4
    CommandLines <- OneRun
    Prealloc = {TRUE}
    HoleKinds = {"none"}
    Faults = {"none", "unflagged"}
    SysFaults = FALSE
    RunsBound = 1
INVARIANTS
    PassedIsUnwritten
