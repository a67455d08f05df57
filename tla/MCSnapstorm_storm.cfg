SPECIFICATION Spec
CONSTANTS
    nr_threads = 2
    opt_readonly = FALSE
    options = FALSE
    CreateFaults = {1}
    SourceKinds = {"subvol", "dir", "missing"}
    FD_LIMIT = 2
    MayCrash = TRUE
    Main = Main
    NoOne = NoOne
INVARIANTS
    CountersExact
    FdsExact
PROPERTIES
    ImplementsBarrier
    Completes
