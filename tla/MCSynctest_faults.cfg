SPECIFICATION Spec
CONSTANTS
    WRITE_MIN = 10
    WRITE_MAX = 11
    RENAME_PASSES = 2
    n_threads = 3
    threads_per_dir = 2
    n_iters = 2
    do_unlink = TRUE
    N_FILES = 2
    UNLINK_LAG = 1
    FD_LIMIT = 6
    BadChildren = {1}
    ForkFaults = {0, 1}
    ParentFaults = TRUE
    Leftovers = {1}
INVARIANTS
    CountExact
    CleanupExact
    HealthyChildrenSucceed
    FilesExact
PROPERTIES
    RemovedWhenCounted
    ImplementsForkJoin
