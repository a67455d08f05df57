SPECIFICATION ToolsSpec
CONSTANTS
    Flags = {"NOCOW", "NOCOMP", "NODUMP"}
    Inodes = {"f", "g"}
    Runs = {1, 2}
    Calls <- AllCalls
    OPEN_MAX = 1
    Contents <- SmallContents
    bs = 2
    Users = {"a", "b", "c"}
    FileCounts = {1, 2, 3}
    NUM_START_FILES = 2
    NUM_FILES = 2
    Before <- AnyBefore
    Hammers = {"a", "b", "c"}
    nconcurrent = 3
    maxrounds = 2
    Settings <- AllSettings
    Commits = 3
    Histories <- RowAndBranches
    syncafter = 0
    maxcount = 2
    Crashes = 2
    Creators = {"new"}
    Deleters = {"rm", "rm2"}
    Randoms = {1, 2}
    Counted = 3
    Layouts <- AllLayouts
INVARIANTS
    ChangesStick
    NoneLeftOut
    CopyExact
    LeavesNothing
    CleansItsOwn
    RemovesOwn
    UnlockedWork
    AtRest
    NoneSkipped
    FailsForCause
PROPERTIES
    AllStopWithZ
