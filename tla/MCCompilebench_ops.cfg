SPECIFICATION Spec
CONSTANTS
    Options <- Everything
    RandomNames = {1, 100, 101}
    Leftovers = {}
INVARIANTS
    CleanFindsAll
    SizesOfDatasets
    UnpatchedExact
PROPERTIES
    MakejEnds
