SPECIFICATION Spec
CONSTANTS
    Options <- Short
    RandomNames = {100}
    Leftovers = {}
INVARIANTS
    PatchedExact
