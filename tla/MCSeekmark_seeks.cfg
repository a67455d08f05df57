SPECIFICATION Spec
CONSTANTS
    Args <- CommandLines
    Files <- AllFiles
    MaxBlock = 8
    MaxLen = 6
INVARIANTS
    IOInside
    SeeksExact
