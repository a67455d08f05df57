SPECIFICATION Spec
CONSTANTS
    Args <- NonRandom
    Files <- SoundFiles
    MaxBlock = 8
    MaxLen = 6
INVARIANTS
    FilledAsAsked
