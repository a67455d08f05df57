SPECIFICATION Spec
CONSTANTS
    Settings <- AllSettings
INVARIANTS
    NoFalseAlarm
    NothingMissed
PROPERTIES
    StopsTogether
