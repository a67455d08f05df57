SPECIFICATION Spec
CONSTANTS
    MAXROUNDS = 2
    Pieces = 2
    Environments <- Environs
INVARIANTS
    NoFalseAlarm
    EvidenceKept
PROPERTIES
    CleansUp
