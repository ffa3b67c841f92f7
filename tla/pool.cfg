SPECIFICATION Spec
CONSTANTS
    Contexts = 2
    Loops = 3
    Commit = TRUE
    Answers <- NoWarning
INVARIANTS
    PickInBounds
    ContextsExclusive
    NoLostWakeup
    TruthfulStatus
PROPERTIES
    OnlyOwnerSettles
    ImplementsPool
