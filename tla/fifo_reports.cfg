SPECIFICATION FifoSpec
CONSTANTS
    Total = 2
    Lines = 2
    MayDie = TRUE
    ForkMayFail = TRUE
INVARIANTS
    ReportsWhole
PROPERTIES
    ReturnsUndisturbed
CHECK_DEADLOCK FALSE
