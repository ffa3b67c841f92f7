SPECIFICATION Spec
CONSTANTS
    Total = 3
    Subs <- AllSubs
    Throttles = {0, 1, 2}
    MayDie = TRUE
    ForkMayFail = TRUE
    MayHang = TRUE
    MayTimeOut = TRUE
INVARIANTS
    ThrottleKept
    ReturnsAfterTheLast
    ResultsAreOwn
    SubroutineErrorsCounted
PROPERTIES
    Returns
    KillEnds
CHECK_DEADLOCK FALSE
