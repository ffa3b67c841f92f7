SPECIFICATION Spec
CONSTANTS
    Objects <- Pair
    Length <- Long
    BuffSize = 5
    USHRT_MAX = 4
    Slack = 1
    MayFail = {"sqluvint", "BSAQueryObject", "BSAGetObject", "BSAGetData", "sqluvend"}
INVARIANTS
    NothingSkipped
    RestoredIsWhole
PROPERTIES
    RestoreEnds
