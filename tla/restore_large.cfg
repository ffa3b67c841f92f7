SPECIFICATION Spec
CONSTANTS
    Objects <- Pair
    Length <- Within
    BuffSize = 5
    USHRT_MAX = 4
    Slack = 1
    MayFail = {}
PROPERTIES
    RestoreEnds
