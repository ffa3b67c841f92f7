SPECIFICATION Spec
CONSTANTS
    s1 = s1
    s2 = s2
    b1 = b1
    b2 = b2
    NoBuffer = NoBuffer
    Sessions <- TwoSessions
    Buffers <- TwoBuffers
    BuffSize = 5
    USHRT_MAX = 3
    Slack = 1
    MayFail <- Handled
INVARIANTS
    SuccessIsComplete
    NoSessionLeft
    DelOkMeansGone
PROPERTIES
    BackupConcludes
