SPECIFICATION Spec
CONSTANTS
    Paths = 3
    LogSets <- AllLogs
    BufferSize = 2
    Modulus = 16
    MayFail = {"init", "query", "read"}
INVARIANTS
    CompleteAtEnd
PROPERTIES
    MergeEnds
    DeliversInOrder
