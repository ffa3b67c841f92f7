SPECIFICATION CatalogSpec
CONSTANTS
    b1 = b1
    b2 = b2
    NoBuffer = NoBuffer
    None = None
    Sessions = {1, 2}
    Buffers <- TwoBuffers
    BuffSize = 2
    USHRT_MAX = 3
    Slack = 1
    Backups = 2
    Kind = "FULL"
    Node = 0
    Others <- OtherPartition
    Catalogs <- WholeCatalog
    DBKinds = {"FULL"}
    TSPKinds = {}
    Requests <- NoneOrFirst
    Rank <- NameRank
    Length <- NameLength
    Unit <- LastDigit
    BackupMayFail <- SomeFail
    MayFail = {"BSAQueryObject", "countNext"}
INVARIANTS
    ChosenIsComplete
