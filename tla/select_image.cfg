SPECIFICATION Spec
CONSTANTS
    None = None
    Catalogs <- FullAndTSP
    Requests <- AnyRequest
    Node = 0
    DBKinds <- FULL
    TSPKinds <- TSP
    Rank <- NameRank
    Length <- NameLength
    Unit <- LastDigit
    MayFail = {"BSAQueryObject", "countNext"}
INVARIANTS
    LatestSelected
    CountsTheImage
    RefusedOnlyIfAmbiguous
