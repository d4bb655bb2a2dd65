CONSTANTS
    Ids = {1, 2, 3, 4}
    Calls <- MCCalls
    ModelOf <- MCModelOf
    QueryModel = "hashing"
    Tables <- MCTables
    RrfK = 60
    TopK = 3
    Scale <- MCScale
    DocOf <- MCDocOf
    Discount <- MCDiscount
SPECIFICATION SearchSpec
INVARIANTS
    OneHitPerChunk
    VectorsComparable
    FusionIsFair
    RankingMetricsSound
