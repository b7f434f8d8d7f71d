CONSTANTS
    Id = {i1, i2, i3}
    i1 = i1
    i2 = i2
    i3 = i3
    NoPay = NoPay
    Mantissa = 4
    Point <- SomePoints
    Indexable <- SomeIndexes
    PageSize = 1
    MaxSlots = 4
    IdRank <- Ranks
    Filters <- SomeFilters
    AskedFilters <- AskedOnes
    Limits = {1, 2}
    SmallExactMax = 1
    PostfilterMinLive = 3
    FusionFetch = 1
    RrfK = 2
    Scale = 60
    Alphas = {1}
SPECIFICATION SearchSpec
INVARIANTS SearchFillsLimit PlannerMatchesScan HitsAsRanked
CONSTRAINT AskedOfTwo
