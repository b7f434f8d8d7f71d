CONSTANTS
    c1 = c1
    c2 = c2
    c3 = c3
    i1 = i1
    i2 = i2
    Name = {c1, c2, c3}
    Starts <- SomeStarts
    Servers <- SomeServers
    NewPoints <- SomePoints
    NewIndexes <- SomeIndexes
    Built = {"bm25", "svd"}
    Aspects = {"provider", "compression", "created", "aliases", "vocab", "points", "policies"}
    MaxOps = 4
    MaxCrashes = 1
SPECIFICATION Spec
INVARIANTS NothingLostSilently OwnArchivesImport
CHECK_DEADLOCK FALSE
