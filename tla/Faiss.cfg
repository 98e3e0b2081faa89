CONSTANTS
    w1 = w1
    w2 = w2
    p1 = p1
    p2 = p2
    nobody = nobody
    Workers = {w1}
    People = {p1, p2}
    MaxId = 3
    MaxBatch = 1
    MaxExport = 2
    Foreign <- OtherSite
    Nil = nobody
SPECIFICATION Spec
INVARIANTS
    TypeOK
    MapsMatch
    NamesTheirOwner
    SavedChangesSurvive
