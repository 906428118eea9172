\* Two requests at a time, batches of up to two, distinct short URLs.
SPECIFICATION Spec
CONSTANTS
    Procs = {p1, p2}
    ShortURLs = {s1, s2}
    OriginalURLs = {o1, o2}
    UserIDs = {u1, u2}
    Absent = Absent
    MaxBatch = 2
    IDsCollide = FALSE
SYMMETRY Symmetry
INVARIANTS
    TypeOK
    AddURLReportsDuplicates
    BatchResolves
    DeleteTakesEffect
    ListingIsAccurate
PROPERTIES
    OnlyOwnersDelete
    RefinesURLStore
