\* Two calls at a time on a pool of two connections; short URLs may repeat.
SPECIFICATION Spec
CONSTANTS
    Procs = {p1, p2}
    ShortURLs = {s1, s2}
    OriginalURLs = {o1, o2}
    UserIDs = {u1, u2}
    Absent = Absent
    MaxConns = 2
    MaxBatch = 2
    MaxDeletes = 2
    Faults = TRUE
SYMMETRY Symmetry
INVARIANTS
    TypeOK
    AddsAnswerTruly
    DeleteTakesEffect
PROPERTIES
    CallsAreAtomic
    RefinesTransactionalURLStore
