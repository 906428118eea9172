SPECIFICATION Spec
CONSTANTS
    Procs = {p1}
    ShortURLs = {s1}
    OriginalURLs = {o1}
    UserIDs = {u1}
    Absent = Absent
    MaxConns = 1
    MaxBatch = 1
    MaxDeletes = 1
    Faults = TRUE
INVARIANT GetOriginalURLAnswersTruly
