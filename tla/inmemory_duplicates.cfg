\* Two concurrent AddURL calls and no batches.
SPECIFICATION Spec
CONSTANTS
    Procs = {p1, p2}
    ShortURLs = {s1, s2}
    OriginalURLs = {o1}
    UserIDs = {u1, u2}
    Absent = Absent
    MaxBatch = 0
    IDsCollide = FALSE
INVARIANT OriginalURLsAreUnique
