\* One user and additions: who waits for whose transaction, and who for a connection.
SPECIFICATION FairSpec
CONSTANTS
    Procs = {p1, p2}
    ShortURLs = {s1, s2}
    OriginalURLs = {o1, o2}
    UserIDs = {u1}
    Absent = Absent
    MaxConns = 2
    MaxBatch = 2
    MaxDeletes = 0
    Faults = TRUE
PROPERTIES
    CallsReturn
