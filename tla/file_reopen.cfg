\* One batch, no write ever fails: the process is stopped and started again.
SPECIFICATION Spec
CONSTANTS
    Procs = {p1}
    NoProc = NoProc
    ShortURLs = {s1, s2}
    OriginalURLs = {o1}
    NotUTF8 = {}
    Replaced = o1
    AsText <- Coercion
    UserIDs = {u1}
    Absent = Absent
    Torn = Torn
    WriteErrors = FALSE
    TornWrites = FALSE
    MaxBatch = 2
    MaxDeletes = 0
    MaxRecords = 1
    MaxCrashes = 1
INVARIANT StoreReopens
