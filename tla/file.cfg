\* Crashes, failed and torn writes, batches, a body that is not text; two goroutines.
SPECIFICATION Spec
CONSTANTS
    Procs = {p1, p2}
    NoProc = NoProc
    ShortURLs = {s1, s2}
    OriginalURLs = {raw, text, o1}
    NotUTF8 = {raw}
    Replaced = text
    AsText <- Coercion
    UserIDs = {u1, u2}
    Absent = Absent
    Torn = Torn
    WriteErrors = TRUE
    TornWrites = TRUE
    MaxBatch = 2
    MaxDeletes = 1
    MaxRecords = 2
    MaxCrashes = 2
SYMMETRY Symmetry
INVARIANTS
    TypeOK
    PromisesAreKept
    MapMatchesFile
    FailsForAReason
PROPERTY RefinesURLStore
