\* AddURL only, no torn writes: nothing but the mutex keeps original URLs
\* unique, and every call returns. No symmetry: CallsReturn is a liveness
\* property.
SPECIFICATION FairSpec
CONSTANTS
    Procs = {p1, p2}
    NoProc = NoProc
    ShortURLs = {s1, s2}
    OriginalURLs = {raw, text, o1}
    NotUTF8 = {raw}
    Replaced = text
    AsText <- Coercion
    UserIDs = {u1}
    Absent = Absent
    Torn = Torn
    WriteErrors = TRUE
    TornWrites = FALSE
    MaxBatch = 0
    MaxDeletes = 1
    MaxRecords = 2
    MaxCrashes = 1
INVARIANTS
    OriginalURLsAreUnique
    FailsOnlyForCoercedURLs
PROPERTY CallsReturn
