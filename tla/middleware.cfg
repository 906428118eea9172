\* Two requests at a time, two gzip writers, handlers that may fail.
SPECIFICATION Spec
CONSTANTS
    Procs = {p1, p2}
    Methods = {get, post}
    Statuses = {201}
    Writers = {w1, w2}
    None = None
    Faults = TRUE
SYMMETRY Symmetry
INVARIANTS
    TypeOK
    ResponsesAreWhole
    
PROPERTY WarmCachesAreSafe
