\* Three processes one after another, two deletions. The last process may end:
\* that is the deadlock TLC is told not to report. No symmetry: liveness.
SPECIFICATION ServiceSpec
CONSTANTS
    Requests = {r1, r2}
    Nothing = Nothing
    StoreErrors = TRUE
    Malformed = Malformed
    NoFile = NoFile
    Torn = Torn
    Settings <- SettingsCases
    LastVersion = 3
    MaxStarts = 3
CHECK_DEADLOCK FALSE
INVARIANTS
    ServiceTypeOK
    StrongestSourceWins
    StartsRecover
    NobodyIsRefused
PROPERTIES
    AcceptedReachTheStore
    ShutdownEnds
