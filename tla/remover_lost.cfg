\* A store without errors, one deletion, one signal.
SPECIFICATION Spec
CONSTANTS
    Requests = {r1}
    Nothing = Nothing
    StoreErrors = FALSE
CHECK_DEADLOCK FALSE
INVARIANT AcceptedDeletionsHappen
