\* Two browsers, two answers on their way, tokens that expire, a body that is
\* not text and what JSON and http.Redirect make of it.
SPECIFICATION Spec
CONSTANTS
    Browsers = {b1, b2}
    OriginalURLs = {raw, text}
    NoURL = NoURL
    NotUTF8 = {raw}
    Replaced = text
    AsText <- Coercion
    Verbatim = {text}
    Location <- Rewriting
    UserIDs = {u1, u2}
    IDs = {0, 2}
    AlphabetLen = 2
    Absent = Absent
    Nothing = Nothing
    MaxCount = 2
    TokenExp = 1
    MaxTime = 1
    MaxInFlight = 2
    Faults = TRUE
SYMMETRY Symmetry
INVARIANTS
    TypeOK
    AnswersAreTrue
    OwnURLsOnly
    DeletedIsGone
    
