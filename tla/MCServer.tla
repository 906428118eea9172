------------------------------ MODULE MCServer ------------------------------
(***************************************************************************)
(* Instances of Server for TLC.  A URL that http.Redirect does not leave   *)
(* alone becomes a location that is no URL of the instance.                *)
(***************************************************************************)
EXTENDS Server

CONSTANTS NotUTF8,  \* URLs that are not text
          Replaced, \* the text they become
          Verbatim  \* URLs that http.Redirect leaves as they are

Coercion == [url \in OriginalURLs |-> IF url \in NotUTF8 THEN Replaced ELSE url]

Rewriting ==
    [url \in OriginalURLs \cup {NoURL} |-> IF url \in Verbatim THEN url ELSE <<"/", url>>]

\* URLs are not interchangeable.
Symmetry == Permutations(Browsers) \cup Permutations(UserIDs)
=============================================================================
