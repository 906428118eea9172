--------------------------- MODULE MCFileURLStore ---------------------------
(***************************************************************************)
(* Instances of FileURLStore for TLC.  Bodies that are not UTF-8 become    *)
(* one and the same text.                                                  *)
(***************************************************************************)
EXTENDS FileURLStore

CONSTANTS NotUTF8,  \* original URLs that are not text
          Replaced  \* the original URL they are in the file

Coercion == [o \in OriginalURLs |-> IF o \in NotUTF8 THEN Replaced ELSE o]

\* Original URLs are not interchangeable. Used by the runs without liveness.
Symmetry == Permutations(Procs) \cup Permutations(ShortURLs) \cup Permutations(UserIDs)
=============================================================================
