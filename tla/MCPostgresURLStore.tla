------------------------- MODULE MCPostgresURLStore -------------------------
(***************************************************************************)
(* Instances of PostgresURLStore for TLC.  Symmetry is used for the safety *)
(* properties only.                                                        *)
(***************************************************************************)
EXTENDS PostgresURLStore

Symmetry ==
    Permutations(Procs) \cup Permutations(ShortURLs)
        \cup Permutations(OriginalURLs) \cup Permutations(UserIDs)
=============================================================================
