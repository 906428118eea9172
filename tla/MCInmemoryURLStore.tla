------------------------ MODULE MCInmemoryURLStore ------------------------
(***************************************************************************)
(* Instances of InmemoryURLStore for TLC.  The goroutines, short URLs,     *)
(* original URLs and users are interchangeable: nothing but equality is    *)
(* asked of them, and no property checked here is a liveness property.     *)
(***************************************************************************)
EXTENDS InmemoryURLStore

Symmetry ==
    Permutations(Procs) \cup Permutations(ShortURLs)
        \cup Permutations(OriginalURLs) \cup Permutations(UserIDs)
=============================================================================
