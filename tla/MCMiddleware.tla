---------------------------- MODULE MCMiddleware ----------------------------
EXTENDS Middleware

Symmetry == Permutations(Procs) \cup Permutations(Methods) \cup Permutations(Writers)
=============================================================================
