--------------------------- MODULE MCRateLimiting ---------------------------
(* Two interchangeable checks of one client. *)
EXTENDS RateLimiting, TLC

Symmetry == Permutations(Checks)
=============================================================================
