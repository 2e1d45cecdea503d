---------------------------- MODULE MCRowCaches -----------------------------
(* Instances of RowCaches for TLC. *)
EXTENDS RowCaches, TLC

Symmetry == Permutations(Readers) \cup Permutations(Writers)
=============================================================================
