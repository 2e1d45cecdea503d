---------------------------- MODULE MCEventChain ----------------------------
(* Instances of EventChain for TLC. *)
EXTENDS EventChain, TLC

Symmetry == Permutations(Writers)

=============================================================================
