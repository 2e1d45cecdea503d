-------------------------- MODULE MCRefreshRotation --------------------------
(* Instances of RefreshRotation for TLC. *)
EXTENDS RefreshRotation, TLC

CONSTANTS u1

\* All sessions belong to one user, so that revoke-all reaches every one.
OneOwner == [s \in Sessions |-> u1]

Symmetry == Permutations(Tokens) \cup Permutations(Requests)
              \cup Permutations(Sessions)

=============================================================================
