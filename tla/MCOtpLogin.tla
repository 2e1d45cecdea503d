----------------------------- MODULE MCOtpLogin -----------------------------
(* Instances of OtpLogin for TLC. *)
EXTENDS OtpLogin, TLC

CONSTANTS d1

\* All accounts under one slug.
OneSlug == [a \in Accounts |-> d1]

Symmetry == Permutations(Otps) \cup Permutations(Calls)
              \cup Permutations(Accounts) \cup Permutations(Codes)

=============================================================================
