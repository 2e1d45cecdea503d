-------------------------- MODULE MCSecurityMonitor --------------------------
(* Instances of SecurityMonitor for TLC. *)
EXTENDS SecurityMonitor

CONSTANTS k1, k2, k3

\* A key of a sensitive type, two of a more patient one.
MCLimit == [k \in Keys |-> IF k = k1 THEN 1 ELSE 2]
=============================================================================
