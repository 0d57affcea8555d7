------------------------ MODULE MCEnvironmentVariables ------------------------
(* Small instances of EnvironmentVariables. *)
EXTENDS EnvironmentVariables, TLC

CONSTANTS k1, k2, v1, v2

\* The server's own environment has k1.
Environment == [k \in Keys |-> IF k = k1 THEN v1 ELSE NoValue]

Symmetry == Permutations(Requests)
=============================================================================
