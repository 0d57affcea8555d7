-------------------------- MODULE MCProcessControl --------------------------
(* Small instances of ProcessControl. *)
EXTENDS ProcessControl, TLC

CONSTANTS p1, p2, n1, n2

\* p2's blueprint knows one node p1's does not.
Blueprints == [p \in Processes |-> IF p = p1 THEN {n1} ELSE {n1, n2}]

Symmetry == Permutations(Requests)
=============================================================================
