-------------------------- MODULE MCActivityControl --------------------------
(* Small instances of ActivityControl. *)
EXTENDS ActivityControl, TLC

CONSTANTS p1, p2, m1, m2, m3

\* m1 and m2 are two user tasks of one process.
Owners == [m \in Managers |-> IF m = m3 THEN p2 ELSE p1]

\* m1's input names both a session and an actor.
Audiences == [m \in Managers |-> IF m = m1 THEN {"session", "actor"}
                                 ELSE IF m = m2 THEN {"actor"} ELSE {}]

Symmetry == Permutations(Requests)
=============================================================================
