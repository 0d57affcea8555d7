----------------------- MODULE MCProcessStateListener -----------------------
(***************************************************************************)
(* ProcessStateListener for TLC: processes are interchangeable.            *)
(***************************************************************************)
EXTENDS ProcessStateListener, TLC

Symmetry == Permutations(Processes)
=============================================================================
