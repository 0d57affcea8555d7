------------------------------- MODULE MCReads -------------------------------
(* Reads for TLC: a process and its child. *)
EXTENDS Reads

CONSTANTS parent, child

Parents == [p \in Processes |-> IF p = child THEN parent ELSE NoParent]
=============================================================================
