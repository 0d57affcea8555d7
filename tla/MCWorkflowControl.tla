--------------------------- MODULE MCWorkflowControl ---------------------------
(* WorkflowControl for TLC.  Requests are interchangeable; a run that checks  *)
(* liveness does without that symmetry.                                       *)
EXTENDS WorkflowControl, TLC

Symmetry == Permutations(Requests)
=============================================================================
