----------------------------- MODULE MCEvalRun ------------------------------
(* A negative threshold, and none, for which the code takes an ordinary one. *)
EXTENDS EvalRun

MCRequested == {-1, 0}
=============================================================================
