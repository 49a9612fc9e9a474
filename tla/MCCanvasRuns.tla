---------------------------- MODULE MCCanvasRuns ----------------------------
(* CanvasRuns with interchangeable runs and sessions. *)
EXTENDS CanvasRuns, TLC

CanvasSymmetry == Permutations(Run) \cup Permutations(Session)
=============================================================================
