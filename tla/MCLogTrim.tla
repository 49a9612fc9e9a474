------------------------------ MODULE MCLogTrim ------------------------------
(* Instance of LogTrim for TLC. *)
EXTENDS LogTrim, TLC

WorkerSymmetry == Permutations(Worker)
=============================================================================
