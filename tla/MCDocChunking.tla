---------------------------- MODULE MCDocChunking ----------------------------
(* Instance of DocChunking for TLC. *)
EXTENDS DocChunking, TLC

MCTask == (1..MaxRuns) \X (1..Parts)
WorkerSymmetry == Permutations(Worker)
=============================================================================
