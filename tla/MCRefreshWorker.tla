--------------------------- MODULE MCRefreshWorker ----------------------------
(* Instances of RefreshWorker for TLC. *)
EXTENDS RefreshWorker, TLC

JobSymmetry == Permutations(Jobs)
=============================================================================
