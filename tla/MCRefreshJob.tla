----------------------------- MODULE MCRefreshJob -----------------------------
(* Instances of RefreshJob for TLC. *)
EXTENDS RefreshJob, TLC

JobSymmetry == Permutations(Jobs)
=============================================================================
