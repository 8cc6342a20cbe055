---------------------------- MODULE MCArtifactBuild ----------------------------
(* Instances of ArtifactBuild for TLC. *)
EXTENDS ArtifactBuild, TLC

BuilderSymmetry == Permutations(Builders)
=============================================================================
