--------------------------- MODULE MCEvidencePackage ---------------------------
(* Instances of EvidencePackage for TLC. *)
EXTENDS EvidencePackage, TLC

PackagerSymmetry == Permutations(Packagers)
=============================================================================
