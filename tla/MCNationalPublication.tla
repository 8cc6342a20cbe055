------------------------- MODULE MCNationalPublication -------------------------
(* Instances of NationalPublication for TLC. *)
EXTENDS NationalPublication, TLC

ValueSymmetry == Permutations(Sources) \cup Permutations(Contents)
=============================================================================
