---------------------------- MODULE MCNandDriver ----------------------------
(* Finite instances of NandDriver; tags are only compared for equality.    *)
EXTENDS NandDriver, TLC

TagSymmetry == Permutations(Tags)
=============================================================================
