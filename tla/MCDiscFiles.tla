----------------------------- MODULE MCDiscFiles ----------------------------
(* Finite instances of DiscFiles; data files are alike.                    *)
EXTENDS DiscFiles, TLC

NameSymmetry == Permutations(Names)

(* One disc has no apploader: selecting it fails.                          *)
OneDiscMissing == {<<"brokenDisc", "sys">>}
=============================================================================
