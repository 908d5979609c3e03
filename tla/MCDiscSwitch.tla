---------------------------- MODULE MCDiscSwitch ----------------------------
(* Finite instances of DiscSwitch.                                         *)
EXTENDS DiscSwitch
=============================================================================
