------------------------------- MODULE MCOta --------------------------------
(* Ota for TLC.                                                            *)
EXTENDS Ota, TLC

Symmetry == Permutations(Registered) \cup Permutations(Workers)
=============================================================================
