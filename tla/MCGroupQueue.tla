---------------------------- MODULE MCGroupQueue ----------------------------
(* Instances of GroupQueue for TLC.                                        *)
EXTENDS GroupQueue, TLC

Symmetry == Permutations(Groups) \cup Permutations(Tasks)
=============================================================================
