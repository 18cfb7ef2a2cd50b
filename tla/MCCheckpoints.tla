---------------------------- MODULE MCCheckpoints ----------------------------
(* Instances of Checkpoints for TLC (symmetry only where no liveness is       *)
(* checked).                                                                 *)
EXTENDS Checkpoints, TLC

MCSymmetry == Permutations(Ids) \cup Permutations(Builders)
=============================================================================
