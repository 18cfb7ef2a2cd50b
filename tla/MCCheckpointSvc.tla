--------------------------- MODULE MCCheckpointSvc ---------------------------
(* Settings for model checking CheckpointSvc: each source has its own key,   *)
(* is missing or is unusable.                                                *)
EXTENDS CheckpointSvc, TLC

CONSTANTS k1, k2, k3

MCSettings ==
  {s \in Setting :
     /\ s.kms \in {k1, Missing, Bad}
     /\ s.env \in {k2, Missing, Bad}
     /\ s.file \in {k3, Missing, Bad}}

MCSymmetry == Permutations(Clients)
=============================================================================
