---------------------------- MODULE MCEvidenceLog ----------------------------
(* EvidenceLog for TLC; the constants are given in the configuration.  No     *)
(* symmetry: the run checks liveness.                                         *)
EXTENDS EvidenceLog
=============================================================================
