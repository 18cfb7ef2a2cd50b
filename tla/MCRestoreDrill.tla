---------------------------- MODULE MCRestoreDrill ----------------------------
(* RestoreDrill for TLC; the constants are given in the configuration.        *)
EXTENDS RestoreDrill
=============================================================================
