------------------------------ MODULE MCMetrics ------------------------------
(* Constants and symmetry for model checking Metrics. *)
EXTENDS Metrics, TLC

MCBounds == <<1, 3>>

MCSymmetry == Permutations(Goroutines)
=============================================================================
