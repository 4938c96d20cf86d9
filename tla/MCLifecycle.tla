----------------------------- MODULE MCLifecycle -----------------------------
(* Instances of Lifecycle for TLC.                                         *)
EXTENDS Lifecycle

CONSTANTS g1, g2, g3    \* goroutines that start and stop the bus

MCGoroutines == {g1, g2, g3}
=============================================================================
