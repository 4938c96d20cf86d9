------------------------------ MODULE MCSettler ------------------------------
(* Instances of Settler for TLC.                                           *)
EXTENDS Settler

CONSTANTS g1, g2, g3    \* goroutines sharing the delivery

MCCallers == {g1, g2, g3}
=============================================================================
