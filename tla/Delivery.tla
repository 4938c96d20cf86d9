------------------------------ MODULE Delivery ------------------------------
(***************************************************************************)
(* What a Settler promises about one inbound delivery (the doc of the      *)
(* Settler interface in src/settler.go): whoever wants to settle it first  *)
(* takes it, at most one caller holds it at a time, a holder may give it   *)
(* back undecided, and once one holder has decided it the decision stays.  *)
(*                                                                         *)
(* Module Settler is checked, and proved, to implement this module.        *)
(***************************************************************************)
CONSTANTS Callers           \* those that may settle the delivery

VARIABLES
    outcome,    \* what was decided: "open" until somebody decides
    holders     \* the callers now trying to settle it, at most one

vars == <<outcome, holders>>

Verdicts == {"ack", "nack"}

Init ==
    /\ outcome = "open"
    /\ holders = {}

Take(c) ==
    /\ outcome = "open"
    /\ holders = {}
    /\ holders' = {c}
    /\ UNCHANGED outcome

GiveUp(c) ==
    /\ holders = {c}
    /\ holders' = {}
    /\ UNCHANGED outcome

Decide(c, v) ==
    /\ outcome = "open"
    /\ holders = {c}
    /\ holders' = {}
    /\ outcome' = v

Next == \E c \in Callers :
    \/ Take(c)
    \/ GiveUp(c)
    \/ \E v \in Verdicts : Decide(c, v)

Spec == Init /\ [][Next]_vars
=============================================================================
