------------------------------ MODULE Untapped ------------------------------
(***************************************************************************)
(* "Observation must not change delivery" (src/subutils/logging.go:54):    *)
(* the same pipeline without the taps of its buses.                        *)
(***************************************************************************)
EXTENDS Pipeline

Taps == {s \in Subscribers : Disposition[s] = "observed"}

Plain == INSTANCE Pipeline WITH
    Feeds <- [b \in Buses |-> Feeds[b] \ Taps],
    todo <- [h \in Hops |-> IF h \in Buses THEN todo[h] \ Taps ELSE todo[h]]

(* A bus that is asked, by PublishSync from a handler, has no tap that may *)
(* fail: a bare logger at most.                                            *)
NoFailingTapIsAsked ==
    \A s \in Subscribers : End[s].kind = "ask" =>
        \A r \in Feeds[End[s].bus] : End[r].kind # "observe"

(* Each step of the pipeline is one it could take without the taps of its  *)
(* buses, or none at all: the same messages reach the same subscribers,    *)
(* with the same answers and the same verdicts.  The taps of the buses may *)
(* fail as they like, but for those of a bus that is asked                 *)
(* (NoFailingTapIsAsked): their errors answer PublishSync, and what that   *)
(* changes is the finding TapsUnheard.                                     *)
TapsChangeNothing == Plain!Spec
=============================================================================
