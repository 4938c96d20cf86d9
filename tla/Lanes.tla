-------------------------------- MODULE Lanes --------------------------------
(***************************************************************************)
(* What an asynchronous subscriber promises about order                    *)
(* (src/subutils/async.go, WithPartitions): each message it accepts runs   *)
(* in a lane, the lanes run concurrently, and within a lane messages run   *)
(* one at a time, in the order they were accepted, each at most once.      *)
(* Partitions, queues, goroutines and shutdown are no part of the promise. *)
(***************************************************************************)
EXTENDS Naturals, Sequences

CONSTANTS Messages, LaneIds

VARIABLES
    accepted,   \* the messages accepted so far, in order, with their lanes
    working,    \* those being run
    finished    \* those that have run

vars == <<accepted, working, finished>>

Entries == [message : Messages, lane : LaneIds]

Init == accepted = <<>> /\ working = {} /\ finished = {}

Accept(m, l) ==
    /\ \A i \in DOMAIN accepted : accepted[i].message # m
    /\ accepted' = Append(accepted, [message |-> m, lane |-> l])
    /\ UNCHANGED <<working, finished>>

\* The i-th message runs when those before it in its lane have run.
Begin(i) ==
    /\ accepted[i].message \notin working \union finished
    /\ \A j \in 1..(i - 1) :
          accepted[j].lane = accepted[i].lane => accepted[j].message \in finished
    /\ working' = working \union {accepted[i].message}
    /\ UNCHANGED <<accepted, finished>>

End(m) ==
    /\ m \in working
    /\ working' = working \ {m}
    /\ finished' = finished \union {m}
    /\ UNCHANGED accepted

Next ==
    \/ \E m \in Messages, l \in LaneIds : Accept(m, l)
    \/ \E i \in DOMAIN accepted : Begin(i)
    \/ \E m \in Messages : End(m)

Spec == Init /\ [][Next]_vars
=============================================================================
