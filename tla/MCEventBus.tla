----------------------------- MODULE MCEventBus -----------------------------
(* Instances of EventBus for TLC.                                          *)
EXTENDS EventBus, TLC

CONSTANTS
    c1, c2, c3,                 \* calls
    worker, batcher, tap        \* a subscriber of each disposition

MCCalls2 == {c1, c2}
MCCalls3 == {c1, c2, c3}
CallSymmetry == Permutations(Calls)

MCSubscribers == {worker, batcher, tap}
MCDisposition == worker :> "handled" @@ batcher :> "deferred" @@ tap :> "observed"

\* "orders" is a plain topic; "#" matches it but no "$" topic.
MCTopics == {"orders", "$undeliverable"}
MCReserved == {"$undeliverable"}
MCPatterns == {"orders", "#", "$undeliverable"}
T == INSTANCE TopicMatch
MCMatches == {pt \in MCPatterns \X MCTopics : T!Accepts(FALSE, <<pt[1]>>, <<pt[2]>>)}

Pub(kind, topic, mode) == [kind |-> kind, topic |-> topic, mode |-> mode]
Sub(kind, pattern, sub) == [kind |-> kind, pattern |-> pattern, sub |-> sub]

\* Any call may be any of these; calls are interchangeable.
MCMayAsk == [c \in Calls |->
    {Pub("event", "orders", "auto"), Pub("sync", "orders", "auto"),
     Sub("subscribe", "orders", worker), Sub("unsubscribeAll", "orders", worker),
     Sub("subscribe", "orders", tap), Sub("subscribe", "$undeliverable", batcher)}]

\* One call subscribes, one publishes, one does either.
MCLiveMayAsk ==
    LET publications == {Pub("event", "orders", "auto"), Pub("sync", "orders", "none")}
        subscribing == {Sub("subscribe", "orders", worker), Sub("subscribe", "#", batcher)}
    IN c1 :> subscribing
    @@ c2 :> publications
    @@ c3 :> {Pub("event", "orders", "manual"), Sub("unsubscribe", "orders", worker)}

\* Publications only, for the runs about Stop.
MCStopMayAsk ==
    c1 :> {Pub("event", "orders", "auto")} @@ c2 :> {Pub("sync", "orders", "none")}
=============================================================================
