---------------------------- MODULE MCAsyncQueue ----------------------------
(* Instances of AsyncQueue for TLC.                                        *)
EXTENDS AsyncQueue, TLC

CONSTANTS
    c1, c2, c3,     \* calls
    k1, k2          \* goroutines that call Close

MCCalls == {c1, c2, c3}
MCClosers == {k1, k2}

\* Topics of different partitions, and a key that crosses them.
MCTopics == {"a", "b"}
MCKeys == {"key"}
MCHash == "a" :> 4 @@ "b" :> 7 @@ "key" :> 5

Event(topic, mode) == [kind |-> "event", topic |-> topic, key |-> "key", mode |-> mode]
Other(topic) == [kind |-> "other", topic |-> topic, key |-> "key", mode |-> "auto"]

\* Two topics under one key, and a call that is no event;
\* under each ordering two of the calls or all three meet in one partition.
MCMayAsk == c1 :> {Event("a", "auto")}
         @@ c2 :> {Event("b", "auto")}
         @@ c3 :> {Other("b")}

Build(ordering, wrapped, ticker) ==
    [ordering |-> ordering, wrapped |-> wrapped, ticker |-> ticker]

\* Every ordering, every disposition, with and without a ticker.
MCBuilds ==
    {Build("topic", "handled", TRUE), Build("key", "deferred", FALSE),
     Build("none", "observed", FALSE)}

\* Nothing but a queue around a subscriber that handles.
MCHandling == {Build("topic", "handled", FALSE)}
=============================================================================
