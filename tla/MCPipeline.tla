----------------------------- MODULE MCPipeline -----------------------------
(* Instances of Pipeline for TLC: the subscribers are chains of Wrappers.  *)
EXTENDS Untapped, TLC
INSTANCE Wrappers

CONSTANTS
    d1, d2,             \* deliveries
    front, back, side,  \* buses
    queue               \* a queueing subscriber of one partition

MCTwo == {d1, d2}
MCOne == {d1}
MCBuses == {front, back, side}
MCQueues == {queue}
MCCapacity == front :> 1 @@ back :> 1 @@ side :> 1 @@ queue :> 1

Work == <<"work", "a">>
Debug == <<"work", "debug">>
Query == <<"query", "a">>
Reply == <<"reply", "a">>
Stray == <<"stray", "a">>
MCTopics == {Work, Debug, Query, Reply, Stray, <<"$undeliverable">>}

log == [kind |-> "log"]
handle == [kind |-> "handle"]
defer == [kind |-> "defer"]
observe == [kind |-> "observe"]
To(b) == [kind |-> "bus", bus |-> b]
Asks(b) == [kind |-> "ask", bus |-> b, heeds |-> TRUE]
Into(q) == [kind |-> "queue", parts |-> [t \in Topics |-> q]]
Through(steps) == [kind |-> "transform", steps |-> steps]

\* The answer to a query travels under a topic of its own.
Renamed == IfPrefix(<<"query">>, ReplaceInTopic("query", "reply"))
NoDebug == ChainTransforms(<<TransformOnPattern(<<"query", "#">>, {}),
                             DropTopicPattern(<<"+", "debug">>)>>)

MCChain ==
       "relay" :> <<log, To(back)>>
    @@ "tap" :> <<Through(<<DropTopicPrefix(<<"work", "debug">>)>>), log>>
    @@ "audit" :> <<log, observe>>
    @@ "asker" :> <<Through(<<Renamed>>), Asks(side)>>
    @@ "dead" :> <<handle>>
    @@ "crew" :> <<Through(<<NoDebug>>), Into(queue)>>
    @@ "archive" :> <<log, Into(queue)>>
    @@ "batch" :> <<defer>>
    @@ "picky" :> <<Through(<<NoDebug>>), log, handle>>
    @@ "worker" :> <<log, handle>>

Subscribed ==
       "relay" :> <<"work", "#">> @@ "tap" :> <<"#">> @@ "audit" :> <<"#">>
    @@ "asker" :> <<"query", "+">>
    @@ "dead" :> <<"$undeliverable">> @@ "crew" :> <<"work", "#">>
    @@ "archive" :> <<"work", "#">>
    @@ "batch" :> <<"reply", "a">> @@ "picky" :> <<"work", "+">> @@ "worker" :> <<"#">>

MCEnd == [s \in DOMAIN MCChain |-> Last(MCChain[s])]
MCPassage == [s \in DOMAIN MCChain |-> [t \in Topics |-> Passed(MCChain[s], t)]]
MCDisposition == [s \in DOMAIN MCChain |-> DispositionOf(MCChain[s])]

MCSubscribers == DOMAIN MCChain
MCWants == [s \in MCSubscribers |-> {t \in Topics : Accepts(FALSE, Subscribed[s], t)}]
MCFeeds ==
       front :> {"relay", "tap", "asker", "dead"}
    @@ back :> {"crew", "picky", "audit"}
    @@ side :> {"batch", "tap"}
MCBehind == queue :> "worker"
MCUndeliverable == {front, side}

From(b, topics, modes) == [bus : {b}, topic : topics, mode : modes]
MCMayArrive ==
       d1 :> (From(front, {Work, Query, Stray}, {"auto"})
                \union From(back, {Debug, Stray}, {"auto"})
                \union From(side, {Reply, Stray}, {"auto"}))
    @@ d2 :> (From(front, {Work}, {"auto", "manual"})
                \union From(side, {Reply}, {"manual"}))

\* One delivery to two queueing subscribers: a transform drops it in front of the
\* first, and what is behind the queue observes.
MCFeedsAbandoned == [MCFeeds EXCEPT ![back] = {"crew", "archive"}]
MCBehindObserved == queue :> "audit"
MCAbandoned == d1 :> From(back, {Debug}, {"auto"})

\* One query to a handler that asks a bus with a tap that may fail.
MCFeedsTapped == [MCFeeds EXCEPT ![side] = {"batch", "audit"}]
MCAsked == d1 :> From(front, {Query}, {"auto"})
-----------------------------------------------------------------------------
(* The pure parts against their definitions, on small inputs.              *)

Steps == {NoDebug, Renamed, StopTransforms, ModifyPayload({Query, Stray}),
          TransformOnPattern(<<"+", "a">>, {Work}), DropTopicPrefix(<<"work">>)}

\* A chain of steps given as one step does what its steps do.
ASSUME ChainsAreFlat ==
    \A e, f, g \in Steps : \A t \in MCTopics :
        TransformMessage(t, <<ChainTransforms(<<e, f>>), g>>) = TransformMessage(t, <<e, f, g>>)

\* The walk along Unwrap that DispositionOf makes, layer by layer.
Walk(chain) ==
    LET from[i \in 1..(Len(chain) + 1)] ==
            CASE i > Len(chain) -> "handled"
              [] i <= Len(chain) /\ Says(chain, i) # "handled" -> Says(chain, i)
              [] OTHER -> from[i + 1]
    IN from[1]

Layers == {log, handle, defer, observe, To(front), Into(queue), Through(<<NoDebug>>)}
ASSUME FirstDefiniteAnswerWins ==
    \A n \in 1..3 : \A chain \in [1..n -> Layers] : DispositionOf(chain) = Walk(chain)

\* Only a pattern that starts with a wildcard is kept off the "$" topics, and
\* extraction changes what is accepted for no pattern that has a wildcard.
Patterns == {<<"#">>, <<"+">>, <<"+", "a">>, <<"work", "#">>, <<"$undeliverable">>,
             <<"$undeliverable", "#">>, <<"work", "a">>}
ASSUME DollarTopics ==
    \A p \in Patterns : \A t \in MCTopics \union {<<"$sys", "a">>} :
        /\ t[1] \in System /\ Accepts(FALSE, p, t) => p[1] = t[1]
        /\ HasWildcard(p) => Accepts(TRUE, p, t) = Accepts(FALSE, p, t)
=============================================================================
