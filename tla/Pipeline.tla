------------------------------ MODULE Pipeline ------------------------------
(***************************************************************************)
(* The parts composed: a delivery that a source publishes travels from bus *)
(* to bus and through queueing subscribers, behind transforms and loggers, *)
(* until handlers have done the work, and its settler goes with it on the  *)
(* context (src/README.md:104).  A bus loop and a queue's worker are the   *)
(* same here: a hop takes a message off its line, calls subscribers one    *)
(* after the other, and settles on the return of each.                     *)
(*                                                                         *)
(* Modules EventBus and AsyncQueue have the inside of one hop; here every  *)
(* hop is started and nobody stops it.  The subscriptions are fixed.  The  *)
(* handlers and deferring subscribers at the ends are external; one that   *)
(* asks publishes a message of its own, synchronously and without the      *)
(* settler (WithoutSettler), to another bus before it returns; the answer  *)
(* may be an error, and a handler that heeds it returns one as well.       *)
(*                                                                         *)
(* A subscriber is a chain of wrappers around the one at its end.  What a  *)
(* chain lets through and what it answers is the business of module        *)
(* Wrappers; here that is known of each subscriber.                        *)
(***************************************************************************)
EXTENDS Naturals, Sequences, SettlePoint

CONSTANTS
    Topics,         \* the topics a message may have
    None,           \* no topic, no message, nobody
    Deliveries,     \* what the sources deliver
    MayArrive,      \* where, under which topic and in which mode each may arrive
    Buses, Queues,  \* the hops
    Capacity,       \* of the line of each
    Undeliverable,  \* the buses built WithUndeliverable(true)
    Subscribers,
    Wants,          \* the topics each is subscribed to
    Feeds,          \* the subscribers of each bus
    Behind,         \* the subscriber each queue wraps
    End,            \* what is at the end of each subscriber's chain
    Passage,        \* Passed: the topic under which a message comes there, or None
    Disposition     \* DispositionOf: what the chain answers

Hops == Buses \union Queues
UndeliverableTopic == <<"$undeliverable">>
Arrivals == [bus : Buses, topic : Topics, mode : Modes]
Messages == [d : Deliveries, topic : Topics, mode : Modes, asker : Hops \union {None}]

ASSUME PipelineAssumption ==
    /\ MayArrive \in [Deliveries -> SUBSET Arrivals]
    /\ None \notin Topics \union Subscribers \union Hops \union Messages
    /\ UndeliverableTopic \in Topics
    /\ Buses \intersect Queues = {}
    /\ Capacity \in [Hops -> Nat \ {0}]
    /\ Undeliverable \subseteq Buses
    /\ Wants \in [Subscribers -> SUBSET Topics]
    /\ Feeds \in [Buses -> SUBSET Subscribers]
    /\ Behind \in [Queues -> Subscribers]
    /\ Passage \in [Subscribers -> [Topics -> Topics \union {None}]]
    /\ Disposition \in [Subscribers -> Dispositions]
    /\ \A s \in Subscribers :
          /\ Disposition[s] = "deferred" <=> End[s].kind \in {"queue", "bus", "defer"}
          /\ Disposition[s] = "observed" <=> End[s].kind \in {"observe", "log"}
          /\ End[s].kind = "queue" => End[s].parts \in [Topics -> Queues]
          /\ End[s].kind \in {"bus", "ask"} => End[s].bus \in Buses
          /\ End[s].kind = "ask" => End[s].heeds \in BOOLEAN

VARIABLES
    line,       \* what waits at each hop: the channel of a bus, a queue
    at,         \* the message each hop works on
    todo,       \* the subscribers it has still to call
    asking,     \* the subscriber that waits in PublishSync, in a call of this hop
    answered,   \* what its message was answered
    publishError,   \* of doPublishSync, for the message the hop works on
    mode,       \* how each delivery settles; "none" before it arrives
    arrived,    \* the deliveries that have arrived
    outcome,    \* how each is settled
    pending,    \* work deferred and not finished: <<subscriber, message>>
    grounds     \* history: what happened that may settle a delivery, or keep it open

hops == <<line, at, todo, asking, answered, publishError>>
deliveries == <<mode, arrived, outcome, pending, grounds>>
vars == <<hops, deliveries>>

\* "filtered": a transform dropped the message in front of a subscriber that
\* handles; "abandoned": in front of one that defers, or a queue fed an observer;
\* "fanned": more than one subscriber took it up; "tapped": a handler heeded an
\* answer that is an error for no other reason than a tap that failed.
Grounds == {"handled", "failed", "refused", "unwanted", "unhandled",
            "filtered", "abandoned", "fanned", "tapped"}

\* What PublishSync returns: nil, an error for which taps alone are to blame, or
\* one that somebody responsible returned.
Results == {"ok", "tap", "error"}

\* Mutant: an off-by-one at a full line.
RoomForOneMore(h) == Len(line[h]) <= Capacity[h]

Room(h) == Len(line[h]) < Capacity[h]

Init ==
    /\ line = [h \in Hops |-> <<>>]
    /\ at = [h \in Hops |-> None]
    /\ todo = [h \in Hops |-> {}]
    /\ asking = [h \in Hops |-> None]
    /\ answered = [h \in Hops |-> "none"]
    /\ publishError = [h \in Hops |-> "ok"]
    /\ mode = [d \in Deliveries |-> "none"]
    /\ arrived = {}
    /\ outcome = [d \in Deliveries |-> "open"]
    /\ pending = {}
    /\ grounds = [d \in Deliveries |-> {}]
-----------------------------------------------------------------------------
(* Settling, and what it rests on.                                         *)

Note(m, g) == grounds' = [grounds EXCEPT ![m.d] = IF m.mode = "none" THEN @ ELSE @ \union g]

\* Mutant: a message that is turned away is forgotten.
RefusesSilently(m, why) == UNCHANGED <<outcome, grounds>>

Refuses(m, why) ==
    /\ outcome' = [outcome EXCEPT ![m.d] = SettleRefused(m.mode, @)]
    /\ Note(m, {why})

\* accept: a full line refuses, and settles, without a word to the publisher.
Publish(b, m) ==
    \/ /\ Room(b)
       /\ line' = [line EXCEPT ![b] = Append(@, m)]
       /\ UNCHANGED <<outcome, grounds>>
    \/ /\ ~Room(b)
       /\ Refuses(m, "refused")
       /\ UNCHANGED line

\* A source hands over a delivery.
Arrive(d, a) ==
    /\ d \notin arrived
    /\ arrived' = arrived \union {d}
    /\ mode' = [mode EXCEPT ![d] = a.mode]
    /\ Publish(a.bus, [d |-> d, topic |-> a.topic, mode |-> a.mode, asker |-> None])
    /\ UNCHANGED <<at, todo, asking, answered, publishError, pending>>
-----------------------------------------------------------------------------
(* A hop calls its subscribers.                                            *)

Matching(h, m) ==
    IF h \in Queues THEN {Behind[h]} ELSE {s \in Feeds[h] : m.topic \in Wants[s]}

\* Mutant: a tap makes the message delivered.
AnyTakers(h, m) == Matching(h, m)

\* Those that take the message up.
Takers(h, m) == {s \in Matching(h, m) : Disposition[s] # "observed"}

Take(h) ==
    /\ at[h] = None
    /\ line[h] # <<>>
    /\ LET m == Head(line[h]) IN
       /\ at' = [at EXCEPT ![h] = m]
       /\ todo' = [todo EXCEPT ![h] = Matching(h, m)]
       /\ Note(m, IF \E s, t \in Takers(h, m) : s # t THEN {"fanned"} ELSE {})
    /\ line' = [line EXCEPT ![h] = Tail(@)]
    /\ UNCHANGED <<asking, answered, publishError, mode, arrived, outcome, pending>>

\* Mutant: the settle point does not ask the chain for its disposition.
AfterUnasked(m, s, failed, before) ==
    IF m.asker # None THEN before ELSE SettleOnReturn(m.mode, before, "handled", failed)

\* The settle point of a hop, on the return of the subscriber.  A bus that
\* delivers synchronously has none: its publisher has the answer.
After(m, s, failed, before) ==
    IF m.asker # None THEN before ELSE SettleOnReturn(m.mode, before, Disposition[s], failed)

Settles(m, s, failed) == outcome' = [outcome EXCEPT ![m.d] = After(m, s, failed, @)]

\* A bus that delivers synchronously keeps the errors for its publisher, a tap's
\* like any other.
Reports(h, result) ==
    publishError' =
        IF at[h].asker = None \/ result = "ok" \/ publishError[h] = "error" THEN publishError
        ELSE [publishError EXCEPT ![h] = result]

ErrorIf(failed) == IF failed THEN "error" ELSE "ok"

Begins(h, s) ==
    /\ at[h] # None /\ s \in todo[h]
    /\ asking[h] = None
    /\ todo' = [todo EXCEPT ![h] = @ \ {s}]

Arriving(h, s) == Passage[s][at[h].topic]

\* What the end of the chain is given.
Given(h, s) == [at[h] EXCEPT !.topic = Arriving(h, s), !.asker = None]

\* A transform dropped the message: the wrapper returns nil.
CallDropped(h, s) ==
    /\ Begins(h, s) /\ Arriving(h, s) = None
    /\ Settles(at[h], s, FALSE)
    /\ Note(at[h], CASE Disposition[s] = "handled" -> {"filtered"}
                     [] Disposition[s] = "deferred" -> {"abandoned"}
                     [] Disposition[s] = "observed" -> IF h \in Queues THEN {"abandoned"} ELSE {})
    /\ UNCHANGED <<line, at, asking, answered, publishError, mode, arrived, pending>>

\* A tap.  An observer may fail; a logger with nothing behind it does not.
CallObserver(h, s, failed) ==
    /\ Begins(h, s) /\ Arriving(h, s) # None
    /\ \/ End[s].kind = "observe"
       \/ End[s].kind = "log" /\ ~failed
    /\ Settles(at[h], s, failed)
    /\ Reports(h, IF failed THEN "tap" ELSE "ok")
    /\ Note(at[h], IF h \in Queues THEN {"abandoned"} ELSE {})
    /\ UNCHANGED <<line, at, asking, answered, mode, arrived, pending>>

CallHandler(h, s, failed) ==
    /\ Begins(h, s) /\ Arriving(h, s) # None
    /\ End[s].kind = "handle"
    /\ Settles(at[h], s, failed)
    /\ Reports(h, ErrorIf(failed))
    /\ Note(at[h], IF failed THEN {"failed"} ELSE {"handled"})
    /\ UNCHANGED <<line, at, asking, answered, mode, arrived, pending>>

\* A subscriber that accepts the work for later, or declines it.
CallDeferrer(h, s, failed) ==
    /\ Begins(h, s) /\ Arriving(h, s) # None
    /\ End[s].kind = "defer"
    /\ Settles(at[h], s, failed)
    /\ pending' = IF failed THEN pending ELSE pending \union {<<s, Given(h, s)>>}
    /\ Reports(h, ErrorIf(failed))
    /\ Note(at[h], IF failed THEN {"failed"} ELSE {})
    /\ UNCHANGED <<line, at, asking, answered, mode, arrived>>

\* AsyncQueueingSubscriber.OnEvent, of the partition of the topic.
CallQueue(h, s) ==
    /\ Begins(h, s) /\ Arriving(h, s) # None
    /\ End[s].kind = "queue"
    /\ LET q == End[s].parts[Arriving(h, s)] IN
       /\ Settles(at[h], s, ~Room(q))
       /\ line' = IF Room(q) THEN [line EXCEPT ![q] = Append(@, Given(h, s))] ELSE line
       /\ Reports(h, ErrorIf(~Room(q)))
       /\ Note(at[h], IF Room(q) THEN {} ELSE {"refused"})
    /\ UNCHANGED <<at, asking, answered, mode, arrived, pending>>

\* OnEvent of a bus publishes and returns nil, whatever became of the message.
CallBus(h, s) ==
    /\ Begins(h, s) /\ Arriving(h, s) # None
    /\ End[s].kind = "bus"
    /\ LET b == End[s].bus
           said(o) == IF Room(b) THEN o ELSE SettleRefused(at[h].mode, o)
       IN /\ line' = IF Room(b) THEN [line EXCEPT ![b] = Append(@, Given(h, s))] ELSE line
          /\ outcome' = [outcome EXCEPT ![at[h].d] = After(at[h], s, FALSE, said(@))]
          /\ Note(at[h], IF Room(b) THEN {} ELSE {"refused"})
    /\ UNCHANGED <<at, asking, answered, publishError, mode, arrived, pending>>

\* PublishSync: the hop waits until the other bus has answered; a full one says
\* so at once (acceptWithResponse).
Ask(h, s) ==
    /\ Begins(h, s) /\ Arriving(h, s) # None
    /\ End[s].kind = "ask"
    /\ LET b == End[s].bus IN
       /\ asking' = [asking EXCEPT ![h] = s]
       /\ \/ /\ Room(b)
             /\ line' = [line EXCEPT ![b] = Append(@,
                            [Given(h, s) EXCEPT !.mode = "none", !.asker = h])]
             /\ UNCHANGED answered
          \/ ~Room(b) /\ answered' = [answered EXCEPT ![h] = "error"] /\ UNCHANGED line
    /\ UNCHANGED <<at, publishError, deliveries>>

Heeds(h) == End[asking[h]].heeds /\ answered[h] # "ok"

\* What the handler makes of the answer.
Makes(h, failed) ==
    IF ~failed THEN "ok" ELSE IF Heeds(h) /\ answered[h] = "tap" THEN "tap" ELSE "error"

\* The handler goes on with the answer.  One that heeds it passes an error on;
\* otherwise, and where there is none, it returns what it likes.
AskReturns(h, failed) ==
    /\ asking[h] # None /\ answered[h] # "none"
    /\ Heeds(h) => failed
    /\ Settles(at[h], asking[h], failed)
    /\ Reports(h, Makes(h, failed))
    /\ Note(at[h], CASE Makes(h, failed) = "ok" -> {"handled"}
                     [] Makes(h, failed) = "tap" -> {"tapped"}
                     [] Makes(h, failed) = "error" -> {"failed"})
    /\ asking' = [asking EXCEPT ![h] = None]
    /\ answered' = [answered EXCEPT ![h] = "none"]
    /\ UNCHANGED <<line, at, todo, mode, arrived, pending>>
-----------------------------------------------------------------------------
(* The hop is done with a message.                                         *)

TakenUp(h, m) == Takers(h, m) # {}

\* noteUndelivered; only "$undeliverable" starts with "$" among these topics.
NoteUndelivered(b, m) ==
    \/ /\ b \in Undeliverable /\ m.topic # UndeliverableTopic
       /\ Publish(b, [m EXCEPT !.topic = UndeliverableTopic, !.asker = None])
    \/ /\ b \in Undeliverable /\ m.topic = UndeliverableTopic
       /\ Refuses(m, "unhandled")
       /\ UNCHANGED line
    \/ /\ b \notin Undeliverable
       /\ outcome' = [outcome EXCEPT ![m.d] = SettleOnReturn(m.mode, @, "handled", FALSE)]
       /\ Note(m, {"unwanted"})
       /\ UNCHANGED line

\* Mutant: the publisher that waits is not answered.
AnswerNobody(h) == UNCHANGED answered

\* req.responseCh <- publishError, for a synchronous message.
Answers(h) ==
    answered' = IF at[h].asker = None THEN answered
                ELSE [answered EXCEPT ![at[h].asker] = publishError[h]]

Finish(h) ==
    /\ at[h] # None /\ todo[h] = {} /\ asking[h] = None
    /\ at' = [at EXCEPT ![h] = None]
    /\ \/ /\ h \in Buses /\ ~TakenUp(h, at[h])
          /\ NoteUndelivered(h, at[h])
       \/ /\ h \in Queues \/ TakenUp(h, at[h])
          /\ UNCHANGED <<line, outcome, grounds>>
    /\ Answers(h)
    /\ publishError' = [publishError EXCEPT ![h] = "ok"]
    /\ UNCHANGED <<todo, asking, mode, arrived, pending>>

\* A deferring subscriber comes to the end of its work, and settles.
Complete(s, m, failed) ==
    /\ <<s, m>> \in pending
    /\ pending' = pending \ {<<s, m>>}
    /\ outcome' = [outcome EXCEPT ![m.d] = SettleOnReturn(m.mode, @, "handled", failed)]
    /\ Note(m, IF failed THEN {"failed"} ELSE {"handled"})
    /\ UNCHANGED <<hops, mode, arrived>>

Calls(h, s) ==
    \/ CallDropped(h, s) \/ CallQueue(h, s) \/ CallBus(h, s) \/ Ask(h, s)
    \/ \E failed \in BOOLEAN :
          CallObserver(h, s, failed) \/ CallHandler(h, s, failed) \/ CallDeferrer(h, s, failed)

HopStep(h) ==
    \/ Take(h) \/ Finish(h)
    \/ \E s \in todo[h] : Calls(h, s)
    \/ \E failed \in BOOLEAN : AskReturns(h, failed)

WorkStep == \E w \in pending, failed \in BOOLEAN : Complete(w[1], w[2], failed)

\* What the hops and the subscribers do by themselves.
Progress == WorkStep \/ \E h \in Hops : HopStep(h)

Next == Progress \/ \E d \in Deliveries : \E a \in MayArrive[d] : Arrive(d, a)

Spec == Init /\ [][Next]_vars

(* Loops and workers are scheduled, handlers return, and a deferring       *)
(* subscriber comes to the end of all it took on.  Each of them is fair in *)
(* the program; that not all of them stand still is enough.                *)
FairSpec == Spec /\ WF_vars(Progress)
-----------------------------------------------------------------------------

TypeOK ==
    /\ \A h \in Hops : line[h] \in Seq(Messages) /\ Len(line[h]) <= Capacity[h]
    /\ at \in [Hops -> Messages \union {None}]
    /\ todo \in [Hops -> SUBSET Subscribers]
    /\ asking \in [Hops -> Subscribers \union {None}]
    /\ answered \in [Hops -> Results \union {"none"}]
    /\ publishError \in [Hops -> Results]
    /\ mode \in [Deliveries -> Modes]
    /\ arrived \subseteq Deliveries
    /\ outcome \in [Deliveries -> Outcomes]
    /\ \A w \in pending : w[1] \in Subscribers /\ w[2] \in Messages
    /\ grounds \in [Deliveries -> SUBSET Grounds]

\* The messages that carry the settler of a delivery.
Carries(m, d) == m # None /\ m.d = d /\ m.mode # "none"
Waits(d) == \E h \in Hops : \E i \in DOMAIN line[h] : Carries(line[h][i], d)
Deferred(d) == \E w \in pending : Carries(w[2], d)
InHand(d) == \E h \in Hops : Carries(at[h], d)
Held(d) == Waits(d) \/ InHand(d) \/ Deferred(d)
Automatic(d) == mode[d] = "auto"

(* A verdict follows the work, over any number of hops: a delivery is      *)
(* acknowledged because somebody did the work, or a transform in front of  *)
(* him left it out, or nobody wants it on a bus that discards; and only an *)
(* automatic one is.  It is nacked because work failed, or was refused, or *)
(* "$undeliverable" is left unhandled, or else because a tap made the      *)
(* answer to a question an error (TapsUnheard says what is meant).  And as *)
(* long as nobody shares it out, nothing is left to do when it is settled. *)
FollowsTheWork ==
    \A d \in Deliveries :
        /\ outcome[d] = "ack" =>
              Automatic(d) /\ grounds[d] \intersect {"handled", "filtered", "unwanted"} # {}
        /\ outcome[d] = "nack" =>
              grounds[d] \intersect {"failed", "refused", "unhandled", "tapped"} # {}
        /\ outcome[d] # "open" /\ "fanned" \notin grounds[d] => ~Waits(d) /\ ~Deferred(d)

(* Until an automatic delivery is settled some hop has it, or a deferring  *)
(* subscriber; but for two cases nobody settles (DeferralHonoured).        *)
SomebodyHasIt ==
    \A d \in Deliveries :
        Automatic(d) /\ outcome[d] = "open" /\ "abandoned" \notin grounds[d] => Held(d)

(* Every automatic delivery is settled in the end, with handlers that wait *)
(* for another bus as well, as long as no bus waits, over whatever others, *)
(* for itself.                                                             *)
DeliveriesSettle ==
    \A d \in Deliveries :
        Automatic(d) ~> outcome[d] # "open" \/ "abandoned" \in grounds[d]

(* "the subscriber settles at its own completion point"                    *)
(* (src/disposition.go:34): who reports Deferred settles, or somebody to   *)
(* whom it hands the delivery.                                             *)
DeferralHonoured == \A d \in Deliveries : Automatic(d) /\ outcome[d] = "open" => Held(d)

(* "Neither its success nor its failure reaches the broker"                *)
(* (src/disposition.go:47, of an observer): no delivery is nacked for no   *)
(* other reason than the failure of a tap.                                 *)
TapsUnheard ==
    \A d \in Deliveries : outcome[d] = "nack" =>
        grounds[d] \intersect {"failed", "refused", "unhandled"} # {}
=============================================================================
