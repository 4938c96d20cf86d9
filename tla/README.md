# A TLA+ model of vinculum-bus

vinculum-bus is an in-process publish/subscribe bus in Go: clients publish
messages under topics, subscribers receive those whose topic matches one of
their patterns, and each message may carry a *delivery*, the obligation to
acknowledge or refuse the broker message it came from.  This directory models
its concurrent core in TLA+, model-checks it with TLC and proves the main
safety properties with TLAPS for every number of callers, subscribers, topics
and queue slots.

Contents: [the system](#the-system) · [modules](#modules) ·
[runs](#runs) · [findings](#findings) · [proofs](#proofs) ·
[what is left out](#what-is-left-out) · [plan](#plan)

## The system

### Components

**Settler** (`settler.go`, `Settler`, `SettleOps`).  One delivery, shared
through a context by every goroutine that handles the message.
*State*: one atomic flag, `settled`; the broker's own token behind
`SettleOps.Valid`.  *Operations*: `Ack`, `Nack` (both `settle`: load the flag,
ask `Valid`, compare-and-swap, call the broker, and lower the flag again when
the broker call failed) and `Keepalive` (load, `Valid`, extend).
*Hard*: several goroutines between load and claim, a token that expires on the
way, a broker call that fails, or is carried out and fails to say so.
*Correct if*: the delivery is settled once, only the holder of the claim talks
to the broker, a failed call leaves the delivery settleable, and a late or
stale call changes nothing.

**Settle points** (`SettleOnReturn`, `SettleRefused` in `settler.go`, and
`disposition.go`).  Stateless decisions: what the return of a subscriber, or
the refusal of a message, does to its delivery.  The disposition says whether
a subscriber's return means that the work is done (`handled`), that it will be
done later by somebody who settles then (`deferred`), or nothing (`observed`).
*Correct if*: no delivery is acknowledged for work not done, none is nacked
for an observer's error, and none is left to nobody.

**Event bus** (`eventbus.go`, `builder.go`).  *State*: `started`, the context
and its cancellation, the bounded channel `ch`, the subscription map, the
counters `dropped` and `undelivered`.  *Operations*: `Start`, `Stop`,
`Publish`, `PublishSync`, `Subscribe`, `Unsubscribe`, `UnsubscribeAll`; the
goroutine of `Start` (the *loop*) that takes one message at a time and
delivers it or changes the map.  Clients never block on the channel: a full or
closing bus refuses.  Synchronous calls wait on a channel of their own for the
answer.  A message that nothing takes up is republished under `$undeliverable`
or discarded, according to how the bus was built.
*Hard*: the look at `started`, the send and `Stop` interleave; the answer must
come exactly once; every refusal must settle; the loop feeds its own queue when
it republishes; `Stop` leaves the loop through a select that may have messages
ready.  *Correct if*: whoever waits is answered once and truthfully, an
automatic delivery is always in somebody's custody until it is settled,
subscriptions take effect in the order clients observe, a refused call has no
effect, and republication terminates.

**Subscribers and topic matching** (`subscriber.go`, `topicmatch/`).
`BaseSubscriber`, the function adapters, `makeMatcher` and the rule that keeps
a leading wildcard off `$` topics.  No state.

**Wrappers** (`subutils/logging.go`, `subutils/transform.go`, with
`DispositionOf`'s walk along `Unwrap`).  Subscribers around a subscriber: one
that logs, one that transforms or drops.  No state.  *Hard*: the disposition of
a chain is that of what is behind it, while the return may come from in front.
*Correct if*: a settle point that trusts the answer settles when, and only
when, nobody behind the chain will.

**Async queueing subscriber** (`subutils/async.go`).  *State*: per partition a
bounded channel, `closed`, a stop channel, counters.  *Operations*: `enqueue`
from the bus's loop, one worker per partition, ticks, `Close` and its drain.
*Hard*: `enqueue` racing `Close`, order within a key, panics of the wrapped
subscriber.  *Correct if*: what is accepted is processed in order or refused,
and `Close` leaves nothing behind.

**Client side** (`client.go`).  The subscription tracker and the
auto-reconnector.  *State*: `connected`, `lastError`, the tracked
subscriptions, `enabled`; in each reconnection goroutine `attempts`, `delay` and
the topics noted when it started.  *Operations*: the monitor callbacks,
`SetEnabled`, `attemptReconnection`, `resubscribeToPreviousTopics`.
*Hard*: several reconnections at once, a topic list noted earlier, flags read
before a wait, a server that refuses one subscription of several.
*Correct if*: a lost connection is made again within the limits configured,
what was subscribed comes back and nothing else does, and a goroutine told to
stop stops.

**Transforms** (`transform/`).  A pipeline of functions over a message, one of
them (`RateLimitByTopic`) with an unsynchronised map.

**The composition.**  A bus is a subscriber, so is a queue, and a wrapper may
stand in front of either; the settler travels on the context.  *Hard*: a
delivery crosses several goroutines, each of which settles on the return of the
next; a bus that refuses says nothing; handlers may wait for another bus.
*Correct if*: the verdict comes from the work at the end and nowhere else,
somebody always has the delivery, and taps change nothing.

**Observability** (`o11y/`, logging).  Output only.

### Interaction

    client ── Publish ──▶ ch ──▶ loop ── OnEvent ──▶ subscriber ──▶ work later
       ▲                  ▲        │                                   │
       └── responseCh ────┼────────┤                                   │
                          └────────┘ republish $undeliverable          │
                                   │                                   │
                                   └──── settle point ───▶ Settler ◀───┘
                                                             │
                                                           broker

Calls and messages cross goroutines at three places only: the channel `ch`, the
answer channels, and the settler's atomic flag.  Everything else the loop
owns alone; the lifecycle flags are atomics written by `Start` and `Stop`.

## Modules

| module | models | extends / instantiates |
|---|---|---|
| `Delivery` | what a settler promises: callers compete, some may give up, one decides | |
| `Settler` | `settler.go`, step by step, any number of callers | `Promise == INSTANCE Delivery` |
| `SettlePoint` | `SettleOnReturn`, `SettleRefused` | |
| `EventBus` | one life of a bus with its clients, loop, subscribers and `Stop` | `SettlePoint` |
| `Lifecycle` | `Start` and `Stop` of a bus, again and again and by several goroutines, its loops reduced to their select | |
| `Lanes` | what an asynchronous subscriber promises: within a lane one message at a time, in the order accepted | |
| `AsyncQueue` | `subutils/async.go`: partitions, workers, ticker, `Close` | `SettlePoint`, `Order == INSTANCE Lanes` |
| `Reconnector` | `client.go`: the tracker and the reconnection goroutines, with an external client, server and user | |
| `TopicMatch` | `topicmatch.go` and `makeMatcher`, on topics as sequences of levels | |
| `Wrappers` | chains of subscribers: `DispositionOf`, the steps of `transform.go`, what a chain lets through | `TopicMatch` |
| `Pipeline` | deliveries over buses, queues and wrappers | `SettlePoint` |
| `Untapped` | the pipeline refines the pipeline without taps | `Pipeline`, `Plain == INSTANCE Pipeline` |
| `MCSettler`, `MCEventBus`, `MCAsyncQueue`, `MCReconnector`, `MCPipeline`, `MCLifecycle` | the constants of the TLC runs | the module they name (`MCPipeline`: `Untapped`, and it instantiates `Wrappers`; `MCEventBus` also instantiates `TopicMatch`) |
| `SharedLemmas` | lemmas on settle points, on what a sequence holds, once and in which order, and on functions defined by recursion over the numbers | `SettlePoint`, `TLAPS` |
| `Settler_proofs`, `Lifecycle_proofs`, `Reconnector_proofs`, `EventBus_proofs`, `AsyncQueue_proofs`, `Wrappers_proofs` | theorems and proofs | the module they name, `TLAPS`; the last four also `SharedLemmas` |
| `Pipeline_proofs` | theorems and proofs | `Untapped`, `SharedLemmas`, `TLAPS` |

### Settler

`settled` is the flag.  `pc[c]` says where caller `c` is in its call: before
the load, after it, after `Valid`, holding the claim, or back.  Each atomic
operation of the Go code is an action (`Begin` is the load, `CheckValid`,
`Claim` the compare-and-swap, `BrokerAccepts` / `BrokerFails` the two outcomes
of the broker call, `Release` the store that lowers the flag, `Extend` the
broker call of `Keepalive`), because between any two of them another goroutine
may run.  `BrokerFails` has two cases: the broker did nothing, or it did and
the answer was lost.  `Expire` is the environment: it makes `Valid` false.
`Ack` and `Nack` share one path with the verb as data, as in the code.

`Delivery` knows nothing of flags: callers take the delivery up, one at a time,
give it up or decide it.  `Settler` maps the callers between claim and return
to its holders, and is shown to implement it.

### EventBus

A client call is a member of `Calls`, happens at most once, and asks for one
of `MayAsk[c]`.  The call also names the message it queues, so a message is
`[call, undeliverable]`, the second field saying that it is the copy
republished under `$undeliverable`; topic, context and settler are those of
the call.  `pc[c]` is `idle`, `offer` (past the look at `started`, before the
select), `wait` (reading `responseCh`) or `done`.  The loop is `off`,
`starting` (between the compare-and-swap of `Start` and its goroutine),
`select`, `deliver`, `republish`, `finish` or `exited`; `stopper` walks
through the four statements of `Stop`.

| code | actions |
|---|---|
| `Start` | `StartSwap`, `StartLoop` |
| `accept`, `acceptWithResponse`: the check of `started`, then the select | `Invoke`, `Offer`, `OfferClosed` (the send panics) |
| `<-responseCh` | `Return` |
| the loop's receive, by message kind | `ReceivePublication`, `ReceiveSubscription` (with `doSubscribe` and its siblings), `ReceiveClosed` |
| `deliverAsync`, `deliverSync`, one subscriber at a time | `Deliver` |
| the end of the delivery, `noteUndelivered` | `Delivered`, `NoteUndelivered`, `Republish` |
| the response of `doPublishSync` | `Finish` |
| `<-ctx.Done()` in the loop | `Exit` |
| `Stop` | `StopSwap`, `StopCancel`, `StopWait`, `StopClose` |
| a deferring subscriber's later settle (external) | `Complete` |

Subscribers are external code: `Deliver` returns with or without an error, and
where the delivery is `manual` the handler may settle it itself.  Subscribers
are called in no fixed order, as the map is ranged over.  The set a message
goes to is fixed when it is received, which the code justifies by changing the
map only in the loop.  A settle is one step here, its first caller wins; that
this is what the settler does is `Settler`'s theorem, for a broker that carries
verbs out.

A select whose cases are ready together may take any of them: `TurnAway` is
possible whenever the context is done although the channel has room, and
`Exit` although messages are queued.

`before`, `reached` and `grounds` are history, read by no guard: the calls that
had returned when a call was made, the subscribers a message reached, and the
things that happened that could justify a verdict.

### Lifecycle

`EventBus` starts its bus once.  `Lifecycle` keeps of the bus what `Start` and
`Stop` share, `started`, the context, the channel and the wait group, and lets
any goroutine call either at any time.  Each successful `Start` begins a *life*
with a loop of its own, which only waits in its select (`select`), has a
message in hand (`working`), or has `exited`; messages may come at any time.  A
call that finds the flag as it would leave it returns an error and is no step.

| code | actions |
|---|---|
| `Start`: the compare-and-swap; `wg.Add` and the goroutine | `StartSwap`, `Launch` |
| the loop's select, a message, a closed channel, `ctx.Done` | `Receive`, `ReceiveClosed`, `Exit` |
| the end of its work on a message | `Finish` |
| `Stop`, statement by statement | `StopSwap`, `StopCancel`, `StopWait`, `StopClose` |
| `wg.Wait`, going on after the last `wg.Done` woke it (Go's `sync`) | `StopWoken` |

The wait group is the set of loops it counts.  The last to leave wakes all who
wait, and a waiter that finds the group in use again panics, as Go's does; the
other misuse Go detects needs an `Add` between two instructions of `Done` and is
covered by this one.  `overtaken` is history: a `Stop` was called while a `Start`
was between its swap and `wg.Add`.

### AsyncQueue

A call of `OnEvent`, `OnSubscribe`, `OnUnsubscribe` or `PassThrough` is again a
member of `Calls` and names its message.  `built` holds what the builder
methods fixed: the ordering (by topic, by a key function, or none), the
disposition of the wrapped subscriber, and whether there is a ticker.  A
partition is a queue and a worker: `worker[p]` walks through `select`, `work`,
`drain`, `drainwork` and `exited`, and `at[p]` is the message it is processing.

| code | actions |
|---|---|
| `Start`, one turn of its loop | `Launch` |
| `enqueue`: `IsClosed` and `partitionFor`, then the select | `Invoke`, `Send` |
| the caller's settle on the return (`deliverAsync`) | in `Invoke` and `Send` (`CallerSettles`) |
| `processQueue`'s three cases | `Receive`, `ReceiveTick`, `SeeDone` |
| `processMessage` on a return, on a panic | `Process`, `Panic` |
| `drainQueue` | `Receive` from `drain`, `Drained` |
| `Close` | `Close`, `Signal`, `CloseReturn` |
| the ticker, a deferring wrapped subscriber (external) | `TickFires`, `Complete` |

The round-robin counter is taken modulo `CounterLimit`, 2^32 in the code.  The
check and the counter are one step: the addition touches nothing but the
counter and commutes with everything between the two.  A stopped ticker
delivers no tick that had already fired, as Go promises from 1.23 on.

`Lanes` has no partitions, workers or shutdown.  A lane is a key, or a single
message when no order was asked for; `AsyncQueue` implements it with the calls
accepted, those in a worker's hands, and those that have ended.

### Reconnector

Every connection lost by an error while `enabled` is set starts a goroutine, a
member of `Reconnections`; `pc[g]` walks through `attemptReconnection` with one
action for each lock, select or client call.  The variables of the goroutine
are `attempts`, `delay`, `noted` (`previousSubscriptions`) and `todo` (what is
left of the loop in `resubscribeToPreviousTopics`).

| code | actions |
|---|---|
| `OnConnect` … `OnUnsubscribeAll` of tracker and reconnector | in the step of the client that reports it (`ConnectionMade`, `ConnectionGone`, `Subscribe`, `Unsubscribe`, `Resubscribe`) |
| `SetEnabled` | `SetEnabled` |
| before the loop | `Begin` |
| the head of the loop, the select, the counting | `Check`, `Wait`, `Attempt` |
| `client.Connect` returns | `ConnectMakesConnection`, `ConnectFindsConnection`, `ConnectFails` |
| one round of the resubscription | `Resubscribe` |

`Client` is an interface, so what is behind it is an assumption: the monitor is
told of a change in the step in which it happens; a new connection knows no
subscription; `Connect` on a connection that is up may succeed, and need not.
`owner`, `excused`, `wanted`, `overtaken` and `extra` are history.

### Wrappers and TopicMatch

A chain is a sequence of layers, the outermost first.  `Says` is what a layer
answers itself, `DispositionOf` the first definite answer, `Passed` what the
transforms of the chain make of a topic.  A transform step is a function from
topics to a new topic (or `None`) and the flag that says whether to go on:
payloads and fields decide nothing in these steps, and the prefix and
replacement steps work on whole levels of a topic, as their documentation
recommends them to be used.  `MCPipeline` checks three facts about these
operators with `ASSUME`, over its own chains: a chain of steps given as one step
does what its steps do, `DispositionOf` agrees with the walk along `Unwrap`, and
the `$` rule keeps off wildcards and nothing else.  For chains, steps and
patterns of any length they are theorems of `Wrappers_proofs`; the recursions
are functions over the positions of a sequence, so that they can be proved about.

### Pipeline

A hop is a bus or a queue: it has a line with a capacity, takes one message at
a time, and calls its subscribers one after the other in any order; `todo[h]`
are those still to be called, and each call is one step, from `OnEvent` of the
outermost layer to the settle on its return.  What is at the end of the chain
distinguishes the calls.  A bus that a handler asks keeps the first error of its
subscribers (`publishError`, which is the hop's) and answers with it; a full one
answers with an error at once.  An answer is `ok`, `error`, or `tap`, an error
for which only taps are to blame: the code does not tell the last two apart, and
neither does any guard; the difference is kept because the properties ask for it.

| code | actions |
|---|---|
| `Publish` by a receiver | `Arrive` |
| the receive of a loop or worker | `Take` |
| `deliverAsync`, `processMessage`: a transform drops | `CallDropped` |
| a tap, a handler, a deferring subscriber (external) | `CallObserver`, `CallHandler`, `CallDeferrer` |
| `OnEvent` of a queue, of a bus | `CallQueue`, `CallBus` |
| a handler that calls `PublishSync` on another bus, and is answered; it may pass an error on (`heeds`) or do as it likes | `Ask`, `AskReturns` |
| the errors of `doPublishSync` | `Reports`, in every call |
| `noteUndelivered`, and the answer on `responseCh` | `Finish` |
| a deferring subscriber's later settle (external) | `Complete` |

The inside of one hop, its start and its end, is the business of `EventBus` and
`AsyncQueue`.  Of a chain the pipeline needs three things, and takes them as
constants: what is at its `End`, the `Passage` of each topic to there (or
`None`, where a transform drops it), and the `Disposition` the whole answers.
`MCPipeline` writes its ten chains out as layers and gets the three from the
operators of `Wrappers`.  What the proofs need of them is that a chain answers
`deferred` exactly when a queue, a bus or a deferring subscriber is at its end,
and `observed` exactly when an observer or a bare logger is; it is part of
`PipelineAssumption`, so that TLC checks it of the chains of the run, and
theorem `EndDecides` has it of every chain of loggers and transforms around an
end.

`grounds` is history.  `abandoned` notes the calls after which, by what the code
does, nobody is left to settle: a transform drops in front of a deferring
subscriber, and what a queue wraps observes, whether it is called or a transform
drops in front of it.  `tapped` notes a handler that passed on an error for
which only taps are to blame.

`Untapped` instantiates `Pipeline` with the same queues and without the taps of
the buses, mapping `todo` to what is left without them.  Errors and answers are
not mapped but taken over as they are, so the refinement holds where no bus that
is asked has a tap that may fail (`NoFailingTapIsAsked`); what happens otherwise
is the finding of `pipeline_tap`.

## Runs

| run | instance | checks | result |
|---|---|---|---|
| `settler` | 3 callers, 2 calls each, `FairSpec` | mutual exclusion, accounting of the claim, settle-once, late calls, refinement of `Delivery`, the claim is resolved | passes |
| `bus` | 3 calls (symmetric), any of 6 requests each; 3 subscribers, one of each disposition; queue of 2; republishing | all safety properties but the type invariant | passes |
| `bus_live` | 3 calls with a set of requests each; queue of 1; discarding; `FairSpec` | calls return, deliveries settle, `Stop` returns | passes |
| `async` | 3 calls under each ordering; 2 partitions with queues of 1; ticker; panics; 2 callers of `Close`; `FairSpec` | custody, verdicts, `Close` drains, refinement of `Lanes`, accepted messages settle, `Close` returns | passes |
| `async_close` | the same, one build | `Close` leaves nothing queued | **violated** |
| `reconnect` | 2 goroutines, 2 patterns, 4 calls of the user, 4 configurations; `FairSpec` | typing and the retry limit, one attempt after the stop, the delays, restored subscriptions, no unwanted ones, the connection comes back, reconnection ends | passes |
| `pipeline` | 2 deliveries, 3 buses and a queue with room for one each, 10 chains, a bare logger on the bus that is asked; `FairSpec` | the verdict follows the work, custody, taps change nothing, deliveries settle | passes |
| `pipeline_abandoned` | 1 delivery to two queues, one behind a transform that drops it, one around an observer | a deferral is honoured | **violated** |
| `pipeline_tap` | 1 delivery to a handler that asks a bus with an observer | no delivery is nacked for a tap's failure alone | **violated** |
| `bus_stop` | 2 calls: an automatic delivery and a `PublishSync`; `FairSpec` | what was accepted is finished | **violated** |
| `bus_panic` | the same 2 calls | no panic | **violated** |
| `lifecycle` | 3 goroutines, 3 lives; `FairSpec` | one loop until a `Stop`, no panic in one life, no loop left behind, loops end | passes |

The type invariants of `Settler`, `EventBus` and `Lifecycle` are in no run: they are
proved for all constants, and the other properties tell more of an instance.

### Bounds

*Settler.*  Three callers are one more than a race needs, so that a third call
can come between a failed claim and its release.  `MaxCalls` bounds how often a
caller calls: two lets everybody retry after a lost claim or a failed broker
call.

*Bus.*  Three calls suffice for the orders the properties speak of: subscribe,
unsubscribe, publish; two competing for the last slot with a third at the loop;
a subscription and a publication under `$undeliverable` with another in front.
A queue of two is filled by three calls, and by two and a republication; a
queue of one makes the loop's own republication or the second call find it
full.  The three subscribers cover the three dispositions.  `undelivered` and
`dropped` need no bound: each call adds to them a fixed number of times, which
`UndeliverableEnds` states for the first.  Deadlock is not checked in the bus
runs because the system does stop: every call may have returned, and a crash
ends everything.  That nothing stops too early is what `CallsReturn` and its
neighbours say.

The calls of `bus` are interchangeable (`SYMMETRY`); `bus_live` has none, as
liveness requires.

*Lifecycle.*  Three goroutines let two calls of `Stop`, or of `Start`, race while a
third does the opposite; three lives (`MaxStarts`) let a life begin under the
`Stop` of an earlier one and end under that of a later one.

*Async queue.*  Three calls, of which two share a topic, two a key, and one is
no event: under each ordering two or three meet in a partition whose queue
holds one, so that one is being processed, one waits and one is refused.  Two
partitions are needed for `Close` to miss one, and two callers of `Close` for
the second to overtake the first.  The three builds cover every ordering and
disposition once; the combinations do not interact, ordering being read by
callers only and the disposition by workers only.

*Reconnector.*  Two goroutines are the fewest that can disturb each other, and a
third connection lost is not answered (`MaxLosses`).  Two patterns tell "one" from
"all": one is refused, one restored.  Four calls allow to connect, subscribe,
and switch off or unsubscribe while a goroutine runs, with one more.  Attempts
are counted up to `AttemptCap`: no limit of a configuration is as high, and
without a limit the delay has reached its maximum by then, so that nothing
changes any more (`ReconnectorAssumption` says both, and `BackoffGrows`
relies on them).  The four configurations have no limit (in
both ways of saying so), a limit, an initial delay beyond the maximum, and
reconnection switched off at first.

*Pipeline.*  Lines of one make two messages meet a full line at every hop: at
the publication of a receiver, at the queue, at a bus reached from a bus, at a
republication and at `PublishSync`.  Two deliveries suffice because a message
disturbs another only by taking its place.  The net has each kind of chain
once: a logger in front of a bus, a queue behind transforms, a handler behind
transforms, a tap behind a transform, a tap that may fail, deferred work, a
handler that asks, and passes an error on; the three buses have the three policies for what nobody
takes up: republished and handled, republished and not handled, discarded.  The
bus that is asked has a subscriber that may decline and a bare logger, which
does not fail.  The nets of the two findings differ from this in one bus and what
the queue wraps, and need one delivery.

### Fairness

The Go scheduler runs each call in progress, the goroutine of `Start` once
launched, the loop, and `Stop` once begun; handlers return and deferred work
comes to an end, which is what the interfaces ask of them.  The bus and the
pipeline need less: in both, `Progress` is the disjunction of all this, and
weak fairness of it (not everything stands still for ever) is enough, because
every execution of these instances ends.  Among the ready cases of a select any
choice is allowed for ever, so no property of these two relies on the select
being fair.
Nobody is obliged to call anything, `Start` and `Stop` included.

The async queue's `FairSpec` has weak fairness for each caller, worker and
closer, with `Start` run to its end.  It has one strong fairness, on partition 0 taking
a message: its select also offers ticks, and Go chooses among ready cases at
random, so that a ticker firing for ever does not starve the queue.

`Lifecycle` has weak fairness for each goroutine in `Start` or `Stop` and for each
loop, and strong fairness on a loop's `Exit`: a closed channel and a done context
are both ready for ever, and Go chooses among them at random.

The reconnector's `FairSpec` has weak fairness for each goroutine: timers fire
and the client's calls return, with or without success.  Its strong fairness on
`ConnectMakesConnection` is no promise of anybody: `ComesBack` says what follows
*if* a server that is tried again and again answers at last.  `Stops` does not
need it.

`CallsReturn` and `AutoSettles` are claimed while nobody stops the bus: once
`Stop` has begun they are false, which is the finding of `bus_stop`.  They are
written `[]<>`, "time and again no call is under way": with finitely many calls
this is the same as each one's return, and TLC needs one branch for it instead
of one per call.

### What the safety properties of the bus say

- `VerdictJustified`: a delivery is acknowledged because a responsible
  subscriber finished, a handler said so, or the bus was built to discard; it
  is nacked because one failed, said so, or the bus refused.
- `AutoInCustody`: an automatic delivery not yet settled is in the channel of a
  bus whose loop has not left, at the loop, or in a deferring subscriber's hands;
  or else `Stop` made the loop leave with the message in the channel, which is
  the finding of `bus_stop`.  It is the reason every refusal path must settle.
- `OneAnswer`: a waiting call's message is in exactly one place, an answered
  one's nowhere.  So there is never a second answer; that there is a first one
  is `CallsReturn`'s matter, and ends with `Stop`.
- `SyncVerdict`: `PublishSync` returns an error when it was refused or a
  responsible subscriber failed, and nil only when none did.  When only observers
  failed it takes no side: the code returns their error, the documentation of
  `Observed` says that it is ignored, and `pipeline_tap` shows what comes of it.
- `RefusedHasNoEffect`: a refused call can be retried without doing anything twice.
- `SubscribedHears`, `UnsubscribedSilent`: what has returned before a
  publication was called is in force for it.
- `UndeliverableEnds`: republication happens once per message.

### What the properties of the lifecycle say

- `OneLoopUntilStop`: what the compare-and-swap of `Start` achieves, against
  any number of callers.  After that a second loop can run beside the first,
  in the gap between the swap of a `Stop` and the end of the loop it stops.
- `PanicsOnlyRestarted`: however many goroutines stop a bus, its first life ends
  without a panic (those of publishers aside, see `bus_panic`), unless a `Stop`
  overtakes the `Start`.  With a second life, panics there are: the channel is
  closed again, a new loop reads the zero message of the closed channel, or
  the wait group is used again too early.
- `StoppedMeansGone`: when all calls are back and the bus is stopped, no loop of
  any life is left.
- `LoopsEnd`: a context that is done ends the loops of later lives too, although
  the flag is up again and the channel, once closed, is always ready.

### What the safety properties of the async queue say

- `AcceptedInCustody`: an automatic delivery not yet settled is in the queue of a
  worker that has not left, in a worker's hands or with a deferring subscriber,
  through refusals, panics and shutdown; or else its call was overtaken by
  `Close`, which is the finding of `async_close`.
- `SettledByOutcome`: no acknowledgement on the enqueue, and none for work that
  failed or was deferred and not finished.
- `ClosedMeansDrained`: when any caller of `Close` is back, all that was accepted
  before the shutdown began has been run, in every partition, and no worker is
  at work.
- `KeepsLanes`: order within a key, one at a time, each message once.

### What the properties of the reconnector say

- `AtMostOneMore`: `SetEnabled(false)` and a cancelled context are seen before
  the next attempt but one; one attempt may already be past the look.
- `BackoffGrows`: the delay grows by the factor from failure to failure, up to the
  maximum.  Whether the first wait is the initial delay (its documentation) or
  that times the factor (the code) is left open; all goroutines do the same.
- `Restored`: what a goroutine noted is at the server when it is done, but for
  what was refused or unsubscribed; a refusal costs one subscription.
- `OnlyOvertakenReturn`: what was unsubscribed does not come back, unless the
  call overtook a goroutine that had noted the pattern.
- `ComesBack`, `Stops`: a connection is made again, and reconnection ends.

### What the properties of the pipeline say

- `FollowsTheWork`: the ground of each verdict, over any number of hops, and that
  nothing is left to do when it falls as long as one subscriber per hop takes
  the message up.  With several the first to settle decides, as the settler's
  documentation warns.  A nack may also rest on an answer that only a tap's
  failure made an error: `TapsUnheard`, the finding of `pipeline_tap`.
- `SomebodyHasIt`: an open automatic delivery is on a line, in a call or
  deferred.
- `TapsChangeNothing`: every step with taps is a step without them or none, where
  no bus that is asked has a tap that may fail.
- `DeliveriesSettle`: every automatic delivery is settled in the end.

`SomebodyHasIt` and `DeliveriesSettle` except an abandoned delivery: one dropped
in front of a deferring subscriber, or given to a queue around an observer.  Both
are findings of `pipeline_abandoned`.

## Findings

- **Stop and queued calls** (`bus_stop`).  The loop may leave its select with
  messages queued and nothing drains them.  A `PublishSync` accepted before
  `Stop` then waits for ever, and an automatic delivery is neither acknowledged
  nor nacked, where the README says that `Stop` waits for in-flight messages.
  `AutoInCustody` leaves these deliveries out.
- **Send on a closed channel** (`bus_panic`).  A call that has looked at
  `started` may be overtaken by the whole of `Stop`, and its select then
  sends on a closed channel.
- **Send after the drain** (`async_close`).  `enqueue` looks at `done` and sends
  later; a send that comes after the workers have drained and left succeeds,
  and its message stays in a queue nobody reads.  `ClosedMeansDrained` holds
  because it leaves such calls out (`late`).
- **A queue around an observer** (`pipeline_abandoned`).  It reports `Deferred`, so
  the bus takes the message for delivered; the worker then settles nothing,
  because what it wraps observes.  The delivery is left to nobody, although the
  documentation of `Deferred` says that a deferring subscriber settles, and that
  of `Observed` that a message only observers saw counts as undelivered.
- **A drop in front of a queue** (`pipeline_abandoned`).  A chain answers the
  disposition of what is behind it; when a transform drops the message the
  return comes from in front.  With a queue, a bus or another deferring
  subscriber behind, the settle point waits for a settle that nobody will make.
  The one trace needs both: either settle would have closed the delivery.
- **An observer's failure reaches the broker** (`pipeline_tap`).  `doPublishSync`
  returns the first error of any subscriber, an observer's too, and makes it the
  answer of `PublishSync`; a handler that passes the answer on has its own
  delivery nacked, although nobody responsible failed.  `disposition.go` says of
  an observer that "neither its success nor its failure reaches the broker", and
  the change log that "observation must not change delivery".

Smaller observations, without a run:

- `Stop` clears `started` before it cancels and waits.  A `Start` in between succeeds
  and launches a second loop beside the first; both range over and change the
  subscription map, which nothing locks.  `OneLoopUntilStop` claims no more.
- `settle` asks `Valid` and then claims and calls the broker; a token that expires
  in between reaches it, where the README and the test of `settler.go` say of a
  stale token that it does not.  `LateCallStopsShort` speaks of one that was stale
  when the call began.
- A `Start` after a complete `Stop` returns nil although the channel is closed and
  the context done: its loop ends at once or panics, and the next `Stop` panics.
- `WithInitialDelay` is documented as the delay "before the first reconnection
  attempt"; the first attempt does not wait, and the first wait is the initial
  delay times the factor.
- `WithMaxRetries` documents -1 for unlimited; 0 is unlimited as well.
- `SetEnabled(true)` after `SetEnabled(false)` resumes nothing: the goroutine has
  left, or leaves at its next look.  A clean `Disconnect` does not stop one that
  is running, which then connects again.
- A goroutine whose `Connect` is refused because another has connected goes on
  trying, up to its limit.
- A refused resubscription leaves the pattern in the tracker, which then claims
  a subscription the server does not have.
- The documentation of `TransformingSubscriber.OnEvent` says that an event is
  not passed on when a transform "stops processing (returns false)"; a step that
  returns a message and false has it passed on.

## Proofs

TLAPS checks every proof, for any number of calls, callers, subscribers and
reconnections, any match relation, any dispositions, any queue sizes and
partitions, and any net of buses and queues.  Every safety invariant, action
property and refinement that a passing run checks is proved.  What the runs
that find a violation check is proved as well, where it is no liveness property,
under the condition that makes it true: the theorems say that only what the
finding shows breaks the promise (a panic may also come from a `Stop` that
overtakes a `Start`, which is `Lifecycle`'s subject).

The assumptions are the named `ASSUME`s of the modules (`MaxCallsAssumption`,
`BusAssumption`, `QueueAssumption`, `ReconnectorAssumption`, `MaxStartsAssumption`,
`PipelineAssumption`), which TLC evaluates in the runs.  They give the constants
their types and keep `None` and `Tick` apart from requests, calls and messages;
`ReconnectorAssumption` also has `AttemptCap` out of the way (see *Bounds*), and
`PipelineAssumption` ties the disposition of a chain to its end (see *Pipeline*).
Nets that no run has are covered as well: a queue that feeds itself, a bus that
asks itself (which then waits for ever, as safety permits).

Some theorems have a hypothesis of their own:

| theorem | hypothesis |
|---|---|
| `NoFeedback` | `Calls` is finite, as it counts them |
| `UndisturbedStopIsSafe` | a behaviour in which `Stop` takes hold when no call is between its look at `started` and its select, and no `Start` between its swap and its goroutine |
| `CloseEmptiesQueues` | a state in which no call was under way at the signal of `Close` (`late = {}`) |
| `DeferralKept` | no transform drops a message in front of a subscriber that defers, and no queue is put around an observer |
| `TapsOnlyObserve`, `TapsUnheardUnlessAsked` | no bus that is asked has a tap that may fail |
| those of `Wrappers_proofs` | the steps are functions of the topics, as those of `transform.go` are; the end of a chain is one of the kinds there are; the pattern of an extracting subscriber is not empty |

The runs of the findings show what happens without those on `Stop`, `Close`, drops
and taps.

`Settler_proofs`:

| theorem | states |
|---|---|
| `Typing` | `TypeOK` |
| `MutualExclusion` | `OneAtTheBroker` |
| `FlagAccounted` | `ClaimAccounted` |
| `OnceOnly` | `SettledOnce` |
| `LateCalls` | `LateCallStopsShort` |
| `Refinement` | `Settler` implements `Delivery` |

They rest on one inductive invariant: the flag is up exactly while somebody
holds the claim or after somebody won, holders are unique, and a winner excludes
a holder.  Uniqueness alone is not inductive, because only the flag stands
between a holder and a second `Claim`.

`EventBus_proofs`, in layers, each relative to those before it:

| theorem | states | strengthening |
|---|---|---|
| `BusTyping` | `TypeOK` | `Requested`: whoever is past the call has a request, what is in the channel or at the loop belongs to a call whose offer is over, and what the loop delivers is a publication |
| `Verdicts` | `VerdictJustified` | none beyond `BusInv`: each settling action notes a ground for its verdict (`OneMoreGround`) |
| `Answers` | `OneAnswer` | `AnswerInv`: a call that has not offered has no answer, `Publish` never waits, only publications are republished |
| `NoneDropped` | `AutoInCustody` | `ExitedCancelled`: a loop that has left was cancelled by a `Stop`; `Custody`: while the loop goes through the subscribers, an open delivery has been left with each responsible one already called; when it is done, the message is queued again or with somebody |

The channel is a sequence, and the proofs speak of it through two predicates,
`Occurs` (a message is in it) and `Once` (at one place at most), with a lemma
each for appending and for taking the head.  `NoneDropped` is the theorem that
needs most: a delivery leaves the loop only settled, republished or entrusted,
and that no match is lost on the way depends on the subscription map not
changing while the loop delivers.

On the same invariants rests what one call may conclude from another:

| theorem | states | strengthening |
|---|---|---|
| `Refusals` | `RefusedHasNoEffect` | `RefusalInv`: a refused call is nowhere, the hands of deferring subscribers included, and what is anywhere was not refused |
| `SyncReports` | `SyncVerdict` | `SyncInv`: while the loop has the message, its error flag says whether a subscriber, an observer or another, has returned an error; before, none has |
| `SubscribersHear` | `SubscribedHears` | `HearInv`: an answered subscription is in the map, or a later call took it back; `HistoryInv`: while the loop delivers, each match is still to be called or was reached |
| `UnsubscribedStaySilent` | `UnsubscribedSilent` | `SilentInv`: behind each pattern of the map is an answered subscription that no answered call made after it takes back |
| `NoFeedback` | `UndeliverableEnds` | `CountInv`: the counter, plus the calls that may yet be noted under their own topic, plus those that may be under `$undeliverable`, is at most twice the calls; `CopyInv`: the copy of a call is sent once |

`SubscribedHears` and `UnsubscribedSilent` are what `before`, the history of which
call had returned when another was made, is for.  Neither is inductive: the
first needs to know where an answered subscription is *now*, the second who
put a pattern there, and the two answers differ, because a pattern may have
been subscribed twice and taken back once.  In `NoFeedback` every step that
counts takes a call out of one of two finite sets.

Two theorems delimit the findings about `Stop`:

| theorem | states | strengthening |
|---|---|---|
| `UndisturbedStopIsSafe` | `NeverPanics`, where `Stop` is called at a quiet moment | `ShutInv`: from the swap of such a `Stop` on nobody is let in to the select and no loop is launched, and the channel is closed after the loop |
| `UnfinishedIsQueued` | when the loop has gone, whoever waits without an answer has his message in the channel, and so has every automatic delivery that is open and not with a deferring subscriber | `OneAnswer`, `Custody` |

The first says what a caller has to do: keep `Stop` from overtaking calls that
are on their way in.  Calls that are queued, at the loop or made later do no
harm.  The second is the safety side of `AcceptedFinished`: what `Stop`
leaves unfinished is what it leaves queued.

`AsyncQueue_proofs`:

| theorem | states | strengthening |
|---|---|---|
| `AsyncTyping` | `TypeOK` | `AsyncInv`: which worker has something in hand, how many are launched, whoever is past the call has a request |
| `SettlePointMoved` | `SettledByOutcome` | `Placed`: an accepted call is in one place, the queue it picked, its worker's hand, or run; `Settled`: each verdict has its ground |
| `CloseDrains` | `ClosedMeansDrained` | `Shutdown`: one closer carries the shutdown out, a worker leaves only after the signal, and only late calls are in the queue of one that is gone |
| `CloseEmptiesQueues` | `CloseProcessesAll`, where no call was under way at the signal | the same |
| `Custody` | `AcceptedInCustody` | `Settled` and `Shutdown`: an open automatic delivery was accepted and is not yet run, or deferred; a worker that has left leaves only late calls |
| `LanesKept` | `AsyncQueue` implements `Lanes` | `InOrder`: each accepted call is in the history once, in the partition of its lane, and every queue is in the order of the history |

`CloseDrains` is where the reason of the finding `async_close` shows: a message
stays behind only if its sender was let in before the signal and sends after
it; these are the calls in `late`, and the invariant needs no other exception.
`CloseEmptiesQueues` turns this round: without such a call the comment of `Close`
is right.
`LanesKept` is a refinement step by step: a `Send` that succeeds is the abstract
append, taking a message up is the abstract start (its predecessors in the lane
are over, because they went through the same partition in front of it), and
putting it down, by whatever outcome, the abstract end.

`Pipeline_proofs`:

| theorem | states | strengthening |
|---|---|---|
| `PipelineTyping` | `TypeOK` | `PipeInv`: what a hop works on has subscribers that match, and a message with a settler travels in the mode its delivery arrived in, with nobody waiting for it |
| `VerdictFollows` | `FollowsTheWork` | `WorkInv`: verdicts have grounds, a delivery nobody fans out has one token at most, and none once it is settled |
| `DeliveryInCustody` | `SomebodyHasIt` | `WorkInv`: an open automatic delivery not abandoned has a token |
| `DeferralKept` | `DeferralHonoured`, where nothing is dropped in front of a deferring subscriber and no queue is put around an observer | `NeverAbandoned`: no call notes that a delivery was abandoned |
| `TapsOnlyObserve` | `Pipeline` implements `Plain`, where no bus that is asked has a tap that may fail | `PipeInv`; `AskedInv`: a publisher waits only at a bus that is asked |
| `TapsUnheardUnlessAsked` | `TapsUnheard`, under the same condition | `NoTapBlamed`: no error kept, no answer and no ground is a tap's |

A *token* is a place where a delivery is still to be dealt with: a line it waits
on, a hop that has not called every responsible subscriber yet or waits for an
answer, a piece of deferred work.  `FollowsTheWork` says little about a state;
what makes it inductive is that the settle points and the hand-overs fit
together over hops, and that is a statement about tokens.  Each action either
leaves the tokens of a delivery alone (lemma `Staying`), or moves one of them
(`Passing`), or takes one away and leaves the delivery settled or abandoned
(`Leaving`); the settle point's answer for each disposition says which (`Rules`).  The attempt to
prove custody brought to light that a transform which drops in front of an
observer behind a queue leaves the delivery to nobody, as the observer itself
does; the nets of the runs have no such chain.  What a publisher is answered and
who is waiting for what is kept apart from the tokens, in `AnswerInv`.

For `TapsOnlyObserve` each step is matched with one of the pipeline whose buses
have no taps, the call of a tap with none: a tap's return settles nothing,
whether a message is taken up is asked of the others, `fanned` counts the
others, and where taps may fail nobody waits for what the bus answers.
`TapsUnheardUnlessAsked` says that this answer is the only way a tap's failure
takes to a broker.

`Reconnector_proofs`:

| theorem | states | strengthening |
|---|---|---|
| `ReconnectorTyping` | `TypeOK`, with the limit on attempts | `TypeInv`: a goroutine past `Check` is below the limit |
| `OneMore` | `AtMostOneMore` | `StopInv`: whoever has made the further attempt is on its way to `Check`, which sends it away |
| `OnlyOvertaken` | `OnlyOvertakenReturn` | `ListInv`: what is still to come from any goroutine was wanted when noted, or has been overtaken |
| `AllRestored` | `Restored` | `RestoreInv`: while the owner resubscribes, what it noted is at the server, excused, or still to do |
| `Backoff` | `BackoffGrows` | `BackoffInv`: at every place of the goroutine its delay is that of the attempts it has counted, the failure it is about to count included |

`Backoff` is about a power of the factor, which the module defines by recursion
(`Power`; `MCReconnector` compares it with TLC's `^`).  The proof needs the power
for every exponent (`PowerStep`), that growing and then capping a delay that was
capped is capping the grown one (`GrowthOfCapped`), and that a delay once at its
maximum stays there, which is why the attempts need not be counted beyond
`AttemptCap`.

`Wrappers_proofs`, for chains, steps, topics and patterns of any length:

| theorem | states |
|---|---|
| `StepsInARow`, `DroppedStaysDropped` | further steps begin with what the first ones made, unless those ended it |
| `ChainsAreFlat` | a chain of transforms given as one step does what its steps do, anywhere in a list |
| `ChainsInARow`, `LoggersLetThrough` | what a chain of layers lets through: wrapping a wrapper is wrapping with both, and without transforms all comes through |
| `WalkAlongUnwrap` | `DispositionOf` is the walk along `Unwrap` |
| `WrappersSeenThrough` | loggers and transforms in front of something do not change its disposition |
| `EndDecides` | the end of a chain decides its disposition, as `PipelineAssumption` has it |
| `DollarTopicsNamed` | a pattern that takes a `$` topic names its first level |
| `ExtractionChangesNothing` | `makeMatcher` takes the same topics with extraction and without |

These are facts about recursions.  The library's induction theorems have an
operator as a parameter, which the provers here cannot instantiate; `SharedLemmas`
gets round that with sets.  A set of numbers that is not empty has a least one
(`LeastNumber`, from the library's theorem that the order of the numbers is
well-founded), so a set that has 0 and with each number the next has all
(`Induction`); and a function given by its value at 0 and the step from each
value to the next exists and is unique (`Recursion`).  For sequences: from a
first value, a sequence of functions runs to exactly one last value (`RunExists`,
`RunUnique`), and runs of two sequences in a row are a run of both (`RunConcat`).
The loop of `TransformMessage` and the way of a message along a chain are such
runs.  The last two theorems are about the matching of levels, with the
empty pattern left out: with extraction it takes every topic, as the tests of
`topicmatch` (`topicmatch_test.go:34`) show of the engine.

`Lifecycle_proofs`, for any goroutines and any number of lives:

| theorem | states | strengthening |
|---|---|---|
| `Typing` | `TypeOK` | |
| `OneLoop` | `OneLoopUntilStop` | `FirstInv`: until a `Stop`, the flag says whether the one life has begun; `LaunchInv`: a loop belongs to a life that has |
| `NoPanicInOneLife` | `PanicsOnlyRestarted` | `OnlyInv`: in the only life, whoever stops has cleared the flag and is alone, and past the wait the loop is gone |
| `Gone` | `StoppedMeansGone` | `AnyInv`: where there is a loop, the flag is up or a `Stop` has still to wait |

Only model-checked:

- Every liveness property: TLAPS reasons about neither fairness nor `ENABLED`.
- The promises that the findings refute, beyond the conditions above;
  `AcceptedFinished` is a liveness property and has only its safety side
  proved.
- That `Power` is TLC's `^` (`PowerIsPower`), for small numbers: the built-in power
  is a constant to the provers.

## What is left out

- *Clients of a bus in its second life.*  `EventBus` models one life (`StartSwap`
  happens once, from `off`), and `Lifecycle` has no clients: after the first life
  the channel is closed and the context done.
- *Handlers that call the bus they run on.*  `Publish` from a handler is an
  ordinary call.  A synchronous call waits for its own goroutine; in `Pipeline`
  handlers ask other buses only, in no circle.
- *Lost broker calls behind the bus.*  `SettlePoint` settles in one step;
  failing brokers are `Settler`'s subject.
- *Contexts of callers.*  The bus does not look at them: `PublishSync` waits on
  `responseCh` alone.
- *`Close` of an async queue that was never started*: the owner closes what it
  started (`Close` waits for `launched = Partitions`).  Manual deliveries
  settled by a handler are `EventBus`'s subject, not `AsyncQueue`'s.
- *Payloads, fields, tracing, logging and metrics*, except the counters.
- *`BaseSubscriber`, the function adapters, the MQTT pattern engine*: the match
  relation is a constant of `EventBus` and `Pipeline`, and their properties hold
  for any; the runs take it from `TopicMatch`.
- *`RateLimitByTopic`*: it decides by the clock, and under several workers it is
  a data race on a Go map, which the runtime may detect and stop for.
  *`DiffTransform`* changes payloads.
- *Statistics of the reconnector* (`reconnectCount`, timestamps), and the overflow
  of a back-off product beyond the range of `time.Duration`.
- *The metrics exporter*: it reports counters and decides nothing.

## Plan

Done: all modules, their runs and their theorems.  What is not proved is out of
the prover's reach (see *Proofs*).  Left, should the code grow in that
direction: a bus in its second life with clients (`Lifecycle` composed with
`EventBus`), and `RateLimitByTopic` with its race once it is to run behind
partitions.
