------------------------------ MODULE AsyncQueue ------------------------------
(***************************************************************************)
(* AsyncQueueingSubscriber of src/subutils/async.go: a subscriber that     *)
(* puts what it is given on a bounded queue and lets goroutines of its own *)
(* run the subscriber it wraps.  It has a number of partitions, each with  *)
(* a queue and a worker; a message picks its partition by a key.           *)
(*                                                                         *)
(* A call of OnEvent, OnSubscribe, OnUnsubscribe or PassThrough is a       *)
(* member of Calls, happens once, and also names the message it queues.    *)
(* The wrapped subscriber is external: it returns with or without an       *)
(* error, or panics, which ends the program.                               *)
(***************************************************************************)
EXTENDS Naturals, Sequences, SettlePoint

CONSTANTS
    Calls,          \* the calls of a behaviour
    MayAsk,         \* the requests each call may make
    Topics, Keys,   \* topics, and what a key function may return
    Hash,           \* FNV-1a of each of them
    Partitions,     \* how many queues
    QueueSize,      \* capacity of each
    CounterLimit,   \* how many values the round-robin counter has
    Builds,         \* how the subscriber may have been built
    Closers,        \* the goroutines that call Close
    None, Tick      \* no message; the message of the ticker

Requests == [kind : {"event", "other"}, topic : Topics, key : Keys, mode : Modes]

ASSUME QueueAssumption ==
    /\ MayAsk \in [Calls -> SUBSET Requests]
    /\ None \notin Requests \union Calls
    /\ Tick \notin Calls \union {None}
    /\ Hash \in [Topics \union Keys -> Nat]
    /\ Partitions \in Nat \ {0}
    /\ QueueSize \in Nat \ {0}
    /\ CounterLimit \in Nat \ {0}
    /\ Builds \subseteq [ordering : {"topic", "key", "none"}, wrapped : Dispositions,
                         ticker : BOOLEAN]

VARIABLES
    built,      \* ordering, ticker and the wrapped subscriber's disposition
    launched,   \* how many workers Start has launched
    done,       \* a.done is closed
    ticking,    \* the ticker runs
    tick,       \* a tick waits in the ticker's channel
    queues,     \* a.queues
    worker,     \* where each worker is
    at,         \* the message each worker is processing
    next,       \* a.next
    dropped,    \* a.dropped
    pc,         \* where each call is
    req,        \* what it asked for
    part,       \* the partition it picked
    answer,     \* what it returned
    once,       \* a.closeOnce: "free", "running" or "over"
    closer,     \* where each closer is
    crashed,    \* the wrapped subscriber panicked
    outcome,    \* how the delivery of each call is settled
    pending,    \* calls whose work the wrapped subscriber deferred
    accepted,   \* history: the calls accepted, in order
    ended,      \* history: how the handling of each call ended
    late        \* history: calls under way when the queue was closed

workers == <<tick, queues, worker, at>>
calls == <<next, dropped, pc, req, part, answer, accepted>>
closing == <<done, ticking, once, closer, late>>
deliveries == <<outcome, pending, ended>>
vars == <<built, launched, workers, calls, closing, crashed, deliveries>>

Parts == 0..(Partitions - 1)

Init ==
    /\ built \in Builds
    /\ launched = 0
    /\ done = FALSE /\ ticking = built.ticker /\ tick = FALSE /\ crashed = FALSE
    /\ queues = [p \in Parts |-> <<>>]
    /\ worker = [p \in Parts |-> "off"]
    /\ at = [p \in Parts |-> None]
    /\ next = 0 /\ dropped = 0
    /\ pc = [c \in Calls |-> "idle"]
    /\ req = [c \in Calls |-> None]
    /\ part = [c \in Calls |-> 0]
    /\ answer = [c \in Calls |-> "none"]
    /\ once = "free"
    /\ closer = [k \in Closers |-> "idle"]
    /\ outcome = [c \in Calls |-> "open"]
    /\ pending = {} /\ accepted = <<>> /\ late = {}
    /\ ended = [c \in Calls |-> "no"]
-----------------------------------------------------------------------------
(* Callers.                                                                *)

\* What orders a message: only an event has a key to compute.
KeyOf(r) == IF built.ordering = "key" /\ r.kind = "event" THEN r.key ELSE r.topic

Unordered == built.ordering = "none" /\ Partitions > 1

\* atomic.AddUint32(&a.next, 1)
NextCount == (next + 1) % CounterLimit

\* Mutant: the key function is not asked.
PartitionByTopic(r) == IF Unordered THEN NextCount % Partitions
                       ELSE Hash[r.topic] % Partitions

PartitionFor(r) ==
    IF Unordered THEN NextCount % Partitions
    ELSE Hash[KeyOf(r)] % Partitions

\* Mutant: the queue answers for what it wraps.
WrappedDisposition == built.wrapped

DeliveryDisposition == "deferred"

\* The caller (deliverAsync of the bus) settles on the return of an event.
CallerSettles(c, r, failed) ==
    outcome' = IF r.kind = "event"
               THEN [outcome EXCEPT ![c] =
                        SettleOnReturn(r.mode, @, DeliveryDisposition, failed)]
               ELSE outcome

\* The call: IsClosed, and the choice of a partition.
Invoke(c, r) ==
    /\ ~crashed
    /\ pc[c] = "idle"
    /\ req' = [req EXCEPT ![c] = r]
    /\ \/ /\ done
          /\ pc' = [pc EXCEPT ![c] = "returned"]
          /\ answer' = [answer EXCEPT ![c] = "closed"]
          /\ CallerSettles(c, r, TRUE)
          /\ UNCHANGED <<next, part>>
       \/ /\ ~done
          /\ pc' = [pc EXCEPT ![c] = "send"]
          /\ part' = [part EXCEPT ![c] = PartitionFor(r)]
          /\ next' = IF Unordered THEN NextCount ELSE next
          /\ UNCHANGED <<answer, outcome>>
    /\ UNCHANGED <<built, launched, workers, dropped, accepted, closing, crashed,
                   pending, ended>>

\* Mutant: off by one.
RoomForOneMore(p) == Len(queues[p]) <= QueueSize

Room(p) == Len(queues[p]) < QueueSize

\* The select: nobody closes the queue's channel, so a send goes through
\* whenever there is room, also after Close.
Send(c) ==
    /\ ~crashed
    /\ pc[c] = "send"
    /\ pc' = [pc EXCEPT ![c] = "returned"]
    /\ \/ /\ Room(part[c])
          /\ queues' = [queues EXCEPT ![part[c]] = Append(@, c)]
          /\ accepted' = Append(accepted, c)
          /\ answer' = [answer EXCEPT ![c] = "nil"]
          /\ CallerSettles(c, req[c], FALSE)
          /\ UNCHANGED dropped
       \/ /\ ~Room(part[c])
          /\ dropped' = dropped + 1
          /\ answer' = [answer EXCEPT ![c] = "full"]
          /\ CallerSettles(c, req[c], TRUE)
          /\ UNCHANGED <<queues, accepted>>
    /\ UNCHANGED <<built, launched, tick, worker, at, next, req, part, closing, crashed,
                   pending, ended>>
-----------------------------------------------------------------------------
(* Workers.                                                                *)

\* One turn of Start's loop.
Launch ==
    /\ ~crashed
    /\ launched < Partitions
    /\ launched' = launched + 1
    /\ worker' = [worker EXCEPT ![launched] = "select"]
    /\ UNCHANGED <<built, tick, queues, at, calls, closing, crashed, deliveries>>

\* While processing, the worker remembers the loop it returns to.
Processing == [select |-> "work", drain |-> "drainwork"]
BackTo == [work |-> "select", drainwork |-> "drain"]

\* case msg := <-queue, in processQueue and in drainQueue.
Receive(p) ==
    /\ ~crashed
    /\ worker[p] \in {"select", "drain"}
    /\ queues[p] # <<>>
    /\ at' = [at EXCEPT ![p] = Head(queues[p])]
    /\ queues' = [queues EXCEPT ![p] = Tail(@)]
    /\ worker' = [worker EXCEPT ![p] = Processing[@]]
    /\ UNCHANGED <<built, launched, tick, calls, closing, crashed, deliveries>>

\* time.Ticker: its channel holds one tick and drops the rest.
TickFires ==
    /\ ~crashed
    /\ ticking /\ ~tick
    /\ tick' = TRUE
    /\ UNCHANGED <<built, launched, queues, worker, at, calls, closing, crashed, deliveries>>

\* case <-tickerChan: only partition 0 ticks.
ReceiveTick ==
    /\ ~crashed
    /\ tick
    /\ worker[0] = "select"
    /\ tick' = FALSE
    /\ at' = [at EXCEPT ![0] = Tick]
    /\ worker' = [worker EXCEPT ![0] = "work"]
    /\ UNCHANGED <<built, launched, queues, calls, closing, crashed, deliveries>>

\* The settle point that the queue exists to move.
WorkerSettles(c, failed) ==
    outcome' = IF req[c].kind = "event"
               THEN [outcome EXCEPT ![c] = SettleOnReturn(req[c].mode, @, built.wrapped, failed)]
               ELSE outcome

\* processMessage, from the return of the wrapped subscriber.
Process(p, failed) ==
    /\ ~crashed
    /\ worker[p] \in {"work", "drainwork"}
    /\ worker' = [worker EXCEPT ![p] = BackTo[@]]
    /\ at' = [at EXCEPT ![p] = None]
    /\ LET c == at[p] IN
       \/ c = Tick /\ UNCHANGED deliveries
       \/ /\ c # Tick
          /\ ended' = [ended EXCEPT ![c] = IF failed THEN "error" ELSE "ok"]
          /\ WorkerSettles(c, failed)
          /\ pending' = IF req[c].kind = "event" /\ built.wrapped = "deferred" /\ ~failed
                        THEN pending \union {c} ELSE pending
    /\ UNCHANGED <<built, launched, tick, queues, calls, closing, crashed>>

\* Mutant: the panic goes on its way unannounced.
PanicUnsettled(c) == UNCHANGED outcome

PanicSettles(c) ==
    outcome' = IF req[c].kind = "event"
               THEN [outcome EXCEPT ![c] = SettleRefused(req[c].mode, @)] ELSE outcome

\* The deferred recover nacks before the panic goes on and ends the program.
Panic(p) ==
    /\ ~crashed
    /\ worker[p] \in {"work", "drainwork"}
    /\ crashed' = TRUE
    /\ at' = [at EXCEPT ![p] = None]
    /\ LET c == at[p] IN
       \/ c = Tick /\ UNCHANGED <<outcome, ended>>
       \/ /\ c # Tick
          /\ ended' = [ended EXCEPT ![c] = "panic"]
          /\ PanicSettles(c)
    /\ UNCHANGED <<built, launched, tick, queues, worker, calls, closing, pending>>

\* Mutant: the worker leaves at once.
LeaveUndrained(p) == worker[p] = "select" /\ worker' = [worker EXCEPT ![p] = "exited"]

BeginDrain(p) == worker[p] = "select" /\ worker' = [worker EXCEPT ![p] = "drain"]

\* case <-a.done
SeeDone(p) ==
    /\ ~crashed
    /\ done
    /\ BeginDrain(p)
    /\ UNCHANGED <<built, launched, tick, queues, at, calls, closing, crashed, deliveries>>

\* drainQueue's default case, and wg.Done.
Drained(p) ==
    /\ ~crashed
    /\ worker[p] = "drain"
    /\ queues[p] = <<>>
    /\ worker' = [worker EXCEPT ![p] = "exited"]
    /\ UNCHANGED <<built, launched, tick, queues, at, calls, closing, crashed, deliveries>>

\* A deferring wrapped subscriber comes to the end of its work.
Complete(c, failed) ==
    /\ ~crashed
    /\ c \in pending
    /\ pending' = pending \ {c}
    /\ ended' = [ended EXCEPT ![c] = IF failed THEN "error" ELSE "ok"]
    /\ outcome' = [outcome EXCEPT ![c] = SettleOnReturn(req[c].mode, @, "handled", failed)]
    /\ UNCHANGED <<built, launched, workers, calls, closing, crashed>>
-----------------------------------------------------------------------------
(* Close.  Whoever comes second waits for closeOnce; the owner closes what *)
(* it has started.                                                         *)

\* The first statement of the once: the ticker is stopped, and the tick that
\* may wait in its channel goes with it (as of Go 1.23).
Close(k) ==
    /\ ~crashed
    /\ closer[k] = "idle"
    /\ launched = Partitions
    /\ \/ /\ once = "free"
          /\ once' = "running"
          /\ ticking' = FALSE
          /\ tick' = FALSE
          /\ closer' = [closer EXCEPT ![k] = "signal"]
       \/ /\ once # "free"
          /\ closer' = [closer EXCEPT ![k] = "blocked"]
          /\ UNCHANGED <<once, ticking, tick>>
    /\ UNCHANGED <<built, launched, queues, worker, at, calls, done, late, crashed,
                   deliveries>>

\* Mutant: the workers are waited for without being told.
SignalNobody(k) ==
    /\ ~crashed
    /\ closer[k] = "signal"
    /\ closer' = [closer EXCEPT ![k] = "wait"]
    /\ UNCHANGED <<built, launched, workers, calls, done, ticking, once, late, crashed,
                   deliveries>>

\* close(a.done)
Signal(k) ==
    /\ ~crashed
    /\ closer[k] = "signal"
    /\ done' = TRUE
    /\ late' = {c \in Calls : pc[c] = "send"}
    /\ closer' = [closer EXCEPT ![k] = "wait"]
    /\ UNCHANGED <<built, launched, workers, calls, ticking, once, crashed, deliveries>>

\* Mutant: the first partition is taken for all.
FirstGone == worker[0] = "exited"

\* wg.Wait
WorkersGone == \A p \in Parts : worker[p] = "exited"

CloseReturn(k) ==
    /\ ~crashed
    /\ \/ closer[k] = "wait" /\ WorkersGone /\ once' = "over"
       \/ closer[k] = "blocked" /\ once = "over" /\ UNCHANGED once
    /\ closer' = [closer EXCEPT ![k] = "done"]
    /\ UNCHANGED <<built, launched, workers, calls, done, ticking, late, crashed, deliveries>>
-----------------------------------------------------------------------------

WorkerStep(p) ==
    \/ Receive(p)
    \/ p = 0 /\ ReceiveTick
    \/ \E failed \in BOOLEAN : Process(p, failed)
    \/ Panic(p)
    \/ SeeDone(p)
    \/ Drained(p)

CloseStep(k) == Signal(k) \/ CloseReturn(k)

Next ==
    \/ Launch
    \/ TickFires
    \/ \E c \in Calls : Send(c) \/ \E r \in MayAsk[c] : Invoke(c, r)
    \/ \E p \in Parts : WorkerStep(p)
    \/ \E c \in Calls, failed \in BOOLEAN : Complete(c, failed)
    \/ \E k \in Closers : Close(k) \/ CloseStep(k)

Spec == Init /\ [][Next]_vars

(* Goroutines are scheduled and handlers return; Start runs to its end.    *)
(* The select of partition 0 takes a message in the end when there is one  *)
(* again and again, as Go picks among the ready cases at random: the       *)
(* ticker cannot starve the queue.  Nobody has to call anything, and no    *)
(* tick has to come.                                                       *)
FairSpec ==
    /\ Spec
    /\ WF_vars(Launch)
    /\ \A c \in Calls : WF_vars(Send(c))
    /\ \A p \in Parts : WF_vars(WorkerStep(p))
    /\ SF_vars(Receive(0))
    /\ WF_vars(\E c \in Calls, failed \in BOOLEAN : Complete(c, failed))
    /\ \A k \in Closers : WF_vars(CloseStep(k))
-----------------------------------------------------------------------------

TypeOK ==
    /\ built \in Builds
    /\ launched \in 0..Partitions
    /\ done \in BOOLEAN /\ ticking \in BOOLEAN /\ tick \in BOOLEAN /\ crashed \in BOOLEAN
    /\ queues \in [Parts -> Seq(Calls)]
    /\ \A p \in Parts : Len(queues[p]) <= QueueSize
    /\ worker \in [Parts -> {"off", "select", "work", "drain", "drainwork", "exited"}]
    /\ at \in [Parts -> Calls \union {None, Tick}]
    /\ next \in Nat /\ dropped \in Nat
    /\ pc \in [Calls -> {"idle", "send", "returned"}]
    /\ req \in [Calls -> Requests \union {None}]
    /\ part \in [Calls -> Parts]
    /\ answer \in [Calls -> {"none", "nil", "full", "closed"}]
    /\ once \in {"free", "running", "over"}
    /\ closer \in [Closers -> {"idle", "signal", "wait", "blocked", "done"}]
    /\ outcome \in [Calls -> Outcomes]
    /\ pending \subseteq Calls
    /\ accepted \in Seq(Calls)
    /\ ended \in [Calls -> {"no", "ok", "error", "panic"}]
    /\ late \subseteq Calls

Accepted(c) == answer[c] = "nil"
Queued(c) == \E i \in DOMAIN queues[part[c]] : queues[part[c]][i] = c
InHand(c) == \E p \in Parts : at[p] = c
Automatic(c) == pc[c] = "returned" /\ req[c].kind = "event" /\ req[c].mode = "auto"

(* Until an automatic delivery given to the queue is settled, a worker has *)
(* it, or a queue that a worker still serves, or a deferring subscriber    *)
(* behind it; a refusal and a panic settle it.  Two kinds are in nobody's  *)
(* hands: one that a call overtaken by Close leaves in the queue of a      *)
(* worker that is gone (CloseProcessesAll), and any around an observer     *)
(* (DeferralHonoured of Pipeline).                                         *)
AcceptedInCustody ==
    \A c \in Calls : built.wrapped # "observed" /\ Automatic(c) /\ outcome[c] = "open" =>
        \/ Queued(c) /\ (worker[part[c]] # "exited" \/ c \in late)
        \/ InHand(c) \/ c \in pending

(* A delivery is acknowledged when the work is done and went well, never   *)
(* on the enqueue; it is nacked because the queue refused it, or the work  *)
(* failed or panicked.                                                     *)
SettledByOutcome ==
    \A c \in Calls :
        /\ outcome[c] = "ack" => ended[c] = "ok" /\ c \notin pending
        /\ outcome[c] = "nack" => answer[c] \in {"full", "closed"} \/ ended[c] \in {"error", "panic"}

(* When any Close has returned, every message accepted from a call that    *)
(* was not under way when the queue was closed has been run, in every      *)
(* partition, and nothing is being run.                                    *)
ClosedMeansDrained ==
    (\E k \in Closers : closer[k] = "done") =>
        \A c \in Calls : /\ Accepted(c) /\ c \notin late => ended[c] # "no"
                         /\ ~InHand(c)

(* The queue keeps the promise of ordered lanes: one lane for each key, or *)
(* one for each message when no order is asked for.                        *)
LaneOf(c) == IF Unordered THEN c ELSE KeyOf(req[c])
Order == INSTANCE Lanes WITH
    Messages <- Calls,
    LaneIds <- Calls \union Topics \union Keys,
    accepted <- [i \in DOMAIN accepted |->
                    [message |-> accepted[i], lane |-> LaneOf(accepted[i])]],
    working <- {c \in Calls : InHand(c)},
    finished <- {c \in Calls : ended[c] # "no"}
KeepsLanes == Order!Spec

(* What was accepted is run, and an automatic delivery settled, in the     *)
(* end: with or without a Close, unless the call was overtaken by one.     *)
AcceptedSettles ==
    []<>(crashed \/ \A c \in Calls : Accepted(c) /\ c \notin late =>
            /\ ended[c] # "no"
            /\ Automatic(c) /\ built.wrapped # "observed" => outcome[c] # "open")

(* Close returns, to everybody who calls it.                               *)
CloseReturns ==
    []<>(crashed \/ \A k \in Closers : closer[k] \in {"idle", "done"})

(* What the comments of NewAsyncQueueingSubscriber and Close say: "ensure  *)
(* all queued messages are processed" before Close returns.                *)
CloseProcessesAll ==
    (\E k \in Closers : closer[k] = "done") => \A p \in Parts : queues[p] = <<>>
=============================================================================
