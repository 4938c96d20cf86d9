------------------------------ MODULE EventBus ------------------------------
(***************************************************************************)
(* The event bus of src/eventbus.go through one life: Start, any mixture   *)
(* of concurrent client calls, and Stop.  One goroutine (the loop) takes   *)
(* messages off a bounded channel, one at a time, and either delivers them *)
(* to the matching subscribers or changes the subscription map; clients    *)
(* offer messages to the channel without ever blocking on it, and those    *)
(* that expect an answer wait for it on a channel of their own.            *)
(*                                                                         *)
(* Every client call is a member of Calls and happens once, so a call also *)
(* names the message it put into the channel.  Handlers are external: they *)
(* return with or without an error, and under a manual settler they may    *)
(* settle the delivery themselves.  A deferring subscriber finishes its    *)
(* work later and settles then.                                            *)
(***************************************************************************)
EXTENDS Naturals, Sequences, FiniteSets, SettlePoint

CONSTANTS
    Calls,              \* the client calls of a behaviour
    MayAsk,             \* the requests each call may make
    Subscribers,
    Topics,             \* topics a message may have
    Reserved,           \* those that start with "$"
    UndeliverableTopic, \* "$undeliverable"
    Patterns,           \* patterns of subscriptions
    Matches,            \* the pairs <<pattern, topic>> that match
    Disposition,        \* DispositionOf each subscriber
    BufferSize,         \* capacity of the channel
    Undeliverable,      \* built WithUndeliverable(true)
    None                \* no request, no message

Publications == [kind : {"event", "sync"}, topic : Topics, mode : Modes]
SubscriptionRequests ==
    [kind : {"subscribe", "unsubscribe", "unsubscribeAll"},
     pattern : Patterns, sub : Subscribers]
Messages == [call : Calls, undeliverable : BOOLEAN]

ASSUME BusAssumption ==
    /\ MayAsk \in [Calls -> SUBSET (Publications \union SubscriptionRequests)]
    /\ None \notin Publications \union SubscriptionRequests
    /\ None \notin Messages
    /\ Reserved \subseteq Topics
    /\ UndeliverableTopic \in Reserved
    /\ Disposition \in [Subscribers -> Dispositions]
    /\ BufferSize \in Nat \ {0}
    /\ Undeliverable \in BOOLEAN

VARIABLES
    started,        \* b.started
    cancelled,      \* b.ctx is done
    closed,         \* b.ch is closed
    crashed,        \* the program panicked: nothing moves any more
    stopper,        \* where the goroutine that calls Stop is
    ch,             \* b.ch, a queue of messages
    subscriptions,  \* b.subscriptions: the patterns of each subscriber
    loop,           \* where the loop is
    msg,            \* the message the loop is working on
    todo,           \* its matching subscribers not yet called
    failed,         \* publishError of doPublishSync is set
    undelivered,    \* b.undelivered
    dropped,        \* b.dropped
    pc,             \* where each call is
    req,            \* what each call asked for
    resp,           \* what is on each call's responseCh
    outcome,        \* how each call's delivery is settled
    pending,        \* work deferred and not finished: <<subscriber, call>>
    before,         \* history: the calls that had returned when a call was made
    reached,        \* history: subscribers called for the message of a call
    grounds         \* history: what happened that may settle a delivery

switches == <<started, cancelled, closed, crashed>>
loopVars == <<loop, msg, todo, failed>>
counters == <<undelivered, dropped>>
clients == <<pc, req, resp, before>>
deliveries == <<outcome, pending, reached, grounds>>
vars == <<switches, stopper, ch, subscriptions, loopVars, counters, clients, deliveries>>

\* In a synchronous publication a subscriber that takes responsibility
\* "complained", an observer "remarked", when it returned an error.
Grounds == {"handled", "failed", "complained", "remarked", "refused", "bounced",
            "unwanted", "unhandled", "approved", "rejected"}

Kind(c) == IF req[c] = None THEN "none" ELSE req[c].kind
IsEvent(c) == Kind(c) = "event"
IsPublication(c) == Kind(c) \in {"event", "sync"}

\* A message republished under UndeliverableTopic keeps the call's context,
\* payload and settler, and is an asynchronous event whatever the call was.
TopicOf(m) == IF m.undeliverable THEN UndeliverableTopic ELSE req[m.call].topic
IsSync(m) == ~m.undeliverable /\ Kind(m.call) = "sync"

Wants(s, m) == \E p \in subscriptions[s] : <<p, TopicOf(m)>> \in Matches

\* Mutant: the break leaves the loop over the subscribers as well.
FirstMatching(m) ==
    LET wanting == {s \in Subscribers : Wants(s, m)}
    IN IF wanting = {} THEN {} ELSE {CHOOSE s \in wanting : TRUE}

Matching(m) == {s \in Subscribers : Wants(s, m)}

Init ==
    /\ started = FALSE /\ cancelled = FALSE /\ closed = FALSE /\ crashed = FALSE
    /\ stopper = "idle"
    /\ ch = <<>>
    /\ subscriptions = [s \in Subscribers |-> {}]
    /\ loop = "off"
    /\ msg = None
    /\ todo = {}
    /\ failed = FALSE
    /\ undelivered = 0 /\ dropped = 0
    /\ pc = [c \in Calls |-> "idle"]
    /\ req = [c \in Calls |-> None]
    /\ resp = [c \in Calls |-> "none"]
    /\ outcome = [c \in Calls |-> "open"]
    /\ pending = {}
    /\ before = [c \in Calls |-> {}]
    /\ reached = [c \in Calls |-> {}]
    /\ grounds = [c \in Calls |-> {}]
-----------------------------------------------------------------------------
(* The two halves of a select on the channel (accept, acceptWithResponse): *)
(* among the ready cases Go takes any; default runs when none is ready.    *)

Room == ~closed /\ Len(ch) < BufferSize

Enqueue(m) ==
    /\ Room
    /\ ch' = Append(ch, m)
    /\ UNCHANGED dropped

\* ctx.Done, or the channel is full and recordDrop counts it.
TurnAway ==
    /\ \/ cancelled /\ UNCHANGED dropped
       \/ ~cancelled /\ ~closed /\ ~Room /\ dropped' = dropped + 1
    /\ UNCHANGED ch

\* A send on a closed channel panics, and takes the program with it.
Crash ==
    /\ crashed' = TRUE
    /\ UNCHANGED <<started, cancelled, closed, stopper, ch, subscriptions,
                   loopVars, counters, clients, deliveries>>

Note(c, ground) == grounds' = [grounds EXCEPT ![c] = @ \union ground]

\* Where a call goes once its message is accepted or refused: Publish returns
\* nil either way, the others wait for their answer.
AfterOffer(kind) == IF kind = "event" THEN "done" ELSE "wait"

\* Mutant: a refusal is only logged.
RefuseSilently(c, r) == UNCHANGED <<resp, outcome>> /\ Note(c, {"refused"})

\* A refused publication is nacked, whoever expects an answer gets an error.
Refuse(c, r) ==
    /\ \/ /\ r.kind = "event"
          /\ outcome' = [outcome EXCEPT ![c] = SettleRefused(r.mode, @)]
          /\ UNCHANGED resp
       \/ /\ r.kind # "event"
          /\ resp' = [resp EXCEPT ![c] = "error"]
          /\ UNCHANGED outcome
    /\ Note(c, {"refused"})

-----------------------------------------------------------------------------
(* Clients: Publish, PublishSync, Subscribe, Unsubscribe, UnsubscribeAll.  *)

\* Mutant: no return after the refusal of a bus that is not started.
GoesOn(kind) == "offer"

\* Where a call goes once a bus that is not started refused it.
AfterIgnored(kind) == AfterOffer(kind)

\* The call, and the look at b.started that comes before the select.
Invoke(c, r) ==
    /\ ~crashed
    /\ pc[c] = "idle"
    /\ req' = [req EXCEPT ![c] = r]
    /\ before' = [before EXCEPT ![c] = {d \in Calls : pc[d] = "done"}]
    /\ \/ /\ started
          /\ pc' = [pc EXCEPT ![c] = "offer"]
          /\ UNCHANGED <<resp, outcome, grounds>>
       \/ /\ ~started
          /\ pc' = [pc EXCEPT ![c] = AfterIgnored(r.kind)]
          /\ Refuse(c, r)
    /\ UNCHANGED <<switches, stopper, ch, subscriptions, loopVars, counters,
                   pending, reached>>

\* The select.
Offer(c) ==
    /\ ~crashed
    /\ pc[c] = "offer"
    /\ pc' = [pc EXCEPT ![c] = AfterOffer(Kind(c))]
    /\ \/ /\ Enqueue([call |-> c, undeliverable |-> FALSE])
          /\ UNCHANGED <<resp, outcome, grounds>>
       \/ TurnAway /\ Refuse(c, req[c])
    /\ UNCHANGED <<switches, stopper, subscriptions, loopVars, undelivered,
                   req, before, pending, reached>>

OfferClosed(c) == ~crashed /\ pc[c] = "offer" /\ closed /\ Crash

\* err := <-responseCh
Return(c) ==
    /\ ~crashed
    /\ pc[c] = "wait"
    /\ resp[c] # "none"
    /\ pc' = [pc EXCEPT ![c] = "done"]
    /\ UNCHANGED <<switches, stopper, ch, subscriptions, loopVars, counters,
                   req, resp, before, deliveries>>

-----------------------------------------------------------------------------
(* The loop.                                                               *)

\* Start: the compare-and-swap, and then wg.Add and the goroutine.
StartSwap ==
    /\ ~crashed
    /\ ~started
    /\ loop = "off"     \* the bus is started once
    /\ started' = TRUE
    /\ loop' = "starting"
    /\ UNCHANGED <<cancelled, closed, crashed, stopper, ch, subscriptions, msg,
                   todo, failed, counters, clients, deliveries>>

StartLoop ==
    /\ ~crashed
    /\ loop = "starting"
    /\ loop' = "select"
    /\ UNCHANGED <<switches, stopper, ch, subscriptions, msg, todo, failed,
                   counters, clients, deliveries>>

\* case msg := <-b.ch, a publication: the subscribers it goes to are fixed,
\* because only the loop itself changes the subscriptions.
ReceivePublication ==
    /\ ~crashed
    /\ loop = "select"
    /\ ch # <<>>
    /\ LET m == Head(ch) IN
        /\ IsPublication(m.call)
        /\ msg' = m
        /\ todo' = Matching(m)
    /\ ch' = Tail(ch)
    /\ loop' = "deliver"
    /\ failed' = FALSE
    /\ UNCHANGED <<switches, stopper, subscriptions, counters, clients, deliveries>>

\* Mutant: UnsubscribeAll takes "*" for a topic like any other.
LeftWithoutAll(r) ==
    CASE r.kind = "subscribe" -> subscriptions[r.sub] \union {r.pattern}
      [] r.kind = "unsubscribe" -> subscriptions[r.sub] \ {r.pattern}
      [] OTHER -> subscriptions[r.sub] \ {"*"}

\* The patterns a request leaves its subscriber.
Left(r) ==
    CASE r.kind = "subscribe" -> subscriptions[r.sub] \union {r.pattern}
      [] r.kind = "unsubscribe" -> subscriptions[r.sub] \ {r.pattern}
      [] OTHER -> {}

\* doSubscribe, doUnsubscribe, doUnsubscribeAll: the map is changed before the
\* subscriber is asked, and keeps the change whatever it answers; one that had
\* no subscription at all is not asked about an unsubscription.
Answer(c, r, failing) ==
    LET asked == r.kind = "unsubscribe" => subscriptions[r.sub] # {}
    IN /\ subscriptions' = [subscriptions EXCEPT ![r.sub] = Left(r)]
       /\ resp' = [resp EXCEPT ![c] = IF failing /\ asked THEN "error" ELSE "ok"]

ReceiveSubscription(failing) ==
    /\ ~crashed
    /\ loop = "select"
    /\ ch # <<>>
    /\ ~IsPublication(Head(ch).call)
    /\ Answer(Head(ch).call, req[Head(ch).call], failing)
    /\ ch' = Tail(ch)
    /\ UNCHANGED <<switches, stopper, loopVars, counters, pc, req, before, deliveries>>

\* A loop launched after Stop closed the channel may read the zero message,
\* whose nil context panics wherever it is used first.
ReceiveClosed ==
    /\ ~crashed
    /\ loop = "select"
    /\ ch = <<>>
    /\ closed
    /\ Crash

\* What a handler says through the settler while it runs: under a manual
\* settler it may decide the delivery.
Words == {"nothing", "ack", "nack"}
MaySay(s, c, word) ==
    word # "nothing" => req[c].mode = "manual" /\ Disposition[s] # "observed"
Said(c, word) ==
    IF word = "nothing" THEN outcome[c] ELSE Settle(req[c].mode, outcome[c], word)
Spoken(word) ==
    CASE word = "ack" -> {"approved"} [] word = "nack" -> {"rejected"} [] OTHER -> {}

\* What the return of subscriber s from message m counts for.
Evidence(s, m, failing) ==
    CASE IsSync(m) /\ ~failing -> {}
      [] IsSync(m) /\ failing ->
            {IF Disposition[s] = "observed" THEN "remarked" ELSE "complained"}
      [] ~IsSync(m) /\ Disposition[s] = "observed" -> {}
      [] OTHER -> IF failing THEN {"failed"}
                  ELSE IF Disposition[s] = "handled" THEN {"handled"} ELSE {}

\* Mutant: a later subscriber's success hides an earlier error.
KeepLastError(failing) == failed' = (IsSync(msg) /\ failing)

\* publishError
KeepFirstError(failing) == failed' = (failed \/ (IsSync(msg) /\ failing))

\* deliverAsync settles on the return, deliverSync leaves that to the caller
\* of PublishSync and keeps the first error for it.
Deliver(s, failing, word) ==
    /\ ~crashed
    /\ loop = "deliver"
    /\ s \in todo
    /\ todo' = todo \ {s}
    /\ LET c == msg.call IN
        /\ MaySay(s, c, word)
        /\ outcome' = [outcome EXCEPT ![c] =
              IF IsSync(msg) THEN Said(c, word)
              ELSE SettleOnReturn(req[c].mode, Said(c, word), Disposition[s], failing)]
        /\ pending' = IF Disposition[s] = "deferred" /\ ~failing
                      THEN pending \union {<<s, c>>} ELSE pending
        /\ reached' = [reached EXCEPT ![c] = @ \union {s}]
        /\ Note(c, Spoken(word) \union Evidence(s, msg, failing))
    /\ KeepFirstError(failing)
    /\ UNCHANGED <<switches, stopper, ch, subscriptions, loop, msg, counters, clients>>

\* Mutant: any match does.
AnyMatch(m) == Matching(m) # {}

\* An observer matching does not make the message delivered.
TakenUp(m) == \E s \in Matching(m) : Disposition[s] # "observed"

Delivered ==
    /\ ~crashed
    /\ loop = "deliver"
    /\ todo = {}
    /\ TakenUp(msg)
    /\ loop' = "finish"
    /\ UNCHANGED <<switches, stopper, ch, subscriptions, msg, todo, failed,
                   counters, clients, deliveries>>

\* Mutant: "$undeliverable" is republished like any topic.
RepublishesAll(m) == Undeliverable

\* A "$" topic is never republished.
Republishes(m) == Undeliverable /\ TopicOf(m) \notin Reserved

Bounce(c, ground) ==
    /\ outcome' = [outcome EXCEPT ![c] = SettleRefused(req[c].mode, @)]
    /\ Note(c, {ground})

Discard(c) ==
    /\ outcome' = [outcome EXCEPT ![c] = SettleOnReturn(req[c].mode, @, "handled", FALSE)]
    /\ Note(c, {"unwanted"})

\* noteUndelivered: count it, then republish (b.started is looked at first),
\* refuse, or treat the delivery as discarded on purpose.
NoteUndelivered ==
    /\ ~crashed
    /\ loop = "deliver"
    /\ todo = {}
    /\ ~TakenUp(msg)
    /\ undelivered' = undelivered + 1
    /\ \/ /\ Republishes(msg) /\ started
          /\ loop' = "republish"
          /\ UNCHANGED <<outcome, grounds>>
       \/ /\ Republishes(msg) /\ ~started
          /\ loop' = "finish"
          /\ Bounce(msg.call, "bounced")
       \/ /\ ~Republishes(msg) /\ Undeliverable
          /\ loop' = "finish"
          /\ Bounce(msg.call, "unhandled")
       \/ /\ ~Undeliverable
          /\ loop' = "finish"
          /\ Discard(msg.call)
    /\ UNCHANGED <<switches, stopper, ch, subscriptions, msg, todo, failed, dropped,
                   clients, pending, reached>>

\* The select of the republication.  The channel is open: Stop closes it after
\* the loop has returned, and a loop that Start launches later finds started
\* down and republishes nothing.
Republish ==
    /\ ~crashed
    /\ loop = "republish"
    /\ loop' = "finish"
    /\ \/ /\ Enqueue([call |-> msg.call, undeliverable |-> TRUE])
          /\ UNCHANGED <<outcome, grounds>>
       \/ /\ TurnAway
          /\ Bounce(msg.call, "bounced")
    /\ UNCHANGED <<switches, stopper, subscriptions, msg, todo, failed, undelivered,
                   clients, pending, reached>>

\* Mutant: an error returns before the response is sent.
NoResponseToError == IF failed THEN "none" ELSE "ok"

\* req.responseCh <- publishError
Response == IF failed THEN "error" ELSE "ok"

\* Done with a publication: a synchronous one is answered.
Finish ==
    /\ ~crashed
    /\ loop = "finish"
    /\ loop' = "select"
    /\ msg' = None
    /\ failed' = FALSE
    /\ resp' = IF IsSync(msg) THEN [resp EXCEPT ![msg.call] = Response] ELSE resp
    /\ UNCHANGED <<switches, stopper, ch, subscriptions, todo, counters,
                   pc, req, before, deliveries>>

\* case <-b.ctx.Done(): whatever is still queued stays there.
Exit ==
    /\ ~crashed
    /\ loop = "select"
    /\ cancelled
    /\ loop' = "exited"
    /\ UNCHANGED <<switches, stopper, ch, subscriptions, msg, todo, failed,
                   counters, clients, deliveries>>

\* A deferring subscriber comes to the end of its work and settles.
Complete(s, c, failing, word) ==
    /\ ~crashed
    /\ <<s, c>> \in pending
    /\ MaySay(s, c, word)
    /\ pending' = pending \ {<<s, c>>}
    /\ outcome' = [outcome EXCEPT ![c] =
          SettleOnReturn(req[c].mode, Said(c, word), "handled", failing)]
    /\ Note(c, Spoken(word) \union {IF failing THEN "failed" ELSE "handled"})
    /\ UNCHANGED <<switches, stopper, ch, subscriptions, loopVars, counters,
                   clients, reached>>

-----------------------------------------------------------------------------
(* Stop: the compare-and-swap, cancel, wait for the loop, close.           *)

StopSwap ==
    /\ ~crashed
    /\ stopper = "idle"
    /\ started
    /\ started' = FALSE
    /\ stopper' = "cancel"
    /\ UNCHANGED <<cancelled, closed, crashed, ch, subscriptions, loopVars,
                   counters, clients, deliveries>>

\* Mutant: the loop is waited for without being told.
StopWithoutCancel ==
    /\ ~crashed
    /\ stopper = "cancel"
    /\ stopper' = "wait"
    /\ UNCHANGED <<switches, ch, subscriptions, loopVars, counters, clients, deliveries>>

StopCancel ==
    /\ ~crashed
    /\ stopper = "cancel"
    /\ cancelled' = TRUE
    /\ stopper' = "wait"
    /\ UNCHANGED <<started, closed, crashed, ch, subscriptions, loopVars,
                   counters, clients, deliveries>>

\* wg.Wait returns when no goroutine is counted: the loop has returned, or
\* Start has not come to wg.Add yet.
StopWait ==
    /\ ~crashed
    /\ stopper = "wait"
    /\ loop \in {"off", "starting", "exited"}
    /\ stopper' = "close"
    /\ UNCHANGED <<switches, ch, subscriptions, loopVars, counters, clients, deliveries>>

StopClose ==
    /\ ~crashed
    /\ stopper = "close"
    /\ closed' = TRUE
    /\ stopper' = "done"
    /\ UNCHANGED <<started, cancelled, crashed, ch, subscriptions, loopVars,
                   counters, clients, deliveries>>

-----------------------------------------------------------------------------

StartStep == StartSwap \/ StartLoop

CallStep(c) == Offer(c) \/ OfferClosed(c) \/ Return(c)

LoopStep ==
    \/ ReceivePublication
    \/ \E failing \in BOOLEAN : ReceiveSubscription(failing)
    \/ ReceiveClosed
    \/ \E s \in Subscribers, failing \in BOOLEAN, word \in Words : Deliver(s, failing, word)
    \/ Delivered
    \/ NoteUndelivered
    \/ Republish
    \/ Finish
    \/ Exit

WorkStep(s, c) ==
    \E failing \in BOOLEAN, word \in Words : Complete(s, c, failing, word)

StopStep == StopCancel \/ StopWait \/ StopClose

Next ==
    \/ StartStep
    \/ \E c \in Calls : CallStep(c) \/ \E r \in MayAsk[c] : Invoke(c, r)
    \/ LoopStep
    \/ \E s \in Subscribers, c \in Calls : WorkStep(s, c)
    \/ StopSwap
    \/ StopStep

Spec == Init /\ [][Next]_vars

\* What is under way and goes on by itself: a goroutine of Start, a call, the
\* loop, deferred work, a Stop once begun.
Progress ==
    \/ StartLoop \/ LoopStep \/ StopStep
    \/ \E c \in Calls : CallStep(c)
    \/ \E s \in Subscribers, c \in Calls : WorkStep(s, c)

(* Goroutines are scheduled, whatever a select picks; handlers return, and *)
(* deferred work comes to an end.  Nobody has to call anything.  Each of   *)
(* these is fair in the program; that not all of them stand still is       *)
(* enough, because none of them goes on for ever.                          *)
FairSpec == Spec /\ WF_vars(Progress)
-----------------------------------------------------------------------------

TypeOK ==
    /\ started \in BOOLEAN /\ cancelled \in BOOLEAN
    /\ closed \in BOOLEAN /\ crashed \in BOOLEAN
    /\ stopper \in {"idle", "cancel", "wait", "close", "done"}
    /\ ch \in Seq(Messages) /\ Len(ch) <= BufferSize
    /\ subscriptions \in [Subscribers -> SUBSET Patterns]
    /\ loop \in {"off", "starting", "select", "deliver", "republish", "finish", "exited"}
    /\ msg \in Messages \union {None}
    /\ loop \in {"deliver", "republish", "finish"} => msg \in Messages
    /\ todo \subseteq Subscribers
    /\ failed \in BOOLEAN
    /\ undelivered \in Nat /\ dropped \in Nat
    /\ pc \in [Calls -> {"idle", "offer", "wait", "done"}]
    /\ req \in [Calls -> Publications \union SubscriptionRequests \union {None}]
    /\ resp \in [Calls -> {"none", "ok", "error"}]
    /\ outcome \in [Calls -> Outcomes]
    /\ pending \subseteq Subscribers \X Calls
    /\ before \in [Calls -> SUBSET Calls]
    /\ reached \in [Calls -> SUBSET Subscribers]
    /\ grounds \in [Calls -> SUBSET Grounds]

Original(c) == [call |-> c, undeliverable |-> FALSE]
Queued(m) == \E i \in DOMAIN ch : ch[i] = m
AtLoop(m) == loop \in {"deliver", "republish", "finish"} /\ msg = m

(* A delivery is acknowledged only for a reason the code has for it: a     *)
(* subscriber that takes responsibility did the work, a handler said so,   *)
(* or the bus was built to discard what nothing matches.  It is nacked     *)
(* only when one of them failed, a handler said so, or the bus refused it. *)
(* An observer's return and a deferral are never a reason.                 *)
VerdictJustified ==
    \A c \in Calls :
        /\ outcome[c] = "ack" => grounds[c] \cap {"handled", "approved", "unwanted"} # {}
        /\ outcome[c] = "nack" => grounds[c] \cap
              {"failed", "rejected", "refused", "bounced", "unhandled"} # {}

Delivering(c) == pc[c] = "done" /\ IsEvent(c) /\ req[c].mode = "auto"

\* Somebody is on the delivery of c, or will come to it.
InCustody(c) ==
    \/ \E u \in BOOLEAN : LET m == [call |-> c, undeliverable |-> u]
                          IN AtLoop(m) \/ (Queued(m) /\ loop # "exited")
    \/ \E s \in Subscribers : <<s, c>> \in pending

\* It lies in the channel, and nobody will ever read that again.
LeftByStop(c) ==
    /\ cancelled
    /\ loop = "exited"
    /\ \E u \in BOOLEAN : Queued([call |-> c, undeliverable |-> u])

(* Until an automatic delivery that was published is settled, somebody is  *)
(* on it: it is queued for a loop that has not left, at the loop, or in a  *)
(* deferring subscriber's hands.  There is one exception, and in it nobody *)
(* is: what the loop leaves in the channel when a Stop has cancelled it.   *)
(* That no document allows this exception is the finding AcceptedFinished; *)
(* what is said here is that there is no other, through refusals,          *)
(* observers and republication alike.                                      *)
AutoInCustody ==
    \A c \in Calls : Delivering(c) /\ outcome[c] = "open" => InCustody(c) \/ LeftByStop(c)

(* A call that waits has its answer, or its message is in exactly one      *)
(* place, from which the answer comes unless a Stop intervenes             *)
(* (AcceptedFinished).  A second answer would block the loop for good, a   *)
(* lost message would block the caller.                                    *)
OneAnswer ==
    \A c \in Calls :
        /\ pc[c] = "wait" /\ resp[c] = "none" => Queued(Original(c)) \/ AtLoop(Original(c))
        /\ resp[c] # "none" => ~Queued(Original(c)) /\ ~AtLoop(Original(c))
        /\ AtLoop(Original(c)) => ~Queued(Original(c))
        /\ \A i, j \in DOMAIN ch : ch[i] = Original(c) /\ ch[j] = Original(c) => i = j

(* PublishSync reports an error if the bus refused the message or a        *)
(* subscriber that takes responsibility returned one for it, whichever     *)
(* came first or last; and it reports none of its own making: what happens *)
(* to the republication under "$undeliverable" is not reported.  Whether   *)
(* an observer's error is to be reported is left open here: doPublishSync  *)
(* does not ask whose error it has, and what comes of that is checked      *)
(* against the documentation in module Pipeline (TapsUnheard).             *)
SyncVerdict ==
    \A c \in Calls : Kind(c) = "sync" /\ resp[c] # "none" =>
        /\ grounds[c] \cap {"refused", "complained"} # {} => resp[c] = "error"
        /\ resp[c] = "error" => grounds[c] \cap {"refused", "complained", "remarked"} # {}

(* What a call was refused has not happened and never will: its message is *)
(* nowhere and no subscriber saw it, so that retrying it is safe.          *)
RefusedHasNoEffect ==
    \A c \in Calls : "refused" \in grounds[c] =>
        /\ pc[c] \in {"wait", "done"}
        /\ reached[c] = {}
        /\ ~Queued(Original(c)) /\ ~AtLoop(Original(c))

Accepted(c) == pc[c] \in {"wait", "done"} /\ "refused" \notin grounds[c]
Subscribes(x, s, t) ==
    /\ Kind(x) = "subscribe"
    /\ req[x].sub = s
    /\ <<req[x].pattern, t>> \in Matches
\* Call u takes back what call x subscribed.
Removes(u, x) ==
    /\ Kind(u) \in {"unsubscribe", "unsubscribeAll"}
    /\ req[u].sub = req[x].sub
    /\ Kind(u) = "unsubscribe" => req[u].pattern = req[x].pattern

(* A message published after Subscribe returned reaches the subscriber:    *)
(* unless some unsubscription may have come after that subscription.       *)
SubscribedHears ==
    \A c, x \in Calls :
        LET processed == /\ IsPublication(c) /\ Accepted(c)
                         /\ ~Queued(Original(c))
                         /\ ~(AtLoop(Original(c)) /\ loop = "deliver")
        IN ( /\ processed
             /\ x \in before[c]
             /\ Kind(x) = "subscribe" /\ Accepted(x)
             /\ Subscribes(x, req[x].sub, req[c].topic)
             /\ \A u \in Calls : pc[u] # "idle" /\ Removes(u, x) => u \in before[x] )
           => req[x].sub \in reached[c]

(* A subscriber reached by a message had asked for it, and not taken that  *)
(* back: an unsubscription that returned before the message was published  *)
(* is in force.                                                            *)
UnsubscribedSilent ==
    \A c \in Calls : \A s \in reached[c] : \E x \in Calls :
        /\ Accepted(x)
        /\ Subscribes(x, s, req[c].topic) \/ Subscribes(x, s, UndeliverableTopic)
        /\ ~ \E u \in before[c] : Removes(u, x) /\ Accepted(u) /\ x \in before[u]

(* The bus does not feed itself: a call is noted as undelivered at most    *)
(* twice, under its own topic and under "$undeliverable".                  *)
UndeliverableEnds == undelivered <= 2 * Cardinality(Calls)

(* Every call on a bus that is not being stopped returns: time and again,  *)
(* none is under way (there are finitely many, so none is for ever).       *)
CallsReturn ==
    []<>(stopper # "idle" \/ \A c \in Calls : pc[c] \notin {"offer", "wait"})

(* Every automatic delivery published to a bus that is not being stopped   *)
(* is settled in the end.                                                  *)
AutoSettles ==
    []<>(stopper # "idle" \/ \A c \in Calls : Delivering(c) => outcome[c] # "open")

(* Stop returns: the loop it waits for leaves its select.                  *)
StopReturns == stopper # "idle" ~> stopper = "done" \/ crashed

\* What an accepted call still has to bring about: its answer, or the verdict
\* on the delivery it handed over.
Unfinished(c) ==
    \/ pc[c] = "wait"
    \/ Delivering(c) /\ outcome[c] = "open"

(* What the README's "Graceful Shutdown" says of Stop, "Waits for          *)
(* in-flight messages": what was accepted before Stop is seen to its end,  *)
(* a PublishSync is answered and an automatic delivery is settled.         *)
AcceptedFinished ==
    \A c \in Calls : Unfinished(c) /\ stopper = "idle" ~> ~Unfinished(c) \/ crashed

(* What the README says of the bus, "Safe for concurrent use", and         *)
(* eventbus.go of the send and the close, "Thread-safe channel operation": *)
(* no legal order of calls panics.                                         *)
NeverPanics == ~crashed
=============================================================================
