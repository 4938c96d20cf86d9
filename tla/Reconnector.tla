----------------------------- MODULE Reconnector -----------------------------
(***************************************************************************)
(* The monitors of src/client.go: SubscriptionTracker notes what a client  *)
(* reports about its connection and its subscriptions, and AutoReconnector *)
(* embeds one and answers a connection lost by an error with a goroutine   *)
(* that connects again, with growing delays, and subscribes again to what  *)
(* was tracked when it started.  Every such loss starts another goroutine, *)
(* also while an earlier one still tries.                                  *)
(*                                                                         *)
(* Client is an interface, so the client, the server and the user who      *)
(* drives both are external: Connect and Subscribe succeed or fail, and    *)
(* the monitor is told of whatever happened in the same step.  What the    *)
(* getters return is the state itself.                                     *)
(***************************************************************************)
EXTENDS Integers

CONSTANTS
    Patterns,       \* what the user may subscribe to
    Builds,         \* how the reconnector may have been built
    MaxLosses,      \* bound: how many lost connections are answered
    MaxCalls,       \* bound: how many calls the user makes
    AttemptCap,     \* bound: attempts are counted up to here
    None            \* nobody

\* b to the power of n, as a recursive function: what it computes can be proved,
\* of the ^ of module Naturals nothing.
Power(b, n) == LET p[k \in Nat] == IF k = 0 THEN 1 ELSE b * p[k - 1] IN p[n]

\* Attempts are counted until the delay has reached its maximum, at the least.
ASSUME ReconnectorAssumption ==
    /\ MaxLosses \in Nat /\ MaxCalls \in Nat /\ AttemptCap \in Nat \ {0}
    /\ None \notin Nat
    /\ Builds \subseteq [enabled : BOOLEAN, maxRetries : Nat \union {-1},
                         initialDelay : Nat \ {0}, maxDelay : Nat \ {0}, backoffFactor : Nat \ {0, 1}]
    /\ \A b \in Builds :
          /\ b.maxRetries < AttemptCap
          /\ b.maxRetries > 0 \/ b.initialDelay * Power(b.backoffFactor, AttemptCap) >= b.maxDelay

Reconnections == 1..MaxLosses

VARIABLES
    built,          \* the configuration, which nothing changes
    enabled,        \* a.enabled
    connected,      \* s.connected
    lastError,      \* s.lastError is not nil
    subscriptions,  \* the keys of s.subscriptions
    cancelled,      \* the client's context is done
    up,             \* external: there is a connection
    server,         \* external: the subscriptions the server holds for it
    pc,             \* where each reconnection goroutine is
    attempts,       \* its attempts
    delay,          \* its delay
    noted,          \* its previousSubscriptions
    todo,           \* those it has still to subscribe to
    calls,          \* the user's calls so far
    owner,          \* history: the goroutine that made the connection, if one did
    excused,        \* history: patterns refused or unsubscribed on this connection
    wanted,         \* history: what the user subscribed to last, and not unsubscribed
    overtaken,      \* history: unsubscribed while on the list of a goroutine
    extra           \* history: attempts of each since it was told to stop

config == <<built, enabled>>
tracker == <<connected, lastError, subscriptions>>
outside == <<cancelled, up, server, calls>>
goroutines == <<pc, attempts, delay, noted, todo>>
history == <<owner, excused, wanted, overtaken, extra>>
vars == <<config, tracker, outside, goroutines, history>>

Init ==
    /\ built \in Builds /\ enabled = built.enabled
    /\ connected = FALSE /\ lastError = FALSE /\ subscriptions = {}
    /\ cancelled = FALSE /\ up = FALSE /\ server = {} /\ calls = 0
    /\ pc = [g \in Reconnections |-> "off"]
    /\ attempts = [g \in Reconnections |-> 0]
    /\ delay = [g \in Reconnections |-> 0]
    /\ noted = [g \in Reconnections |-> {}]
    /\ todo = [g \in Reconnections |-> {}]
    /\ owner = None /\ excused = {} /\ wanted = {} /\ overtaken = {}
    /\ extra = [g \in Reconnections |-> 0]

UpTo(bound, n) == IF n < bound THEN n ELSE bound

\* In the loop, or about to enter it.
Trying(g) == pc[g] \in {"begin", "check", "wait", "attempt", "connect"}
Active(g) == Trying(g) \/ pc[g] = "resubscribe"

\* What the goroutine will subscribe to, if it gets that far.
StillToCome(g) ==
    IF Trying(g) THEN noted[g] ELSE IF pc[g] = "resubscribe" THEN todo[g] ELSE {}
-----------------------------------------------------------------------------
(* The tracker's callbacks.                                                *)

OnConnect == connected' = TRUE /\ lastError' = FALSE /\ UNCHANGED subscriptions

\* Subscriptions are kept for the next connection.
TrackDisconnect(failed) == connected' = FALSE /\ lastError' = failed /\ UNCHANGED subscriptions

OnSubscribe(p) == subscriptions' = subscriptions \union {p} /\ UNCHANGED <<connected, lastError>>

\* Mutant: a pattern unsubscribed is still listed.
KeepUnsubscribed(gone) == UNCHANGED <<connected, lastError, subscriptions>>

\* OnUnsubscribe and OnUnsubscribeAll.
OnUnsubscribe(gone) == subscriptions' = subscriptions \ gone /\ UNCHANGED <<connected, lastError>>

\* The goroutine is started when enabled is read, after the tracker's update.
OnDisconnect(failed) ==
    /\ TrackDisconnect(failed)
    /\ \/ /\ enabled /\ failed
          /\ \E g \in Reconnections :
                /\ pc[g] = "off" /\ \A h \in 1..(g - 1) : pc[h] # "off"
                /\ pc' = [pc EXCEPT ![g] = "begin"]
       \/ ~(enabled /\ failed) /\ UNCHANGED pc
    /\ UNCHANGED <<attempts, delay, noted, todo>>
-----------------------------------------------------------------------------
(* The client's connection and the user's calls.                           *)

\* A new connection knows of no subscription.
ConnectionMade(g) ==
    /\ up' = TRUE /\ server' = {}
    /\ owner' = g /\ excused' = {}
    /\ OnConnect

ConnectionGone(failed) ==
    /\ up' = FALSE /\ server' = {}
    /\ OnDisconnect(failed)
    /\ UNCHANGED <<config, cancelled, history>>

Lose == up /\ ConnectionGone(TRUE) /\ UNCHANGED calls

UserCall == calls < MaxCalls /\ calls' = calls + 1

Connect ==
    /\ UserCall /\ ~up /\ ~cancelled
    /\ ConnectionMade(None)
    /\ UNCHANGED <<config, cancelled, goroutines, wanted, overtaken, extra>>

Disconnect == UserCall /\ ConnectionGone(FALSE)

Subscribe(p) ==
    /\ UserCall /\ up
    /\ server' = server \union {p}
    /\ OnSubscribe(p)
    /\ wanted' = wanted \union {p}
    /\ overtaken' = overtaken \ {p}
    /\ excused' = excused \ {p}
    /\ UNCHANGED <<config, cancelled, up, goroutines, owner, extra>>

Unsubscribe(gone) ==
    /\ UserCall
    /\ server' = server \ gone
    /\ OnUnsubscribe(gone)
    /\ wanted' = wanted \ gone
    /\ overtaken' = overtaken \union
                    {p \in gone : \E g \in Reconnections : p \in StillToCome(g)}
    /\ excused' = excused \union gone
    /\ UNCHANGED <<config, cancelled, up, goroutines, owner, extra>>

\* Whoever is told to stop starts to count its further attempts.
SetEnabled(on) ==
    /\ UserCall
    /\ enabled' = on
    /\ extra' = IF cancelled \/ on = enabled THEN extra ELSE [g \in Reconnections |-> 0]
    /\ UNCHANGED <<built, tracker, cancelled, up, server, goroutines,
                   owner, excused, wanted, overtaken>>

Cancel ==
    /\ UserCall
    /\ ~cancelled /\ cancelled' = TRUE
    /\ UNCHANGED <<config, tracker, up, server, goroutines, history>>
-----------------------------------------------------------------------------
(* attemptReconnection, one goroutine.                                     *)

Goto(g, l) == pc' = [pc EXCEPT ![g] = l]

\* Before the loop: under the lock, enabled again, and the topics noted.
Begin(g) ==
    /\ pc[g] = "begin"
    /\ \/ /\ enabled /\ Goto(g, "check")
          /\ noted' = [noted EXCEPT ![g] = subscriptions]
          /\ delay' = [delay EXCEPT ![g] = built.initialDelay]
       \/ ~enabled /\ Goto(g, "done") /\ UNCHANGED <<noted, delay>>
    /\ UNCHANGED <<config, tracker, outside, attempts, todo, history>>

\* Mutant: one attempt too many.
LimitPassed(g) == built.maxRetries > 0 /\ attempts[g] > built.maxRetries

\* Mutant: zero is a limit like any other.
ZeroIsALimit(g) == built.maxRetries # -1 /\ attempts[g] >= built.maxRetries

LimitReached(g) == built.maxRetries > 0 /\ attempts[g] >= built.maxRetries

\* Mutant: the context is not asked.
IgnoreContext(g) == enabled /\ ~LimitReached(g)

\* Mutant: enabled is read only once, when the goroutine starts.
EnabledOnce(g) == ~LimitReached(g) /\ ~cancelled

ShouldContinue(g) == enabled /\ ~LimitReached(g) /\ ~cancelled

\* The head of the loop; the first attempt does not wait.
Check(g) ==
    /\ pc[g] = "check"
    /\ \/ ~ShouldContinue(g) /\ Goto(g, "done")
       \/ ShouldContinue(g) /\ attempts[g] > 0 /\ Goto(g, "wait")
       \/ ShouldContinue(g) /\ attempts[g] = 0 /\ Goto(g, "attempt")
    /\ UNCHANGED <<config, tracker, outside, attempts, delay, noted, todo, history>>

\* The select: time.After, or ctx.Done.
Wait(g) ==
    /\ pc[g] = "wait"
    /\ \/ Goto(g, "attempt")
       \/ cancelled /\ Goto(g, "done")
    /\ UNCHANGED <<config, tracker, outside, attempts, delay, noted, todo, history>>

Attempt(g) ==
    /\ pc[g] = "attempt"
    /\ Goto(g, "connect")
    /\ attempts' = [attempts EXCEPT ![g] = UpTo(AttemptCap, @ + 1)]
    /\ extra' = IF enabled /\ ~cancelled THEN extra ELSE [extra EXCEPT ![g] = UpTo(2, @ + 1)]
    /\ UNCHANGED <<config, tracker, outside, delay, noted, todo, owner, excused, wanted, overtaken>>

Resubscribing(g) ==
    /\ Goto(g, IF noted[g] = {} THEN "done" ELSE "resubscribe")
    /\ todo' = [todo EXCEPT ![g] = noted[g]]
    /\ UNCHANGED <<config, cancelled, calls, attempts, delay, noted, wanted, overtaken, extra>>

ConnectMakesConnection(g) ==
    /\ pc[g] = "connect"
    /\ ~up
    /\ ConnectionMade(g)
    /\ Resubscribing(g)

\* Somebody else has connected: the client may take that for success.
ConnectFindsConnection(g) ==
    /\ pc[g] = "connect"
    /\ up
    /\ Resubscribing(g)
    /\ UNCHANGED <<tracker, up, server, owner, excused>>

\* Mutant: the delay is capped before it grows.
CapThenGrow(d) == UpTo(built.maxDelay, d) * built.backoffFactor

NextDelay(d) == UpTo(built.maxDelay, d * built.backoffFactor)

ConnectFails(g) ==
    /\ pc[g] = "connect"
    /\ Goto(g, "check")
    /\ delay' = [delay EXCEPT ![g] = NextDelay(@)]
    /\ UNCHANGED <<config, tracker, outside, attempts, noted, todo, history>>

\* Mutant: the first refusal ends the resubscription.
StopAtRefusal(g, p, ok) == IF ok THEN todo[g] \ {p} ELSE {}

Remaining(g, p, ok) == todo[g] \ {p}

\* One round of resubscribeToPreviousTopics: a refusal is logged, and left.
Resubscribe(g, p, ok) ==
    /\ pc[g] = "resubscribe"
    /\ p \in todo[g]
    /\ todo' = [todo EXCEPT ![g] = Remaining(g, p, ok)]
    /\ Goto(g, IF todo'[g] = {} THEN "done" ELSE "resubscribe")
    /\ \/ /\ ok /\ up
          /\ server' = server \union {p}
          /\ OnSubscribe(p)
          /\ UNCHANGED excused
       \/ /\ ~ok
          /\ excused' = IF p \in server THEN excused ELSE excused \union {p}
          /\ UNCHANGED <<tracker, server>>
    /\ UNCHANGED <<config, cancelled, up, calls, attempts, delay, noted,
                   owner, wanted, overtaken, extra>>

Step(g) ==
    \/ Begin(g) \/ Check(g) \/ Wait(g) \/ Attempt(g)
    \/ ConnectMakesConnection(g) \/ ConnectFindsConnection(g) \/ ConnectFails(g)
    \/ \E p \in Patterns, ok \in BOOLEAN : Resubscribe(g, p, ok)
-----------------------------------------------------------------------------

User ==
    \/ Connect \/ Disconnect \/ Cancel
    \/ \E p \in Patterns : Subscribe(p) \/ Unsubscribe({p})
    \/ Unsubscribe(Patterns)
    \/ \E on \in BOOLEAN : SetEnabled(on)

Next == Lose \/ User \/ \E g \in Reconnections : Step(g)

Spec == Init /\ [][Next]_vars

(* Goroutines are scheduled, timers fire and the client's calls return.    *)
(* Nobody promises that a server answers; ComesBack asks for what follows  *)
(* if Connect, tried again and again, succeeds at last.                    *)
FairSpec ==
    /\ Spec
    /\ \A g \in Reconnections : WF_vars(Step(g)) /\ SF_vars(ConnectMakesConnection(g))
-----------------------------------------------------------------------------

TypeOK ==
    /\ built \in Builds /\ enabled \in BOOLEAN
    /\ connected \in BOOLEAN /\ lastError \in BOOLEAN /\ subscriptions \subseteq Patterns
    /\ cancelled \in BOOLEAN /\ up \in BOOLEAN /\ server \subseteq Patterns /\ calls \in 0..MaxCalls
    /\ pc \in [Reconnections -> {"off", "begin", "check", "wait", "attempt", "connect",
                                 "resubscribe", "done"}]
    /\ attempts \in [Reconnections -> 0..AttemptCap]
    /\ built.maxRetries > 0 => \A g \in Reconnections : attempts[g] <= built.maxRetries
    /\ delay \in [Reconnections -> Nat]
    /\ noted \in [Reconnections -> SUBSET Patterns]
    /\ todo \in [Reconnections -> SUBSET Patterns]
    /\ owner \in Reconnections \union {None}
    /\ excused \subseteq Patterns /\ wanted \subseteq Patterns /\ overtaken \subseteq Patterns
    /\ extra \in [Reconnections -> 0..2]

(* A goroutine told to stop, by SetEnabled(false) or by its context, is    *)
(* past the check at most once more: the flag is read before the back-off  *)
(* wait and not after it.                                                  *)
AtMostOneMore == \A g \in Reconnections : extra[g] <= 1

(* What a goroutine waits grows by the factor from failure to failure, and *)
(* never beyond the maximum, although the builder accepts an initial delay *)
(* beyond it.  Which wait is the first to grow is left open:               *)
(* WithInitialDelay speaks of "the initial delay before the first          *)
(* reconnection attempt" (src/client.go:267), while the code makes that    *)
(* attempt at once and then begins with the initial delay times the factor.*)
BackoffGrows ==
    \E first \in {built.initialDelay, built.initialDelay * built.backoffFactor} :
        \A g \in Reconnections :
            pc[g] = "wait" =>
                delay[g] = UpTo(built.maxDelay,
                                first * Power(built.backoffFactor, attempts[g] - 1))

(* While the connection that a goroutine made lasts and its work is done,  *)
(* the server has all it noted, but for what the server refused and what   *)
(* the user has unsubscribed since: one refusal costs one subscription.    *)
Restored ==
    \A g \in Reconnections :
        up /\ owner = g /\ pc[g] = "done" => noted[g] \subseteq server \union excused

(* What the user unsubscribed is not subscribed again, neither in the      *)
(* tracker nor at the server, unless the unsubscription overtook a         *)
(* reconnection that had the pattern on its list.                          *)
OnlyOvertakenReturn == (subscriptions \union server) \ wanted \subseteq overtaken

(* A connection lost while somebody tries to reconnect is made again,      *)
(* unless reconnection is switched off or cancelled or the retries that    *)
(* were configured are used up.  Zero retries are no limit.                *)
UsedUp == \E g \in Reconnections : built.maxRetries > 0 /\ attempts[g] = built.maxRetries
ComesBack ==
    lastError /\ (\E g \in Reconnections : Trying(g)) ~>
        ~lastError \/ ~enabled \/ cancelled \/ UsedUp

(* A reconnection does not go on for ever once it is switched off, or      *)
(* cancelled, or has a limit.                                              *)
Stops ==
    \A g \in Reconnections :
        []<>(~Active(g) \/ (enabled /\ ~cancelled /\ built.maxRetries <= 0))
=============================================================================
