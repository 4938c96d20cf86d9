----------------------------- MODULE Lifecycle -----------------------------
(***************************************************************************)
(* Start and Stop of a bus (src/eventbus.go), called again and again and   *)
(* by several goroutines at once.  EventBus has one life of a bus and all  *)
(* that happens in it; here a bus may be started again, and a loop only    *)
(* waits in its select, is at work on a message, or has ended.             *)
(*                                                                         *)
(* The started flag goes up and down, but the context stays done and the   *)
(* channel stays closed: they are made once, by the builder.  The wait     *)
(* group is the library's; Wait panics if somebody counts in before it has *)
(* returned.  Stop is called from outside the loop.                        *)
(***************************************************************************)
EXTENDS Naturals

CONSTANTS
    Goroutines,     \* those that call Start and Stop
    MaxStarts       \* bound on the calls of Start that find the bus stopped

ASSUME MaxStartsAssumption == MaxStarts \in Nat

Lives == 1..MaxStarts

VARIABLES
    started,    \* b.started
    cancelled,  \* b.ctx is done
    closed,     \* b.ch is closed
    crashed,    \* the program panicked: nothing moves any more
    starts,     \* how often the bus has been started
    at,         \* where each goroutine is, in Start or Stop
    life,       \* the life a goroutine in Start begins, or 0
    loop,       \* the loop of each life
    overtaken   \* history: a Stop passed a Start that had not come to wg.Add

vars == <<started, cancelled, closed, crashed, starts, at, life, loop, overtaken>>

InStop == {"cancel", "wait", "blocked", "woken", "close"}
Places == {"idle", "launch"} \union InStop
Alive(l) == loop[l] \in {"select", "working"}

\* The goroutines b.wg counts.
Counted == {l \in Lives : Alive(l)}

Init ==
    /\ started = FALSE /\ cancelled = FALSE /\ closed = FALSE /\ crashed = FALSE
    /\ starts = 0
    /\ at = [g \in Goroutines |-> "idle"]
    /\ life = [g \in Goroutines |-> 0]
    /\ loop = [l \in Lives |-> "none"]
    /\ overtaken = FALSE

Goes(g, from, to) == ~crashed /\ at[g] = from /\ at' = [at EXCEPT ![g] = to]

Crash == crashed' = TRUE
-----------------------------------------------------------------------------
(* Start.  One that finds the bus started changes nothing.                 *)

Begins(g) ==
    /\ starts < MaxStarts
    /\ Goes(g, "idle", "launch")
    /\ started' = TRUE
    /\ starts' = starts + 1
    /\ life' = [life EXCEPT ![g] = starts + 1]
    /\ UNCHANGED <<cancelled, closed, crashed, loop, overtaken>>

\* Mutant: the flag is set and not compared.
StartUnchecked(g) == Begins(g)

StartSwap(g) == ~started /\ Begins(g)

\* wg.Add, and the goroutine is there; Start returns.
Launch(g) ==
    /\ Goes(g, "launch", "idle")
    /\ loop' = [loop EXCEPT ![life[g]] = "select"]
    /\ life' = [life EXCEPT ![g] = 0]
    /\ UNCHANGED <<started, cancelled, closed, crashed, starts, overtaken>>
-----------------------------------------------------------------------------
(* The loop of a life.  Among the ready cases of its select Go takes any.  *)

Receive(l) ==
    /\ ~crashed /\ loop[l] = "select"
    /\ loop' = [loop EXCEPT ![l] = "working"]
    /\ UNCHANGED <<started, cancelled, closed, crashed, starts, at, life, overtaken>>

\* The zero message of a closed channel, whose nil context panics.
ReceiveClosed(l) ==
    /\ ~crashed /\ loop[l] = "select"
    /\ closed
    /\ Crash
    /\ UNCHANGED <<started, cancelled, closed, starts, at, life, loop, overtaken>>

Finish(l) ==
    /\ ~crashed /\ loop[l] = "working"
    /\ loop' = [loop EXCEPT ![l] = "select"]
    /\ UNCHANGED <<started, cancelled, closed, crashed, starts, at, life, overtaken>>

\* The last to leave wakes everybody who waits for the group.
Leaves(l) ==
    /\ ~crashed /\ loop[l] = "select"
    /\ loop' = [loop EXCEPT ![l] = "exited"]
    /\ at' = IF Counted = {l}
             THEN [g \in Goroutines |-> IF at[g] = "blocked" THEN "woken" ELSE at[g]]
             ELSE at
    /\ UNCHANGED <<started, cancelled, closed, crashed, starts, life, overtaken>>

\* Mutant: the loop looks at the flag and not at its context.
ExitWhenNotStarted(l) == ~started /\ Leaves(l)

Exit(l) == cancelled /\ Leaves(l)
-----------------------------------------------------------------------------
(* Stop.  One that finds the bus stopped changes nothing.                  *)

Ends(g) ==
    /\ Goes(g, "idle", "cancel")
    /\ started' = FALSE
    /\ overtaken' = (overtaken \/ \E h \in Goroutines : at[h] = "launch")
    /\ UNCHANGED <<cancelled, closed, crashed, starts, life, loop>>

\* Mutant: the flag is cleared and not compared.
StopUnchecked(g) == Ends(g)

StopSwap(g) == started /\ Ends(g)

StopCancel(g) ==
    /\ Goes(g, "cancel", "wait")
    /\ cancelled' = TRUE
    /\ UNCHANGED <<started, closed, crashed, starts, life, loop, overtaken>>

\* Mutant: nobody is waited for.
StopWithoutWait(g) ==
    /\ Goes(g, "wait", "close")
    /\ UNCHANGED <<started, cancelled, closed, crashed, starts, life, loop, overtaken>>

StopWait(g) ==
    /\ Goes(g, "wait", IF Counted = {} THEN "close" ELSE "blocked")
    /\ UNCHANGED <<started, cancelled, closed, crashed, starts, life, loop, overtaken>>

\* Wait goes on, and looks whether the group is in use again.
StopWoken(g) ==
    /\ Goes(g, "woken", "close")
    /\ \/ Counted = {} /\ UNCHANGED crashed
       \/ Counted # {} /\ Crash
    /\ UNCHANGED <<started, cancelled, closed, starts, life, loop, overtaken>>

StopClose(g) ==
    /\ Goes(g, "close", "idle")
    /\ closed' = TRUE
    /\ \/ ~closed /\ UNCHANGED crashed
       \/ closed /\ Crash
    /\ UNCHANGED <<started, cancelled, starts, life, loop, overtaken>>
-----------------------------------------------------------------------------

CallStep(g) == Launch(g) \/ StopCancel(g) \/ StopWait(g) \/ StopWoken(g) \/ StopClose(g)

LoopStep(l) == Receive(l) \/ ReceiveClosed(l) \/ Finish(l) \/ Exit(l)

Next ==
    \/ \E g \in Goroutines : StartSwap(g) \/ StopSwap(g) \/ CallStep(g)
    \/ \E l \in Lives : LoopStep(l)

Spec == Init /\ [][Next]_vars

(* Goroutines are scheduled and handlers return; a select whose context    *)
(* is done for good does not take another case for ever, as Go chooses     *)
(* among the ready ones at random.                                         *)
FairSpec ==
    /\ Spec
    /\ \A g \in Goroutines : WF_vars(CallStep(g))
    /\ \A l \in Lives : WF_vars(LoopStep(l)) /\ SF_vars(Exit(l))
-----------------------------------------------------------------------------

TypeOK ==
    /\ started \in BOOLEAN /\ cancelled \in BOOLEAN /\ closed \in BOOLEAN
    /\ crashed \in BOOLEAN /\ overtaken \in BOOLEAN
    /\ starts \in 0..MaxStarts
    /\ at \in [Goroutines -> Places]
    /\ life \in [Goroutines -> 0..MaxStarts]
    /\ \A g \in Goroutines :
          /\ at[g] = "launch" => life[g] \in Lives
          /\ at[g] \in InStop \ {"cancel"} => cancelled
    /\ loop \in [Lives -> {"none", "select", "working", "exited"}]

(* "Use atomic compare-and-swap to prevent double-start"                   *)
(* (src/eventbus.go:256), as far as it goes: however many goroutines call  *)
(* Start, until somebody calls Stop there are no two loops.                *)
OneLoopUntilStop ==
    \A k, l \in Lives :
        Alive(k) /\ Alive(l) /\ k # l =>
            cancelled \/ \E g \in Goroutines : at[g] = "cancel"

(* A bus that is started once, and stopped by however many goroutines once *)
(* Start has come to its wg.Add, does not panic: the channel is closed     *)
(* once, after the loop.                                                   *)
PanicsOnlyRestarted == crashed => starts > 1 \/ overtaken

(* When all calls of Start and Stop have returned and the bus reads as     *)
(* stopped, no loop is left, over any number of lives; a Start overtaken   *)
(* by a Stop is the exception.                                             *)
StoppedMeansGone ==
    ~started /\ ~overtaken /\ (\A g \in Goroutines : at[g] = "idle") => Counted = {}

(* Once the context is done every loop ends, also one that is started      *)
(* later, unless the program panics first.                                 *)
LoopsEnd == \A l \in Lives : Alive(l) /\ cancelled ~> loop[l] = "exited" \/ crashed
=============================================================================
