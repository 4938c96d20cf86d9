------------------------------- MODULE Settler -------------------------------
(***************************************************************************)
(* One delivery's settler (src/settler.go, type settler) shared by         *)
(* concurrent callers.  A call runs settle or Keepalive: it loads the      *)
(* settled flag, asks the receiver whether the token is still valid,       *)
(* claims the flag with a compare-and-swap, calls the broker, and releases *)
(* the claim when the broker call fails.  Each of those is a step of its   *)
(* own, because any other caller, or the expiry of the token, may come     *)
(* between two of them.                                                    *)
(*                                                                         *)
(* The broker (SettleOps) is external.  A settle verb that returns an      *)
(* error has usually settled nothing, but the broker may have applied it   *)
(* and only the answer was lost; `lost' counts those.                      *)
(***************************************************************************)
EXTENDS Naturals

CONSTANTS
    Callers,    \* goroutines sharing the delivery
    MaxCalls    \* bound: calls one caller makes

ASSUME MaxCallsAssumption == MaxCalls \in Nat

VARIABLES
    settled,    \* settler.settled
    stale,      \* TRUE once SettleOps.Valid answers false
    pc,         \* where each caller is inside settle or Keepalive
    verb,       \* the verb of each caller's current or last call
    calls,      \* calls begun by each caller
    began,      \* what was already true when the current call was made
    outcome,    \* history: the verdict of the caller told (true, nil)
    wins,       \* history: calls that returned (true, nil)
    applied,    \* history: settle verbs the broker carried out
    lost        \* history: those among them that the caller saw fail

vars == <<settled, stale, pc, verb, calls, began, outcome, wins, applied, lost>>

Verdicts == {"ack", "nack"}
Verbs == Verdicts \union {"keepalive"}
Places == {"idle", "valid", "claim", "broker", "release", "extend"}

Init ==
    /\ settled = FALSE
    /\ stale = FALSE
    /\ pc = [c \in Callers |-> "idle"]
    /\ verb = [c \in Callers |-> "ack"]
    /\ calls = [c \in Callers |-> 0]
    /\ began = [c \in Callers |-> [won |-> FALSE, stale |-> FALSE]]
    /\ outcome = "open"
    /\ wins = 0
    /\ applied = 0
    /\ lost = 0

-----------------------------------------------------------------------------
(* The steps of a call.  An operator marked "Mutant" is a mistake the code *)
(* might have made; it belongs to no behaviour of Spec.                    *)

call == <<verb, calls, began>>
history == <<outcome, wins, applied, lost>>

GoesTo(c, place) == pc' = [pc EXCEPT ![c] = place]

Call(c, v) ==
    /\ pc[c] = "idle"
    /\ calls[c] < MaxCalls
    /\ calls' = [calls EXCEPT ![c] = @ + 1]
    /\ verb' = [verb EXCEPT ![c] = v]
    /\ began' = [began EXCEPT ![c] = [won |-> wins > 0, stale |-> stale]]
    /\ UNCHANGED <<settled, stale, history>>

(* Mutant: the flag is not loaded first.                                   *)
BeginWithoutLoad(c, v) == Call(c, v) /\ GoesTo(c, "valid")

(* The call and its first load of the flag: a delivery already settled     *)
(* answers "not me" without asking whether the token is stale.             *)
Begin(c, v) == Call(c, v) /\ GoesTo(c, IF settled THEN "idle" ELSE "valid")

(* ops.Valid: a stale token returns StaleError and goes no further.        *)
CheckValid(c) ==
    /\ pc[c] = "valid"
    /\ GoesTo(c, IF stale THEN "idle"
                 ELSE IF verb[c] = "keepalive" THEN "extend" ELSE "claim")
    /\ UNCHANGED <<settled, stale, call, history>>

(* Mutant: the flag is set without comparing it first.                     *)
ClaimWithoutCompare(c) ==
    /\ pc[c] = "claim"
    /\ GoesTo(c, "broker")
    /\ settled' = TRUE
    /\ UNCHANGED <<stale, call, history>>

(* CompareAndSwap(false, true): the loser answers "not me".                *)
Claim(c) ==
    /\ pc[c] = "claim"
    /\ GoesTo(c, IF settled THEN "idle" ELSE "broker")
    /\ settled' = TRUE
    /\ UNCHANGED <<stale, call, history>>

(* Mutant: the claim is released whatever the broker answered.             *)
AcceptAndRelease(c) ==
    /\ pc[c] = "broker"
    /\ GoesTo(c, "idle")
    /\ settled' = FALSE
    /\ outcome' = verb[c]
    /\ wins' = wins + 1
    /\ applied' = applied + 1
    /\ UNCHANGED <<stale, call, lost>>

(* do() returned nil: the claim is kept for good and the caller is told    *)
(* that it settled the delivery.                                           *)
BrokerAccepts(c) ==
    /\ pc[c] = "broker"
    /\ GoesTo(c, "idle")
    /\ outcome' = verb[c]
    /\ wins' = wins + 1
    /\ applied' = applied + 1
    /\ UNCHANGED <<settled, stale, call, lost>>

(* do() returned an error, whether or not the broker carried the verb out. *)
BrokerFails(c, carriedOut) ==
    /\ pc[c] = "broker"
    /\ GoesTo(c, "release")
    /\ applied' = IF carriedOut THEN applied + 1 ELSE applied
    /\ lost' = IF carriedOut THEN lost + 1 ELSE lost
    /\ UNCHANGED <<settled, stale, call, outcome, wins>>

(* Mutant: the error is returned with the flag still up.                   *)
ReleaseForgotten(c) ==
    /\ pc[c] = "release"
    /\ GoesTo(c, "idle")
    /\ UNCHANGED <<settled, stale, call, history>>

(* settled.Store(false) after a failure: the delivery is still open.       *)
Release(c) ==
    /\ pc[c] = "release"
    /\ GoesTo(c, "idle")
    /\ settled' = FALSE
    /\ UNCHANGED <<stale, call, history>>

(* ops.Keepalive, whatever it answers: nothing of the settler changes.     *)
Extend(c) ==
    /\ pc[c] = "extend"
    /\ GoesTo(c, "idle")
    /\ UNCHANGED <<settled, stale, call, history>>

(* The lease lapses, the channel reconnects: the token goes stale.         *)
Expire ==
    /\ ~stale
    /\ stale' = TRUE
    /\ UNCHANGED <<settled, pc, call, history>>

(* The rest of a call once it is under way.                                *)
Continue(c) ==
    \/ CheckValid(c)
    \/ Claim(c)
    \/ BrokerAccepts(c)
    \/ \E carriedOut \in BOOLEAN : BrokerFails(c, carriedOut)
    \/ Release(c)
    \/ Extend(c)

Next ==
    \/ \E c \in Callers : Continue(c) \/ \E v \in Verbs : Begin(c, v)
    \/ Expire

Spec == Init /\ [][Next]_vars

(* A call under way goes on: goroutines are scheduled and every broker     *)
(* call returns, with an answer or an error.  Nobody has to make a call.   *)
FairSpec == Spec /\ \A c \in Callers : WF_vars(Continue(c))

-----------------------------------------------------------------------------

TypeOK ==
    /\ settled \in BOOLEAN
    /\ stale \in BOOLEAN
    /\ pc \in [Callers -> Places]
    /\ verb \in [Callers -> Verbs]
    /\ calls \in [Callers -> 0..MaxCalls]
    /\ began \in [Callers -> [won : BOOLEAN, stale : BOOLEAN]]
    /\ outcome \in Verdicts \union {"open"}
    /\ wins \in Nat
    /\ applied \in Nat
    /\ lost \in Nat

(* A caller that took the claim and has not yet kept or released it.       *)
Holds(c) == pc[c] \in {"broker", "release"}

(* Two goroutines are never both between taking the claim and the end of   *)
(* their call: the compare-and-swap lets one through, and a failing caller *)
(* releases only its own claim, never that of somebody who won meanwhile.  *)
OneAtTheBroker == \A c, d \in Callers : Holds(c) /\ Holds(d) => c = d

(* The flag never leaks and is never lost: it is up exactly while a caller *)
(* holds the claim or after one was told it settled the delivery.          *)
ClaimAccounted == settled <=> (wins > 0 \/ \E c \in Callers : Holds(c))

(* A delivery settles once: one caller at most is told (true, nil), and    *)
(* the broker carries out a second verb only after the answer to an        *)
(* earlier one was lost.                                                   *)
SettledOnce == wins <= 1 /\ applied = wins + lost

(* A call made after the delivery was settled, or after its token went     *)
(* stale, never reaches the broker, to settle or to extend the lease.      *)
LateCallStopsShort ==
    \A c \in Callers : pc[c] \in {"broker", "extend"} =>
        began[c] = [won |-> FALSE, stale |-> FALSE]

(* The settler implements the promise of the Settler interface.            *)
Promise == INSTANCE Delivery WITH holders <- {c \in Callers : Holds(c)}
KeepsPromise == Promise!Spec

(* A raised flag resolves: the delivery becomes settled for good, or the   *)
(* failed caller lowers the flag so that another may try.                  *)
ClaimResolves == settled ~> (wins > 0 \/ ~settled)

=============================================================================
