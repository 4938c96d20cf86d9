--------------------------- MODULE Settler_proofs ---------------------------
(***************************************************************************)
(* Proofs about Settler, for any set of callers and any number of calls.   *)
(* The inductive invariant is the conjunction of the type invariant, the   *)
(* mutual exclusion of the claim, the account of the flag and the count of *)
(* verdicts: none of them is inductive without the others, because what a  *)
(* compare-and-swap may do depends on who raised the flag it finds.        *)
(***************************************************************************)
EXTENDS Settler, TLAPS

IInv ==
    /\ TypeOK
    /\ OneAtTheBroker
    /\ ClaimAccounted
    /\ SettledOnce
    /\ (wins = 0 <=> outcome = "open")
    /\ \A c \in Callers : pc[c] \in {"claim", "broker"} => verb[c] \in Verdicts
    /\ wins > 0 => \A c \in Callers : ~Holds(c)

(* The state before any call satisfies the invariant.                      *)
LEMMA InitIInv == Init => IInv
  <1> SUFFICES ASSUME Init
               PROVE  IInv
    OBVIOUS
  <1>1. TypeOK
    <2>1. pc \in [Callers -> Places] /\ verb \in [Callers -> Verbs]
      BY DEF Init, Verdicts, Verbs, Places
    <2>2. calls \in [Callers -> 0..MaxCalls]
      <3>1. 0 \in 0..MaxCalls
        BY MaxCallsAssumption
      <3>2. QED
        BY <3>1 DEF Init
    <2>3. began \in [Callers -> [won : BOOLEAN, stale : BOOLEAN]]
      BY DEF Init
    <2>4. QED
      BY <2>1, <2>2, <2>3 DEF Init, TypeOK
  <1>2. OneAtTheBroker /\ ClaimAccounted /\ SettledOnce
    BY DEF Init, OneAtTheBroker, ClaimAccounted, SettledOnce, Holds
  <1>3. QED
    BY <1>1, <1>2 DEF Init, IInv, Holds

(* Every step of every caller, and the expiry of the token, keeps it.      *)
LEMMA NextIInv == IInv /\ [Next]_vars => IInv'
  <1> SUFFICES ASSUME IInv, [Next]_vars
               PROVE  IInv'
    OBVIOUS
  <1> USE DEF IInv, TypeOK, OneAtTheBroker, ClaimAccounted, SettledOnce,
              Holds, Verdicts, Verbs, Places, call, history, GoesTo
  <1>1. ASSUME NEW c \in Callers, NEW v \in Verbs, Begin(c, v)
        PROVE  IInv'
    BY <1>1, MaxCallsAssumption DEF Begin, Call
  <1>2. ASSUME NEW c \in Callers, CheckValid(c)
        PROVE  IInv'
    BY <1>2 DEF CheckValid
  <1>3. ASSUME NEW c \in Callers, Claim(c)
        PROVE  IInv'
    BY <1>3 DEF Claim
  <1>4. ASSUME NEW c \in Callers, BrokerAccepts(c)
        PROVE  IInv'
    BY <1>4 DEF BrokerAccepts
  <1>5. ASSUME NEW c \in Callers, NEW carriedOut \in BOOLEAN,
               BrokerFails(c, carriedOut)
        PROVE  IInv'
    BY <1>5 DEF BrokerFails
  <1>6. ASSUME NEW c \in Callers, Release(c)
        PROVE  IInv'
    BY <1>6 DEF Release
  <1>7. ASSUME NEW c \in Callers, Extend(c)
        PROVE  IInv'
    BY <1>7 DEF Extend
  <1>8. CASE Expire
    BY <1>8 DEF Expire
  <1>9. CASE UNCHANGED vars
    BY <1>9 DEF vars
  <1>10. QED
    BY <1>1, <1>2, <1>3, <1>4, <1>5, <1>6, <1>7, <1>8, <1>9 DEF Next, Continue

LEMMA IInvAlways == Spec => []IInv
  BY InitIInv, NextIInv, PTL DEF Spec

(* The variables of a settler keep their types.                            *)
THEOREM Typing == Spec => []TypeOK
  <1>1. IInv => TypeOK
    BY DEF IInv
  <1>2. QED
    BY <1>1, IInvAlways, PTL

(* However many goroutines share a delivery, one at most is between taking *)
(* the claim in settle and keeping or releasing it.                        *)
THEOREM MutualExclusion == Spec => []OneAtTheBroker
  <1>1. IInv => OneAtTheBroker
    BY DEF IInv
  <1>2. QED
    BY <1>1, IInvAlways, PTL

(* The settled flag is up exactly while it is owned or was won.            *)
THEOREM FlagAccounted == Spec => []ClaimAccounted
  <1>1. IInv => ClaimAccounted
    BY DEF IInv
  <1>2. QED
    BY <1>1, IInvAlways, PTL

(* A delivery settles exactly once: settle answers (true, nil) to one      *)
(* caller at most, and the broker carries out another verb only when the   *)
(* answer to an earlier one was lost.                                      *)
THEOREM OnceOnly == Spec => []SettledOnce
  <1>1. IInv => SettledOnce
    BY DEF IInv
  <1>2. QED
    BY <1>1, IInvAlways, PTL

-----------------------------------------------------------------------------
(* The late-call rule needs only that a staleness or a win noted at the    *)
(* call is still there when the flag and the token are looked at.          *)

LateInv ==
    /\ LateCallStopsShort
    /\ \A c \in Callers : pc[c] # "idle" => ~began[c].won
    /\ \A c \in Callers : began[c].stale => stale
    /\ \A c \in Callers : pc[c] \in {"claim", "release"} => ~began[c].stale

LEMMA InitLateInv == Init => LateInv
  BY DEF Init, LateInv, LateCallStopsShort

LEMMA NextLateInv == IInv /\ LateInv /\ [Next]_vars => LateInv'
  <1> SUFFICES ASSUME IInv, LateInv, [Next]_vars
               PROVE  LateInv'
    OBVIOUS
  <1> USE DEF IInv, TypeOK, LateInv, LateCallStopsShort, Verdicts, Verbs,
              Places, call, history, GoesTo
  <1>1. ASSUME NEW c \in Callers, NEW v \in Verbs, Begin(c, v)
        PROVE  LateInv'
    BY <1>1 DEF Begin, Call, ClaimAccounted
  <1>2. ASSUME NEW c \in Callers, CheckValid(c)
        PROVE  LateInv'
    BY <1>2 DEF CheckValid
  <1>3. ASSUME NEW c \in Callers, Claim(c)
        PROVE  LateInv'
    BY <1>3 DEF Claim
  <1>4. ASSUME NEW c \in Callers, BrokerAccepts(c)
        PROVE  LateInv'
    BY <1>4 DEF BrokerAccepts
  <1>5. ASSUME NEW c \in Callers, NEW carriedOut \in BOOLEAN,
               BrokerFails(c, carriedOut)
        PROVE  LateInv'
    BY <1>5 DEF BrokerFails
  <1>6. ASSUME NEW c \in Callers, Release(c)
        PROVE  LateInv'
    BY <1>6 DEF Release
  <1>7. ASSUME NEW c \in Callers, Extend(c)
        PROVE  LateInv'
    BY <1>7 DEF Extend
  <1>8. CASE Expire
    BY <1>8 DEF Expire
  <1>9. CASE UNCHANGED vars
    BY <1>9 DEF vars
  <1>10. QED
    BY <1>1, <1>2, <1>3, <1>4, <1>5, <1>6, <1>7, <1>8, <1>9 DEF Next, Continue

(* A settle or a keepalive called after the delivery was settled, or after *)
(* its token went stale, stops before it reaches the broker.               *)
THEOREM LateCalls == Spec => []LateCallStopsShort
  <1>1. LateInv => LateCallStopsShort
    BY DEF LateInv
  <1>2. QED
    BY <1>1, IInvAlways, InitLateInv, NextLateInv, PTL DEF Spec

-----------------------------------------------------------------------------
(* Refinement of the promise of the Settler interface.                     *)

LEMMA InitPromise == Init => Promise!Init
  BY DEF Init, Promise!Init, Holds

LEMMA StepPromise == IInv /\ IInv' /\ [Next]_vars => [Promise!Next]_(Promise!vars)
  <1> SUFFICES ASSUME IInv, IInv', [Next]_vars
               PROVE  [Promise!Next]_(Promise!vars)
    OBVIOUS
  <1> DEFINE holders == {c \in Callers : Holds(c)}
  <1> USE DEF IInv, TypeOK, OneAtTheBroker, ClaimAccounted, SettledOnce,
              Holds, Verdicts, Verbs, Places, call, history, GoesTo
  <1> SUFFICES ASSUME TRUE
               PROVE  \/ Promise!Next
                      \/ outcome' = outcome /\ holders' = holders
    BY DEF Promise!vars
  <1>1. ASSUME NEW c \in Callers, NEW v \in Verbs, Begin(c, v)
        PROVE  outcome' = outcome /\ holders' = holders
    BY <1>1 DEF Begin, Call
  <1>2. ASSUME NEW c \in Callers, CheckValid(c)
        PROVE  outcome' = outcome /\ holders' = holders
    BY <1>2 DEF CheckValid
  <1>3. ASSUME NEW c \in Callers, Claim(c)
        PROVE  \/ Promise!Take(c)
               \/ outcome' = outcome /\ holders' = holders
    BY <1>3 DEF Claim, Promise!Take
  <1>4. ASSUME NEW c \in Callers, BrokerAccepts(c)
        PROVE  \E v \in Promise!Verdicts : Promise!Decide(c, v)
    BY <1>4 DEF BrokerAccepts, Promise!Decide, Promise!Verdicts
  <1>5. ASSUME NEW c \in Callers, NEW carriedOut \in BOOLEAN,
               BrokerFails(c, carriedOut)
        PROVE  outcome' = outcome /\ holders' = holders
    BY <1>5 DEF BrokerFails
  <1>6. ASSUME NEW c \in Callers, Release(c)
        PROVE  Promise!GiveUp(c)
    BY <1>6 DEF Release, Promise!GiveUp
  <1>7. ASSUME NEW c \in Callers, Extend(c)
        PROVE  outcome' = outcome /\ holders' = holders
    BY <1>7 DEF Extend
  <1>8. CASE Expire
    BY <1>8 DEF Expire
  <1>9. CASE UNCHANGED vars
    BY <1>9 DEF vars
  <1>10. QED
    BY <1>1, <1>2, <1>3, <1>4, <1>5, <1>6, <1>7, <1>8, <1>9
    DEF Next, Continue, Promise!Next

(* The settler implements the abstract delivery: one holder at a time, and *)
(* a decision that no later call, failure or expiry can change.            *)
THEOREM Refinement == Spec => KeepsPromise
  BY InitPromise, StepPromise, IInvAlways, PTL
  DEF Spec, KeepsPromise, Promise!Spec
=============================================================================
