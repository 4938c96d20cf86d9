------------------------- MODULE Reconnector_proofs -------------------------
(***************************************************************************)
(* Proofs about Reconnector, for any patterns, any number of lost          *)
(* connections and of calls, and any configuration.  Each invariant is     *)
(* proved relative to the types and to what says where a goroutine can be. *)
(***************************************************************************)
EXTENDS Reconnector, SharedLemmas, TLAPS

(* A goroutine about to make an attempt has one left.                      *)
HasOneLeft ==
    built.maxRetries > 0 =>
        \A g \in Reconnections : pc[g] \in {"wait", "attempt"} => attempts[g] < built.maxRetries

TypeInv == TypeOK /\ HasOneLeft

LEMMA UpToType ==
  ASSUME NEW b \in Nat, NEW n \in Nat
  PROVE  UpTo(b, n) \in Nat /\ UpTo(b, n) <= b /\ UpTo(b, n) <= n
  BY DEF UpTo

LEMMA NextDelayType ==
  ASSUME built \in Builds, NEW d \in Nat
  PROVE  NextDelay(d) \in Nat
  <1>1. built.backoffFactor \in Nat /\ built.maxDelay \in Nat
    BY ReconnectorAssumption
  <1>2. d * built.backoffFactor \in Nat
    BY <1>1
  <1>3. QED
    BY <1>1, <1>2, UpToType DEF NextDelay

LEMMA BuildType ==
  ASSUME built \in Builds
  PROVE  /\ built.maxRetries \in Int /\ built.maxRetries < AttemptCap
         /\ built.initialDelay \in Nat /\ AttemptCap \in Nat /\ built.enabled \in BOOLEAN
  BY ReconnectorAssumption

LEMMA TypeInit == Init => TypeInv
  <1>1. SUFFICES ASSUME Init PROVE TypeInv
    OBVIOUS
  <1>2. built \in Builds
    BY <1>1 DEF Init
  <1>3. 0 \in 0..MaxCalls /\ 0 \in 0..AttemptCap
    BY ReconnectorAssumption
  <1>4. enabled \in BOOLEAN
    BY <1>1, <1>2, BuildType DEF Init
  <1>5. built.maxRetries > 0 =>
           \A g \in Reconnections : attempts[g] = 0 /\ pc[g] = "off" /\ 0 <= built.maxRetries
    BY <1>1, <1>2, BuildType DEF Init
  <1>6. attempts \in [Reconnections -> 0..AttemptCap] /\ extra \in [Reconnections -> 0..2]
    BY <1>1, <1>3 DEF Init
  <1>7. TypeOK
    BY <1>1, <1>2, <1>3, <1>4, <1>5, <1>6 DEF Init, TypeOK
  <1>8. QED
    BY <1>5, <1>7 DEF TypeInv, HasOneLeft

LEMMA TypeStep == TypeInv /\ [Next]_vars => TypeInv'
  <1>1. SUFFICES ASSUME TypeInv, [Next]_vars PROVE TypeInv'
    OBVIOUS
  <1>2. built \in Builds /\ TypeOK /\ HasOneLeft
    BY <1>1 DEF TypeInv, TypeOK
  <1>3. MaxCalls \in Nat
    BY ReconnectorAssumption
  <1>4. CASE Lose
    BY <1>2, <1>4, Zenon DEF Lose, ConnectionGone, OnDisconnect, TrackDisconnect, config,
       history, TypeInv, TypeOK, HasOneLeft
  <1>5. ASSUME User PROVE TypeInv'
    <2>1. UserCall => calls' \in 0..MaxCalls
      BY <1>2, <1>3 DEF UserCall, TypeOK
    <2>2. CASE Connect
      BY <1>2, <2>1, <2>2 DEF Connect, ConnectionMade, OnConnect, config, goroutines,
         TypeInv, TypeOK, HasOneLeft
    <2>3. CASE Disconnect
      BY <1>2, <2>1, <2>3, Zenon DEF Disconnect, ConnectionGone, OnDisconnect, TrackDisconnect,
         config, history, TypeInv, TypeOK, HasOneLeft
    <2>4. CASE Cancel
      BY <1>2, <2>1, <2>4 DEF Cancel, config, tracker, goroutines, history,
         TypeInv, TypeOK, HasOneLeft
    <2>5. CASE \E p \in Patterns : Subscribe(p)
      BY <1>2, <2>1, <2>5 DEF Subscribe, OnSubscribe, config, goroutines,
         TypeInv, TypeOK, HasOneLeft
    <2>6. ASSUME NEW gone \in SUBSET Patterns, Unsubscribe(gone) PROVE TypeInv'
      BY <1>2, <2>1, <2>6 DEF Unsubscribe, OnUnsubscribe, config, goroutines,
         TypeInv, TypeOK, HasOneLeft
    <2>7. CASE \E on \in BOOLEAN : SetEnabled(on)
      <3>1. extra' \in [Reconnections -> 0..2]
        BY <1>2, <2>7 DEF SetEnabled, TypeOK
      <3>2. QED
        BY <1>2, <2>1, <2>7, <3>1 DEF SetEnabled, tracker, goroutines,
           TypeInv, TypeOK, HasOneLeft
    <2>8. QED
      BY <1>5, <2>2, <2>3, <2>4, <2>5, <2>6, <2>7 DEF User
  <1>6. ASSUME NEW g \in Reconnections, Step(g) PROVE TypeInv'
    <2>1. CASE Begin(g)
      BY <1>2, <2>1, BuildType DEF Begin, Goto, config, tracker, outside, history,
         TypeInv, TypeOK, HasOneLeft
    <2>2. CASE Check(g)
      BY <1>2, <2>2, BuildType DEF Check, Goto, ShouldContinue, LimitReached, config, tracker,
         outside, history, TypeInv, TypeOK, HasOneLeft
    <2>3. CASE Wait(g)
      BY <1>2, <2>3 DEF Wait, Goto, config, tracker, outside, history,
         TypeInv, TypeOK, HasOneLeft
    <2>4. CASE Attempt(g)
      <3>1. attempts[g] \in Nat /\ extra[g] \in Nat
        BY <1>2, BuildType DEF TypeOK
      <3>2. UpTo(AttemptCap, attempts[g] + 1) \in 0..AttemptCap /\ UpTo(2, extra[g] + 1) \in 0..2
        BY <1>2, <3>1, BuildType DEF UpTo
      <3>3. built.maxRetries > 0 => UpTo(AttemptCap, attempts[g] + 1) <= built.maxRetries
        BY <1>2, <2>4, <3>1, BuildType DEF Attempt, HasOneLeft, UpTo
      <3>4. /\ attempts' \in [Reconnections -> 0..AttemptCap]
            /\ extra' \in [Reconnections -> 0..2]
        BY <1>2, <2>4, <3>2 DEF Attempt, TypeOK
      <3>5. built.maxRetries > 0 => \A h \in Reconnections : attempts'[h] <= built.maxRetries
        BY <1>2, <2>4, <3>3 DEF Attempt, TypeOK
      <3>6. HasOneLeft'
        BY <1>2, <2>4 DEF Attempt, Goto, config, TypeOK, HasOneLeft
      <3>7. QED
        BY <1>2, <2>4, <3>4, <3>5, <3>6 DEF Attempt, Goto, config, tracker, outside,
           TypeInv, TypeOK
    <2>5. CASE ConnectMakesConnection(g) \/ ConnectFindsConnection(g)
      BY <1>2, <2>5 DEF ConnectMakesConnection, ConnectFindsConnection, ConnectionMade,
         OnConnect, Resubscribing, Goto, config, tracker, TypeInv, TypeOK, HasOneLeft
    <2>6. CASE ConnectFails(g)
      BY <1>2, <2>6, NextDelayType DEF ConnectFails, Goto, config, tracker, outside, history,
         TypeInv, TypeOK, HasOneLeft
    <2>7. CASE \E p \in Patterns, ok \in BOOLEAN : Resubscribe(g, p, ok)
      BY <1>2, <2>7 DEF Resubscribe, Goto, OnSubscribe, Remaining, config, tracker,
         TypeInv, TypeOK, HasOneLeft
    <2>8. QED
      BY <1>6, <2>1, <2>2, <2>3, <2>4, <2>5, <2>6, <2>7 DEF Step
  <1>7. CASE UNCHANGED vars
    BY <1>2, <1>7 DEF vars, config, tracker, outside, goroutines, history,
       TypeInv, TypeOK, HasOneLeft
  <1>8. QED
    BY <1>1, <1>4, <1>5, <1>6, <1>7 DEF Next

(* The type invariant, with the limit on retries: a reconnection with a    *)
(* limit never makes more attempts than that (client.go:412).              *)
THEOREM ReconnectorTyping == Spec => []TypeOK
  <1>1. TypeInv => TypeOK
    BY DEF TypeInv
  <1>2. QED
    BY <1>1, TypeInit, TypeStep, PTL DEF Spec

-----------------------------------------------------------------------------
(* A goroutine that has made an attempt since it was told to stop cannot   *)
(* make another: it is past the head of the loop.                          *)
ToldToStop == ~enabled \/ cancelled
PastIt == {"connect", "check", "resubscribe", "done"}
StopInv ==
    \A g \in Reconnections :
        \/ extra[g] = 0
        \/ extra[g] = 1 /\ ToldToStop /\ pc[g] \in PastIt

LEMMA StopStep == TypeInv /\ StopInv /\ [Next]_vars => StopInv'
  <1>1. SUFFICES ASSUME TypeInv, StopInv, [Next]_vars, NEW g \in Reconnections
                 PROVE  (\/ extra[g] = 0
                         \/ extra[g] = 1 /\ ToldToStop /\ pc[g] \in PastIt)'
    BY DEF StopInv
  <1>2. /\ TypeOK
        /\ extra[g] = 0 \/ (extra[g] = 1 /\ ToldToStop /\ pc[g] \in PastIt)
    BY <1>1 DEF TypeInv, StopInv
  <1>3. CASE Lose \/ Disconnect
    BY <1>2, <1>3 DEF Lose, Disconnect, ConnectionGone, OnDisconnect, config, history,
       ToldToStop, PastIt, TypeOK
  <1>4. CASE Connect \/ Cancel \/ (\E p \in Patterns : Subscribe(p))
             \/ (\E gone \in SUBSET Patterns : Unsubscribe(gone))
    BY <1>2, <1>4 DEF Connect, Cancel, Subscribe, Unsubscribe, config, goroutines, history,
       ToldToStop
  <1>5. CASE \E on \in BOOLEAN : SetEnabled(on)
    BY <1>2, <1>5 DEF SetEnabled, goroutines, ToldToStop
  <1>6. ASSUME NEW h \in Reconnections, Step(h)
        PROVE  (\/ extra[g] = 0
                \/ extra[g] = 1 /\ ToldToStop /\ pc[g] \in PastIt)'
    <2>1. CASE Begin(h) \/ Wait(h)
      BY <1>2, <2>1 DEF Begin, Wait, Goto, config, outside, history, ToldToStop, PastIt, TypeOK
    <2>2. CASE Check(h)
      BY <1>2, <2>2 DEF Check, ShouldContinue, Goto, config, outside, history,
         ToldToStop, PastIt, TypeOK
    <2>3. CASE Attempt(h)
      <3>1. CASE h = g
        BY <1>2, <2>3, <3>1 DEF Attempt, Goto, UpTo, config, outside, ToldToStop, PastIt, TypeOK
      <3>2. CASE h # g
        BY <1>2, <2>3, <3>2 DEF Attempt, Goto, config, outside, ToldToStop, PastIt, TypeOK
      <3>3. QED
        BY <3>1, <3>2
    <2>4. CASE ConnectMakesConnection(h) \/ ConnectFindsConnection(h)
      BY <1>2, <2>4 DEF ConnectMakesConnection, ConnectFindsConnection, Resubscribing, Goto,
         config, ToldToStop, PastIt, TypeOK
    <2>5. CASE ConnectFails(h)
      BY <1>2, <2>5 DEF ConnectFails, Goto, config, outside, history, ToldToStop, PastIt, TypeOK
    <2>6. CASE \E p \in Patterns, ok \in BOOLEAN : Resubscribe(h, p, ok)
      BY <1>2, <2>6 DEF Resubscribe, Goto, config, ToldToStop, PastIt, TypeOK
    <2>7. QED
      BY <1>6, <2>1, <2>2, <2>3, <2>4, <2>5, <2>6 DEF Step
  <1>7. CASE UNCHANGED vars
    BY <1>2, <1>7 DEF vars, config, outside, goroutines, history, ToldToStop
  <1>8. Patterns \in SUBSET Patterns /\ \A p \in Patterns : {p} \in SUBSET Patterns
    OBVIOUS
  <1>9. QED
    BY <1>1, <1>3, <1>4, <1>5, <1>6, <1>7, <1>8 DEF Next, User

(* A goroutine told to stop makes at most one more attempt, although the   *)
(* flag is read before the back-off wait and not after it (client.go:409   *)
(* and 421).                                                               *)
THEOREM OneMore == Spec => []AtMostOneMore
  <1>1. Init => StopInv
    BY DEF Init, StopInv
  <1>2. StopInv => AtMostOneMore
    BY DEF StopInv, AtMostOneMore
  <1>3. QED
    BY <1>1, <1>2, TypeInit, TypeStep, StopStep, PTL DEF Spec
-----------------------------------------------------------------------------
(* Whatever the tracker, the server or the list of a goroutine has and the *)
(* user does not want was unsubscribed while it was on such a list.        *)
ListInv ==
    /\ OnlyOvertakenReturn
    /\ \A g \in Reconnections :
          /\ StillToCome(g) \ wanted \subseteq overtaken
          /\ pc[g] = "off" => noted[g] = {}

LEMMA ListStep == TypeInv /\ ListInv /\ [Next]_vars => ListInv'
  <1>1. SUFFICES ASSUME TypeInv, ListInv, [Next]_vars PROVE ListInv'
    OBVIOUS
  <1>2. TypeOK
    BY <1>1 DEF TypeInv
  <1>3. ASSUME Lose \/ Disconnect PROVE ListInv'
    <2>1. server' = {} /\ UNCHANGED <<subscriptions, noted, todo, wanted, overtaken>>
      BY <1>3 DEF Lose, Disconnect, ConnectionGone, OnDisconnect, TrackDisconnect, history
    <2>2. \/ pc' = pc
          \/ \E g \in Reconnections : pc[g] = "off" /\ pc' = [pc EXCEPT ![g] = "begin"]
      BY <1>3 DEF Lose, Disconnect, ConnectionGone, OnDisconnect
    <2>3. \A g \in Reconnections : StillToCome(g)' \subseteq StillToCome(g)
      BY <1>1, <1>2, <2>1, <2>2 DEF StillToCome, Trying, ListInv, TypeOK
    <2>4. QED
      BY <1>1, <1>2, <2>1, <2>2, <2>3 DEF ListInv, OnlyOvertakenReturn, TypeOK
  <1>4. CASE Connect
    BY <1>1, <1>4 DEF Connect, ConnectionMade, OnConnect, goroutines, ListInv,
       OnlyOvertakenReturn, StillToCome, Trying
  <1>5. CASE Cancel \/ (\E on \in BOOLEAN : SetEnabled(on)) \/ UNCHANGED vars
    BY <1>1, <1>5 DEF Cancel, SetEnabled, vars, tracker, outside, goroutines, history, ListInv,
       OnlyOvertakenReturn, StillToCome, Trying
  <1>6. ASSUME NEW p \in Patterns, Subscribe(p) PROVE ListInv'
    BY <1>1, <1>6 DEF Subscribe, OnSubscribe, goroutines, ListInv,
       OnlyOvertakenReturn, StillToCome, Trying
  <1>7. ASSUME NEW gone \in SUBSET Patterns, Unsubscribe(gone) PROVE ListInv'
    <2>1. \A g \in Reconnections : StillToCome(g)' = StillToCome(g)
      BY <1>7 DEF Unsubscribe, goroutines, StillToCome, Trying
    <2>2. (subscriptions' \union server') \subseteq (subscriptions \union server) \ gone
      BY <1>7 DEF Unsubscribe, OnUnsubscribe
    <2>3. \A g \in Reconnections : gone \intersect StillToCome(g) \subseteq overtaken'
      BY <1>7 DEF Unsubscribe
    <2>4. overtaken \subseteq overtaken' /\ wanted' = wanted \ gone /\ UNCHANGED <<pc, noted>>
      BY <1>7 DEF Unsubscribe, goroutines
    <2>5. QED
      BY <1>1, <2>1, <2>2, <2>3, <2>4 DEF ListInv, OnlyOvertakenReturn
  <1>8. ASSUME NEW h \in Reconnections, Step(h) PROVE ListInv'
    <2>1. CASE Begin(h)
      <3>1. UNCHANGED <<subscriptions, server, todo, wanted, overtaken>>
        BY <2>1 DEF Begin, tracker, outside, history
      <3>2. \A g \in Reconnections : StillToCome(g)' \subseteq StillToCome(g) \union subscriptions
        BY <1>2, <2>1, <3>1 DEF Begin, Goto, StillToCome, Trying, TypeOK
      <3>3. \A g \in Reconnections : pc'[g] = "off" => pc[g] = "off" /\ noted'[g] = noted[g]
        BY <1>2, <2>1 DEF Begin, Goto, TypeOK
      <3>4. QED
        BY <1>1, <3>1, <3>2, <3>3 DEF ListInv, OnlyOvertakenReturn
    <2>2. CASE Check(h) \/ Wait(h) \/ Attempt(h) \/ ConnectFails(h)
      <3>1. UNCHANGED <<subscriptions, server, noted, todo, wanted, overtaken>>
        BY <2>2 DEF Check, Wait, Attempt, ConnectFails, tracker, outside, history
      <3>2. /\ pc[h] \in {"check", "wait", "attempt", "connect"}
            /\ \E l \in {"check", "wait", "attempt", "connect", "done"} : pc' = [pc EXCEPT ![h] = l]
        BY <2>2 DEF Check, Wait, Attempt, ConnectFails, Goto
      <3>3. \A g \in Reconnections : /\ StillToCome(g)' \subseteq StillToCome(g)
                                     /\ pc'[g] = "off" => pc[g] = "off"
        BY <1>2, <3>1, <3>2 DEF StillToCome, Trying, TypeOK
      <3>4. QED
        BY <1>1, <3>1, <3>3 DEF ListInv, OnlyOvertakenReturn
    <2>3. CASE ConnectMakesConnection(h) \/ ConnectFindsConnection(h)
      <3>1. /\ UNCHANGED <<subscriptions, noted, wanted, overtaken>>
            /\ server' = {} \/ server' = server
        BY <2>3 DEF ConnectMakesConnection, ConnectFindsConnection, ConnectionMade, OnConnect,
           Resubscribing, tracker
      <3>2. \A g \in Reconnections : /\ StillToCome(g)' \subseteq StillToCome(g)
                                     /\ pc'[g] = "off" => pc[g] = "off"
        BY <1>2, <2>3 DEF ConnectMakesConnection, ConnectFindsConnection, Resubscribing, Goto,
           StillToCome, Trying, TypeOK
      <3>3. QED
        BY <1>1, <3>1, <3>2 DEF ListInv, OnlyOvertakenReturn
    <2>4. ASSUME NEW p \in Patterns, NEW ok \in BOOLEAN, Resubscribe(h, p, ok) PROVE ListInv'
      <3>1. /\ p \in StillToCome(h)
            /\ UNCHANGED <<noted, wanted, overtaken>>
            /\ (subscriptions' \union server') \subseteq (subscriptions \union server) \union {p}
        BY <2>4 DEF Resubscribe, OnSubscribe, StillToCome, Trying, tracker
      <3>2. \A g \in Reconnections : /\ StillToCome(g)' \subseteq StillToCome(g)
                                     /\ pc'[g] = "off" => pc[g] = "off"
        BY <1>2, <2>4 DEF Resubscribe, Remaining, Goto, StillToCome, Trying, TypeOK
      <3>3. QED
        BY <1>1, <3>1, <3>2 DEF ListInv, OnlyOvertakenReturn
    <2>5. QED
      BY <1>8, <2>1, <2>2, <2>3, <2>4 DEF Step
  <1>9. Patterns \in SUBSET Patterns /\ \A p \in Patterns : {p} \in SUBSET Patterns
    OBVIOUS
  <1>10. QED
    BY <1>1, <1>3, <1>4, <1>5, <1>6, <1>7, <1>8, <1>9 DEF Next, User

(* An unsubscription is undone only if it overtook a reconnection that had *)
(* the pattern on its list (client.go:401 and 470).                        *)
THEOREM OnlyOvertaken == Spec => []OnlyOvertakenReturn
  <1>1. Init => ListInv
    BY DEF Init, ListInv, OnlyOvertakenReturn, StillToCome, Trying
  <1>2. ListInv => OnlyOvertakenReturn
    BY DEF ListInv
  <1>3. QED
    BY <1>1, <1>2, TypeInit, TypeStep, ListStep, PTL DEF Spec
-----------------------------------------------------------------------------
(* A goroutine that made the connection has, of what it noted, all but     *)
(* what is left on its list at the server.                                 *)
RestoreInv ==
    \A g \in Reconnections :
        owner = g =>
            /\ pc[g] \in {"resubscribe", "done"}
            /\ pc[g] = "done" => todo[g] = {}
            /\ up => noted[g] \ todo[g] \subseteq server \union excused

LEMMA RestoreStep == TypeInv /\ RestoreInv /\ [Next]_vars => RestoreInv'
  <1>1. SUFFICES ASSUME TypeInv, RestoreInv, [Next]_vars PROVE RestoreInv'
    OBVIOUS
  <1>2. TypeOK
    BY <1>1 DEF TypeInv
  <1>3. ASSUME Lose \/ Disconnect PROVE RestoreInv'
    <2>1. up' = FALSE /\ UNCHANGED <<noted, todo, owner>>
      BY <1>3 DEF Lose, Disconnect, ConnectionGone, OnDisconnect, history
    <2>2. \A g \in Reconnections : pc[g] # "off" => pc'[g] = pc[g]
      BY <1>2, <1>3 DEF Lose, Disconnect, ConnectionGone, OnDisconnect, TypeOK
    <2>3. QED
      BY <1>1, <2>1, <2>2 DEF RestoreInv
  <1>4. CASE Connect
    BY <1>4, ReconnectorAssumption DEF Connect, ConnectionMade, RestoreInv, Reconnections
  <1>5. CASE Cancel \/ (\E on \in BOOLEAN : SetEnabled(on)) \/ UNCHANGED vars
    BY <1>1, <1>5 DEF Cancel, SetEnabled, vars, outside, goroutines, history, RestoreInv
  <1>6. CASE (\E p \in Patterns : Subscribe(p)) \/ (\E gone \in SUBSET Patterns : Unsubscribe(gone))
    BY <1>1, <1>6 DEF Subscribe, Unsubscribe, goroutines, RestoreInv
  <1>7. ASSUME NEW h \in Reconnections, Step(h) PROVE RestoreInv'
    <2>1. CASE Begin(h) \/ Check(h) \/ Wait(h) \/ Attempt(h) \/ ConnectFails(h)
      <3>1. /\ UNCHANGED <<up, server, owner, excused, todo>>
            /\ Trying(h)
        BY <2>1 DEF Begin, Check, Wait, Attempt, ConnectFails, outside, history, Trying
      <3>2. \A g \in Reconnections : g # h => pc'[g] = pc[g] /\ noted'[g] = noted[g]
        BY <1>2, <2>1 DEF Begin, Check, Wait, Attempt, ConnectFails, Goto, TypeOK
      <3>3. owner # h
        BY <1>1, <3>1 DEF RestoreInv, Trying
      <3>4. QED
        BY <1>1, <3>1, <3>2, <3>3 DEF RestoreInv
    <2>2. CASE ConnectMakesConnection(h)
      BY <1>2, <2>2 DEF ConnectMakesConnection, ConnectionMade, Resubscribing, Goto,
         RestoreInv, TypeOK
    <2>3. CASE ConnectFindsConnection(h)
      <3>1. UNCHANGED <<up, server, owner, excused, noted>> /\ owner # h
        BY <1>1, <2>3 DEF ConnectFindsConnection, Resubscribing, RestoreInv
      <3>2. \A g \in Reconnections : g # h => pc'[g] = pc[g] /\ todo'[g] = todo[g]
        BY <1>2, <2>3 DEF ConnectFindsConnection, Resubscribing, Goto, TypeOK
      <3>3. QED
        BY <1>1, <3>1, <3>2 DEF RestoreInv
    <2>4. ASSUME NEW p \in Patterns, NEW ok \in BOOLEAN, Resubscribe(h, p, ok) PROVE RestoreInv'
      <3>1. /\ UNCHANGED <<up, owner, noted>>
            /\ todo' = [todo EXCEPT ![h] = @ \ {p}]
            /\ pc' = [pc EXCEPT ![h] = IF todo[h] \ {p} = {} THEN "done" ELSE "resubscribe"]
            /\ server \union excused \union {p} \subseteq server' \union excused'
        BY <1>2, <2>4 DEF Resubscribe, Remaining, Goto, OnSubscribe, TypeOK
      <3>2. QED
        BY <1>1, <1>2, <3>1 DEF RestoreInv, TypeOK
    <2>5. QED
      BY <1>7, <2>1, <2>2, <2>3, <2>4 DEF Step
  <1>8. Patterns \in SUBSET Patterns /\ \A p \in Patterns : {p} \in SUBSET Patterns
    OBVIOUS
  <1>9. QED
    BY <1>1, <1>3, <1>4, <1>5, <1>6, <1>7, <1>8 DEF Next, User

(* The server has all that the reconnection noted, but for what it refused *)
(* and what was unsubscribed since (client.go:464).                        *)
THEOREM AllRestored == Spec => []Restored
  <1>1. Init => RestoreInv
    BY ReconnectorAssumption DEF Init, RestoreInv, Reconnections
  <1>2. RestoreInv => Restored
    BY DEF RestoreInv, Restored
  <1>3. QED
    BY <1>1, <1>2, TypeInit, TypeStep, RestoreStep, PTL DEF Spec

-----------------------------------------------------------------------------
(* The recursive definition of the power has a solution, so that it means  *)
(* what it says.                                                           *)
LEMMA PowerStep ==
  ASSUME NEW b \in Nat, NEW n \in Nat
  PROVE  Power(b, 0) = 1 /\ Power(b, n) \in Nat /\ Power(b, n + 1) = b * Power(b, n)
  <1> DEFINE Def(p) == p = [k \in Nat |-> IF k = 0 THEN 1 ELSE b * p[k - 1]]
  <1>1. PICK p \in [Nat -> Nat] : p[0] = 1 /\ \A k \in Nat : p[k + 1] = b * p[k]
    <2>1. PICK F \in [Nat -> [Nat -> Nat]] : \A k, v \in Nat : F[k][v] = b * v
      <3> DEFINE M == [k \in Nat |-> [v \in Nat |-> b * v]]
      <3>1. M \in [Nat -> [Nat -> Nat]]
        OBVIOUS
      <3>2. QED
        BY <3>1
    <2>2. 1 \in Nat /\ F \in [Nat -> [Nat -> Nat]]
      OBVIOUS
    <2>3. HasRun(Nat, 1, F)
      BY <2>2, Recursion
    <2>4. PICK q \in [Nat -> Nat] : q[0] = 1 /\ \A k \in Nat : q[k + 1] = F[k][q[k]]
      BY <2>3 DEF HasRun, Follows
    <2>5. \A k \in Nat : q[k + 1] = b * q[k]
      BY <2>1, <2>4
    <2>6. QED
      BY <2>4, <2>5
  <1>2. Def(p)
    <2>1. ASSUME NEW k \in Nat PROVE p[k] = IF k = 0 THEN 1 ELSE b * p[k - 1]
      <3>1. CASE k # 0
        <4>1. k - 1 \in Nat /\ (k - 1) + 1 = k
          BY <3>1
        <4>2. QED
          BY <1>1, <3>1, <4>1
      <3>2. QED
        BY <1>1, <3>1
    <2>2. QED
      BY <2>1
  <1> DEFINE c == CHOOSE q : Def(q)
  <1>3. Def(c)
    BY <1>2
  <1>4. \A k : Power(b, k) = c[k]
    BY DEF Power
  <1> HIDE DEF c
  <1>5. c[0] = 1 /\ \A k \in Nat : c[k + 1] = b * c[k]
    BY <1>3
  <1>6. \A k \in Nat : c[k] \in Nat
    <2> DEFINE T == {k \in Nat : c[k] \in Nat}
    <2>1. 0 \in T /\ \A k \in Nat : k \in T => k + 1 \in T
      BY <1>5
    <2> HIDE DEF T
    <2>2. Nat \subseteq T
      BY <2>1, Induction
    <2>3. QED
      BY <2>2 DEF T
  <1>7. QED
    BY <1>4, <1>5, <1>6

(* The delay after n failures.                                             *)
DelayAfter(n) ==
    IF n = 0 THEN built.initialDelay
    ELSE UpTo(built.maxDelay, built.initialDelay * Power(built.backoffFactor, n))

LEMMA BackoffBuild ==
  ASSUME built \in Builds
  PROVE  /\ built.initialDelay \in Nat \ {0} /\ built.maxDelay \in Nat \ {0}
         /\ built.backoffFactor \in Nat \ {0, 1}
         /\ AttemptCap \in Nat \ {0}
         /\ built.maxRetries \in Int /\ built.maxRetries < AttemptCap
         /\ built.maxRetries > 0 \/
               built.initialDelay * Power(built.backoffFactor, AttemptCap) >= built.maxDelay
  BY ReconnectorAssumption

(* A delay cut down to the maximum grows as far as one that was not.       *)
LEMMA GrowthOfCapped ==
  ASSUME NEW m \in Nat \ {0}, NEW f \in Nat \ {0, 1}, NEW x \in Nat
  PROVE  UpTo(m, UpTo(m, x) * f) = UpTo(m, x * f)
  <1>1. \A y \in Nat : y * f \in Nat /\ y * f >= y
    OBVIOUS
  <1>2. CASE x < m
    BY <1>2 DEF UpTo
  <1>3. CASE x >= m
    <2>1. UpTo(m, x) = m
      BY <1>3 DEF UpTo
    <2>2. m * f >= m /\ x * f >= m /\ m * f \in Nat /\ x * f \in Nat
      BY <1>1, <1>3
    <2>3. QED
      BY <2>1, <2>2 DEF UpTo
  <1>4. QED
    BY <1>2, <1>3

(* Each failure takes the delay one power further.                         *)
LEMMA DelayGrows ==
  ASSUME built \in Builds, NEW n \in Nat
  PROVE  DelayAfter(n) \in Nat /\ NextDelay(DelayAfter(n)) = DelayAfter(n + 1)
  <1> DEFINE f == built.backoffFactor
             m == built.maxDelay
             i == built.initialDelay
             x == i * Power(f, n)
  <1>1. i \in Nat /\ m \in Nat \ {0} /\ f \in Nat \ {0, 1}
    BY BackoffBuild
  <1>2. Power(f, 0) = 1 /\ Power(f, n) \in Nat /\ Power(f, n + 1) = f * Power(f, n)
    BY <1>1, PowerStep
  <1>3. x \in Nat /\ i * Power(f, n + 1) = x * f /\ x * f \in Nat
    BY <1>1, <1>2
  <1>4. DelayAfter(n + 1) = UpTo(m, x * f)
    BY <1>3 DEF DelayAfter
  <1>5. CASE n = 0
    <2>1. x = i /\ DelayAfter(n) = i
      BY <1>1, <1>2, <1>5 DEF DelayAfter
    <2>2. QED
      BY <1>1, <1>4, <2>1 DEF NextDelay
  <1>6. CASE n # 0
    <2>1. DelayAfter(n) = UpTo(m, x)
      BY <1>6 DEF DelayAfter
    <2> HIDE DEF x, m, f, i
    <2>2. UpTo(m, UpTo(m, x) * f) = UpTo(m, x * f) /\ UpTo(m, x) \in Nat
      BY <1>1, <1>3, GrowthOfCapped, UpToType
    <2>3. NextDelay(DelayAfter(n)) = UpTo(m, DelayAfter(n) * f)
      BY DEF NextDelay, m, f
    <2>4. QED
      BY <1>4, <2>1, <2>2, <2>3
  <1>7. QED
    BY <1>5, <1>6

(* Where attempts are counted no further, the delay has reached its        *)
(* maximum and stays there.                                                *)
LEMMA DelayStays ==
  ASSUME built \in Builds, built.maxRetries <= 0
  PROVE  NextDelay(DelayAfter(AttemptCap)) = DelayAfter(AttemptCap)
  <1> DEFINE f == built.backoffFactor
             m == built.maxDelay
             x == built.initialDelay * Power(f, AttemptCap)
  <1>1. /\ built.initialDelay \in Nat /\ m \in Nat \ {0} /\ f \in Nat \ {0, 1}
        /\ AttemptCap \in Nat \ {0} /\ x >= m
    BY BackoffBuild
  <1>2. Power(f, AttemptCap) \in Nat
    BY <1>1, PowerStep
  <1>3. x \in Nat
    BY <1>1, <1>2
  <1>4. DelayAfter(AttemptCap) = UpTo(m, x)
    BY <1>1 DEF DelayAfter
  <1> HIDE DEF x
  <1>5. UpTo(m, x) = m
    BY <1>1, <1>3 DEF UpTo
  <1>6. m * f \in Nat /\ m * f >= m
    BY <1>1
  <1>7. UpTo(m, m * f) = m
    BY <1>1, <1>6 DEF UpTo
  <1>8. QED
    BY <1>4, <1>5, <1>7 DEF NextDelay

(* The delay and the attempts of a goroutine go together: the delay is     *)
(* that of its failures, and behind an attempt the one after it.           *)
BackoffOf(g) ==
    /\ pc[g] \in {"off", "begin"} => attempts[g] = 0
    /\ pc[g] = "wait" => attempts[g] > 0
    /\ pc[g] \in {"check", "wait", "attempt"} => delay[g] = DelayAfter(attempts[g])
    /\ pc[g] = "connect" => attempts[g] > 0 /\ NextDelay(delay[g]) = DelayAfter(attempts[g])

BackoffInv == \A g \in Reconnections : BackoffOf(g)

(* A step of one goroutine leaves the delays of the others as they are.    *)
LEMMA BackoffElsewhere ==
  ASSUME NEW g, BackoffOf(g), built' = built,
         pc'[g] = pc[g], attempts'[g] = attempts[g], delay'[g] = delay[g]
  PROVE  BackoffOf(g)'
  BY DEF BackoffOf, DelayAfter, NextDelay

LEMMA BackoffStep == TypeInv /\ BackoffInv /\ [Next]_vars => BackoffInv'
  <1>1. SUFFICES ASSUME TypeInv, BackoffInv, [Next]_vars, NEW g \in Reconnections
                 PROVE  BackoffOf(g)'
    BY DEF BackoffInv
  <1>2. TypeOK /\ built \in Builds /\ BackoffOf(g) /\ attempts[g] \in 0..AttemptCap
    BY <1>1 DEF TypeInv, TypeOK, BackoffInv
  <1>3. built' = built
    BY <1>1 DEF Next, vars, config, Lose, ConnectionGone, User, Connect, Disconnect, Cancel,
       Subscribe, Unsubscribe, SetEnabled, Step, Begin, Check, Wait, Attempt,
       ConnectMakesConnection, ConnectFindsConnection, ConnectFails, Resubscribe, Resubscribing
  <1>4. CASE Lose \/ Disconnect
    <2>1. attempts' = attempts /\ delay' = delay
      BY <1>4 DEF Lose, Disconnect, ConnectionGone, OnDisconnect
    <2>2. pc'[g] = pc[g] \/ (pc[g] = "off" /\ pc'[g] = "begin")
      BY <1>2, <1>4 DEF Lose, Disconnect, ConnectionGone, OnDisconnect, TypeOK
    <2>3. QED
      BY <1>2, <1>3, <2>1, <2>2, BackoffElsewhere DEF BackoffOf
  <1>5. CASE Connect \/ Cancel \/ (\E p \in Patterns : Subscribe(p))
             \/ (\E gone \in SUBSET Patterns : Unsubscribe(gone))
             \/ (\E on \in BOOLEAN : SetEnabled(on)) \/ UNCHANGED vars
    <2>1. UNCHANGED <<pc, attempts, delay>>
      BY <1>5 DEF Connect, Cancel, Subscribe, Unsubscribe, SetEnabled, vars, goroutines
    <2>2. QED
      BY <1>2, <1>3, <2>1, BackoffElsewhere
  <1>6. ASSUME NEW h \in Reconnections, Step(h) PROVE BackoffOf(g)'
    <2>1. CASE h # g
      <3>1. pc'[g] = pc[g] /\ attempts'[g] = attempts[g] /\ delay'[g] = delay[g]
        BY <1>2, <1>6, <2>1 DEF Step, Begin, Check, Wait, Attempt, ConnectMakesConnection,
           ConnectFindsConnection, ConnectFails, Resubscribe, Resubscribing, Goto, TypeOK
      <3>2. QED
        BY <1>2, <1>3, <3>1, BackoffElsewhere
    <2>2. CASE Begin(g)
      <3>1. /\ pc[g] = "begin" /\ attempts'[g] = 0
            /\ \/ pc'[g] = "check" /\ delay'[g] = built.initialDelay
               \/ pc'[g] = "done"
        BY <1>2, <2>2 DEF Begin, Goto, BackoffOf, TypeOK
      <3>2. QED
        BY <1>3, <3>1 DEF BackoffOf, DelayAfter
    <2>3. CASE Check(g) \/ Wait(g)
      <3>1. UNCHANGED <<attempts, delay>>
        BY <2>3 DEF Check, Wait
      <3>2. /\ pc[g] \in {"check", "wait"} /\ pc'[g] \in {"wait", "attempt", "done"}
            /\ pc'[g] = "wait" => attempts[g] > 0
        BY <1>2, <2>3 DEF Check, Wait, Goto, TypeOK
      <3>3. QED
        BY <1>2, <1>3, <3>1, <3>2 DEF BackoffOf, DelayAfter
    <2>4. CASE Attempt(g)
      <3>1. /\ pc[g] = "attempt" /\ pc'[g] = "connect" /\ delay' = delay
            /\ attempts'[g] = UpTo(AttemptCap, attempts[g] + 1)
        BY <1>2, <2>4 DEF Attempt, Goto, TypeOK
      <3>2. delay[g] = DelayAfter(attempts[g])
        BY <1>2, <3>1 DEF BackoffOf
      <3>3. attempts'[g] > 0 /\ NextDelay(delay[g]) = DelayAfter(attempts'[g])
        <4>1. CASE attempts[g] < AttemptCap
          <5>1. attempts[g] \in Nat /\ attempts'[g] = attempts[g] + 1
            BY <1>2, <3>1, <4>1, BackoffBuild DEF UpTo
          <5>2. QED
            BY <1>2, <3>2, <5>1, DelayGrows
        <4>2. CASE attempts[g] = AttemptCap
          <5>1. attempts'[g] = AttemptCap /\ AttemptCap > 0
            BY <1>2, <3>1, <4>2, BackoffBuild DEF UpTo
          <5>2. built.maxRetries <= 0
            BY <1>1, <1>2, <3>1, <4>2, BackoffBuild DEF TypeInv, HasOneLeft
          <5>3. QED
            BY <1>2, <3>2, <4>2, <5>1, <5>2, DelayStays
        <4>3. QED
          BY <1>2, <4>1, <4>2, BackoffBuild
      <3>4. (NextDelay(delay[g]) = DelayAfter(attempts[g]))' <=>
               NextDelay(delay[g]) = DelayAfter(attempts'[g])
        BY <1>3, <3>1 DEF NextDelay, DelayAfter
      <3>5. QED
        BY <3>1, <3>3, <3>4 DEF BackoffOf
    <2>5. CASE ConnectFails(g)
      <3>1. /\ pc[g] = "connect" /\ pc'[g] = "check" /\ attempts' = attempts
            /\ delay'[g] = NextDelay(delay[g])
        BY <1>2, <2>5 DEF ConnectFails, Goto, TypeOK
      <3>2. delay'[g] = DelayAfter(attempts[g])
        BY <1>2, <3>1 DEF BackoffOf
      <3>3. QED
        BY <1>3, <3>1, <3>2 DEF BackoffOf, DelayAfter
    <2>6. CASE \/ ConnectMakesConnection(g) \/ ConnectFindsConnection(g)
               \/ \E p \in Patterns, ok \in BOOLEAN : Resubscribe(g, p, ok)
      <3>1. pc'[g] \in {"resubscribe", "done"}
        BY <1>2, <2>6 DEF ConnectMakesConnection, ConnectFindsConnection, Resubscribe,
           Resubscribing, Goto, TypeOK
      <3>2. QED
        BY <3>1 DEF BackoffOf
    <2>7. QED
      BY <1>6, <2>1, <2>2, <2>3, <2>4, <2>5, <2>6 DEF Step
  <1>7. Patterns \in SUBSET Patterns /\ \A p \in Patterns : {p} \in SUBSET Patterns
    OBVIOUS
  <1>8. QED
    BY <1>1, <1>4, <1>5, <1>6, <1>7 DEF Next, User

(* What a goroutine waits grows by the factor from failure to failure and  *)
(* never beyond the maximum, whatever the configuration and however often  *)
(* it has failed (client.go:421 and 449): the first wait is the initial    *)
(* delay times the factor.                                                 *)
THEOREM Backoff == Spec => []BackoffGrows
  <1>1. Init => BackoffInv
    BY DEF Init, BackoffInv, BackoffOf
  <1>2. TypeInv /\ BackoffInv => BackoffGrows
    <2> DEFINE f == built.backoffFactor
               first == built.initialDelay * f
    <2>1. SUFFICES ASSUME TypeInv, BackoffInv, NEW g \in Reconnections, pc[g] = "wait"
                   PROVE  delay[g] = UpTo(built.maxDelay, first * Power(f, attempts[g] - 1))
      BY DEF BackoffGrows
    <2>2. attempts[g] > 0 /\ delay[g] = DelayAfter(attempts[g])
      BY <2>1 DEF BackoffInv, BackoffOf
    <2>3. built \in Builds /\ attempts[g] \in 0..AttemptCap
      BY <2>1 DEF TypeInv, TypeOK
    <2>4. built.initialDelay \in Nat /\ f \in Nat /\ AttemptCap \in Nat
      BY <2>3, BackoffBuild
    <2>5. PICK n \in Nat : attempts[g] = n + 1
      <3>1. attempts[g] - 1 \in Nat /\ attempts[g] = (attempts[g] - 1) + 1
        BY <2>2, <2>3, <2>4
      <3>2. QED
        BY <3>1
    <2>6. Power(f, n) \in Nat /\ Power(f, n + 1) = f * Power(f, n)
      BY <2>4, PowerStep
    <2> HIDE DEF f
    <2>7. built.initialDelay * (f * Power(f, n)) = (built.initialDelay * f) * Power(f, n)
      BY <2>4, <2>6
    <2>8. n + 1 # 0 /\ (n + 1) - 1 = n
      OBVIOUS
    <2>9. delay[g] = UpTo(built.maxDelay, built.initialDelay * Power(f, n + 1))
      BY <2>2, <2>5, <2>8 DEF DelayAfter, f
    <2>10. QED
      BY <2>5, <2>6, <2>7, <2>8, <2>9
  <1>3. QED
    BY <1>1, <1>2, TypeInit, TypeStep, BackoffStep, PTL DEF Spec
=============================================================================
