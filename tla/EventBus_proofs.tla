--------------------------- MODULE EventBus_proofs ---------------------------
(***************************************************************************)
(* Proofs about EventBus, for any calls, subscribers, topics, patterns and *)
(* buffer size.  The invariants are proved in layers, each one relative to *)
(* those before it: types and the fate of requests (BusInv), then the      *)
(* reasons of every verdict, then the answers to waiting calls, then the   *)
(* custody of automatic deliveries.  On the first and the third rests what *)
(* one call may conclude from another: what a refusal means, what          *)
(* PublishSync reports, whom a subscription that has returned makes hear   *)
(* and whom an unsubscription silences, and that the bus does not feed     *)
(* itself.                                                                 *)
(***************************************************************************)
EXTENDS EventBus, SharedLemmas, FiniteSetTheorems, TLAPS

Busy == loop \in {"deliver", "republish", "finish"}
Asked == Publications \union SubscriptionRequests

(* A call past its first step has a request; a message in the channel or   *)
(* at the loop belongs to a call whose offer is over, and what the loop    *)
(* delivers is a publication.                                              *)
Requested ==
    /\ \A c \in Calls : pc[c] # "idle" => req[c] \in Asked
    /\ \A m \in Messages : Occurs(ch, m) => pc[m.call] \in {"wait", "done"}
    /\ Busy => pc[msg.call] \in {"wait", "done"} /\ IsPublication(msg.call)

BusInv == TypeOK /\ Requested

-----------------------------------------------------------------------------
(* Noting a ground keeps the grounds of every call.                        *)
LEMMA NoteType ==
  ASSUME grounds \in [Calls -> SUBSET Grounds],
         NEW c, NEW g \in SUBSET Grounds, Note(c, g)
  PROVE  grounds' \in [Calls -> SUBSET Grounds]
  BY DEF Note

LEMMA GroundsMembers ==
  /\ {"refused"} \in SUBSET Grounds /\ {"bounced"} \in SUBSET Grounds
  /\ {"unhandled"} \in SUBSET Grounds /\ {"unwanted"} \in SUBSET Grounds
  BY DEF Grounds

(* A refusal, a bounce and a discard keep the types of what they touch.    *)
LEMMA RefuseType ==
  ASSUME TypeOK, NEW c \in Calls, NEW r, Refuse(c, r)
  PROVE  /\ outcome' \in [Calls -> Outcomes]
         /\ resp' \in [Calls -> {"none", "ok", "error"}]
         /\ grounds' \in [Calls -> SUBSET Grounds]
  <1>1. outcome \in [Calls -> Outcomes] /\ resp \in [Calls -> {"none", "ok", "error"}]
    BY DEF TypeOK
  <1>2. grounds \in [Calls -> SUBSET Grounds] /\ Note(c, {"refused"})
    BY DEF TypeOK, Refuse
  <1>3. grounds' \in [Calls -> SUBSET Grounds]
    BY <1>2, NoteType, GroundsMembers
  <1>4. SettleRefused(r.mode, outcome[c]) \in Outcomes
    BY <1>1, SettleType
  <1>5. CASE r.kind = "event"
    BY <1>1, <1>3, <1>4, <1>5 DEF Refuse
  <1>6. CASE r.kind # "event"
    BY <1>1, <1>3, <1>6 DEF Refuse
  <1>7. QED
    BY <1>5, <1>6

LEMMA BounceType ==
  ASSUME TypeOK, NEW c, NEW g, {g} \in SUBSET Grounds, Bounce(c, g)
  PROVE  outcome' \in [Calls -> Outcomes] /\ grounds' \in [Calls -> SUBSET Grounds]
  BY SettleType, NoteType DEF TypeOK, Bounce

LEMMA DiscardType ==
  ASSUME TypeOK, NEW c, Discard(c)
  PROVE  outcome' \in [Calls -> Outcomes] /\ grounds' \in [Calls -> SUBSET Grounds]
  BY SettleType, NoteType, GroundsMembers DEF TypeOK, Discard

-----------------------------------------------------------------------------
(* The channel.                                                            *)

(* A send that succeeds or is turned away keeps the bound of the channel.  *)
LEMMA SendType ==
  ASSUME TypeOK, NEW m \in Messages, Enqueue(m) \/ TurnAway
  PROVE  ch' \in Seq(Messages) /\ Len(ch') <= BufferSize /\ dropped' \in Nat
  <1>1. ch \in Seq(Messages) /\ Len(ch) <= BufferSize /\ dropped \in Nat /\ Len(ch) \in Nat
    BY DEF TypeOK
  <1>2. CASE Enqueue(m)
    BY <1>1, <1>2, AppendOccurs, BusAssumption DEF Enqueue, Room
  <1>3. CASE TurnAway
    BY <1>1, <1>3 DEF TurnAway
  <1>4. QED
    BY <1>2, <1>3

(* Nothing but the message that was sent comes into the channel.           *)
LEMMA SendOccurs ==
  ASSUME TypeOK, NEW m \in Messages, Enqueue(m) \/ TurnAway
  PROVE  \A n : Occurs(ch', n) => Occurs(ch, n) \/ n = m
  <1>1. CASE Enqueue(m)
    <2>1. ch \in Seq(Messages) /\ ch' = Append(ch, m)
      BY <1>1 DEF TypeOK, Enqueue
    <2>2. \A n : Occurs(Append(ch, m), n) <=> Occurs(ch, n) \/ m = n
      BY <2>1, AppendOccurs
    <2>3. QED
      BY <2>1, <2>2
  <1>2. CASE TurnAway
    BY <1>2 DEF TurnAway
  <1>3. QED
    BY <1>1, <1>2

(* A request is a publication or names a subscriber and a pattern.         *)
LEMMA SubscriptionType ==
  ASSUME TypeOK, NEW c \in Calls, req[c] \in Asked, ~IsPublication(c)
  PROVE  req[c] \in SubscriptionRequests
  BY BusAssumption DEF Asked, IsPublication, Kind, Publications

LEMMA InitBusInv == Init => BusInv
  <1> SUFFICES ASSUME Init
               PROVE  BusInv
    OBVIOUS
  <1>1. ch \in Seq(Messages) /\ Len(ch) <= BufferSize
    BY BusAssumption DEF Init
  <1>2. TypeOK
    BY <1>1 DEF Init, TypeOK, Outcomes
  <1>3. QED
    BY <1>2 DEF Init, BusInv, Requested, Busy, Occurs

LEMMA NextBusInv == BusInv /\ [Next]_vars => BusInv'
  <1> SUFFICES ASSUME BusInv, [Next]_vars
               PROVE  BusInv'
    OBVIOUS
  <1> USE DEF BusInv
  <1>1. ASSUME NEW c \in Calls, NEW r \in MayAsk[c], Invoke(c, r)
        PROVE  BusInv'
    <2>1. r \in Asked
      BY BusAssumption DEF Asked
    <2>2. /\ outcome' \in [Calls -> Outcomes] /\ resp' \in [Calls -> {"none", "ok", "error"}]
          /\ grounds' \in [Calls -> SUBSET Grounds]
      BY <1>1, RefuseType DEF TypeOK, Invoke
    <2>3. TypeOK'
      <3>1. pc' \in [Calls -> {"idle", "offer", "wait", "done"}]
        BY <1>1 DEF TypeOK, Invoke, AfterIgnored, AfterOffer
      <3>2. /\ req' \in [Calls -> Publications \union SubscriptionRequests \union {None}]
            /\ before' \in [Calls -> SUBSET Calls]
        BY <1>1, <2>1 DEF TypeOK, Invoke, Asked
      <3>3. UNCHANGED <<switches, stopper, ch, subscriptions, loopVars, counters,
                        pending, reached>>
        BY <1>1 DEF Invoke
      <3>4. QED
        BY <2>2, <3>1, <3>2, <3>3 DEF TypeOK, switches, loopVars, counters
    <2>4. \A d \in Calls : pc[d] # "idle" => pc'[d] = pc[d] /\ req'[d] = req[d]
      BY <1>1 DEF TypeOK, Invoke
    <2>5. req'[c] \in Asked
      BY <1>1, <2>1 DEF TypeOK, Invoke
    <2>6. Requested'
      BY <1>1, <2>3, <2>4, <2>5 DEF TypeOK, Requested, Busy, Messages, Invoke, loopVars,
         IsPublication, Kind
    <2>7. QED
      BY <2>3, <2>6
  <1>2. ASSUME NEW c \in Calls, Offer(c)
        PROVE  BusInv'
    <2> DEFINE m == [call |-> c, undeliverable |-> FALSE]
    <2>1. m \in Messages /\ m.call = c
      BY DEF Messages
    <2>2. /\ outcome' \in [Calls -> Outcomes] /\ resp' \in [Calls -> {"none", "ok", "error"}]
          /\ grounds' \in [Calls -> SUBSET Grounds]
      BY <1>2, RefuseType DEF TypeOK, Offer
    <2>3. ch' \in Seq(Messages) /\ Len(ch') <= BufferSize /\ dropped' \in Nat
      BY <1>2, <2>1, SendType DEF Offer
    <2>4. TypeOK'
      BY <1>2, <2>2, <2>3, ZenonT(40) DEF TypeOK, Offer, switches, loopVars, AfterOffer
    <2>5. \A n : Occurs(ch', n) => Occurs(ch, n) \/ n = m
      BY <1>2, <2>1, SendOccurs DEF Offer
    <2>6. \A d \in Calls : pc'[d] = IF d = c THEN AfterOffer(Kind(c)) ELSE pc[d]
      BY <1>2 DEF TypeOK, Offer
    <2>7. Requested'
      BY <1>2, <2>1, <2>4, <2>5, <2>6 DEF TypeOK, Requested, Busy, Messages, Offer, loopVars,
         IsPublication, Kind, AfterOffer
    <2>8. QED
      BY <2>4, <2>7
  <1>3. ASSUME NEW c \in Calls, OfferClosed(c)
        PROVE  BusInv'
    BY <1>3 DEF TypeOK, Requested, Busy, OfferClosed, Crash, loopVars, counters, clients,
       deliveries, IsPublication, Kind
  <1>4. ASSUME NEW c \in Calls, Return(c)
        PROVE  BusInv'
    BY <1>4 DEF TypeOK, Requested, Busy, Messages, Return, switches, loopVars, counters,
       deliveries, IsPublication, Kind
  <1>5. CASE StartSwap
    BY <1>5 DEF TypeOK, Requested, Busy, StartSwap, counters, clients, deliveries
  <1>6. CASE StartLoop
    BY <1>6 DEF TypeOK, Requested, Busy, StartLoop, switches, counters, clients, deliveries
  <1>7. CASE ReceivePublication
    <2>1. /\ Head(ch) \in Messages /\ Tail(ch) \in Seq(Messages)
          /\ Len(Tail(ch)) <= BufferSize /\ Occurs(ch, Head(ch))
      BY <1>7, TailOccurs, BusAssumption DEF TypeOK, ReceivePublication
    <2>2. \A m : Occurs(Tail(ch), m) => Occurs(ch, m)
      BY <1>7, TailOccurs DEF TypeOK, ReceivePublication
    <2>3. TypeOK'
      BY <1>7, <2>1 DEF TypeOK, ReceivePublication, switches, counters, clients, deliveries,
         Matching
    <2>4. Requested'
      BY <1>7, <2>1, <2>2 DEF Requested, Busy, ReceivePublication, clients, IsPublication, Kind
    <2>5. QED
      BY <2>3, <2>4
  <1>8. ASSUME NEW failing \in BOOLEAN, ReceiveSubscription(failing)
        PROVE  BusInv'
    <2> DEFINE c == Head(ch).call
    <2>1. /\ Head(ch) \in Messages /\ Tail(ch) \in Seq(Messages)
          /\ Len(Tail(ch)) <= BufferSize /\ Occurs(ch, Head(ch))
      BY <1>8, TailOccurs, BusAssumption DEF TypeOK, ReceiveSubscription
    <2>2. \A m : Occurs(Tail(ch), m) => Occurs(ch, m)
      BY <1>8, TailOccurs DEF TypeOK, ReceiveSubscription
    <2>3. c \in Calls /\ pc[c] \in {"wait", "done"}
      BY <2>1 DEF Requested, Messages
    <2>4. req[c] \in SubscriptionRequests
      BY <1>8, <2>3, SubscriptionType DEF ReceiveSubscription, Requested
    <2>5. Left(req[c]) \in SUBSET Patterns
      BY <2>4 DEF TypeOK, Left, SubscriptionRequests
    <2>6. /\ subscriptions' \in [Subscribers -> SUBSET Patterns]
          /\ resp' \in [Calls -> {"none", "ok", "error"}]
      BY <1>8, <2>5 DEF TypeOK, ReceiveSubscription, Answer
    <2>7. TypeOK'
      BY <1>8, <2>1, <2>6 DEF TypeOK, ReceiveSubscription, switches, loopVars, counters,
         deliveries
    <2>8. Requested'
      BY <1>8, <2>2 DEF Requested, Busy, ReceiveSubscription, loopVars, IsPublication, Kind
    <2>9. QED
      BY <2>7, <2>8
  <1>9. CASE ReceiveClosed
    BY <1>9 DEF TypeOK, Requested, Busy, ReceiveClosed, Crash, loopVars, counters, clients,
       deliveries, IsPublication, Kind
  <1>10. ASSUME NEW s \in Subscribers, NEW failing \in BOOLEAN, NEW word \in Words,
                Deliver(s, failing, word)
         PROVE  BusInv'
    <2>1. msg.call \in Calls
      BY <1>10 DEF TypeOK, Deliver, Messages
    <2>2. Said(msg.call, word) \in Outcomes
      BY <2>1, SettleType DEF TypeOK, Said, Words
    <2>3. outcome' \in [Calls -> Outcomes]
      BY <1>10, <2>1, <2>2, SettleType DEF TypeOK, Deliver
    <2>4. Spoken(word) \union Evidence(s, msg, failing) \in SUBSET Grounds
      BY DEF Spoken, Evidence, Grounds
    <2>5. grounds' \in [Calls -> SUBSET Grounds]
      BY <1>10, <2>4, NoteType DEF TypeOK, Deliver
    <2>6. failed' \in BOOLEAN
      BY <1>10 DEF TypeOK, Deliver, KeepFirstError, IsSync
    <2>7. TypeOK'
      BY <1>10, <2>1, <2>3, <2>5, <2>6 DEF TypeOK, Deliver, switches, counters, clients
    <2>8. QED
      BY <1>10, <2>7 DEF Requested, Busy, Deliver, clients, IsPublication, Kind
  <1>11. CASE Delivered
    BY <1>11 DEF TypeOK, Requested, Busy, Delivered, switches, counters, clients, deliveries,
       IsPublication, Kind
  <1>12. CASE NoteUndelivered
    <2>1. outcome' \in [Calls -> Outcomes] /\ grounds' \in [Calls -> SUBSET Grounds]
      BY <1>12, BounceType, DiscardType, GroundsMembers DEF TypeOK, NoteUndelivered
    <2>2. TypeOK'
      BY <1>12, <2>1 DEF TypeOK, NoteUndelivered, switches, clients
    <2>3. QED
      BY <1>12, <2>2 DEF Requested, Busy, NoteUndelivered, clients, IsPublication, Kind
  <1>13. CASE Republish
    <2> DEFINE m == [call |-> msg.call, undeliverable |-> TRUE]
    <2>1. m \in Messages /\ m.call = msg.call
      BY <1>13 DEF TypeOK, Republish, Messages
    <2>2. outcome' \in [Calls -> Outcomes] /\ grounds' \in [Calls -> SUBSET Grounds]
      BY <1>13, BounceType, GroundsMembers DEF TypeOK, Republish
    <2>3. ch' \in Seq(Messages) /\ Len(ch') <= BufferSize /\ dropped' \in Nat
      BY <1>13, <2>1, SendType DEF Republish
    <2>4. TypeOK'
      BY <1>13, <2>2, <2>3 DEF TypeOK, Republish, switches, clients
    <2>5. \A n : Occurs(ch', n) => Occurs(ch, n) \/ n = m
      BY <1>13, <2>1, SendOccurs DEF Republish
    <2>6. QED
      BY <1>13, <2>1, <2>4, <2>5 DEF Requested, Busy, Republish, clients, IsPublication, Kind
  <1>14. CASE Finish
    BY <1>14 DEF TypeOK, Requested, Busy, Finish, Response, switches, counters, deliveries
  <1>15. CASE Exit
    BY <1>15 DEF TypeOK, Requested, Busy, Exit, switches, counters, clients, deliveries
  <1>16. ASSUME NEW s \in Subscribers, NEW c \in Calls, NEW failing \in BOOLEAN,
                NEW word \in Words, Complete(s, c, failing, word)
         PROVE  BusInv'
    <2>1. Said(c, word) \in Outcomes
      BY SettleType DEF TypeOK, Said, Words
    <2>2. outcome' \in [Calls -> Outcomes]
      BY <1>16, <2>1, SettleType DEF TypeOK, Complete
    <2>3. Spoken(word) \union {IF failing THEN "failed" ELSE "handled"} \in SUBSET Grounds
      BY DEF Spoken, Grounds
    <2>4. grounds' \in [Calls -> SUBSET Grounds]
      BY <1>16, <2>3, NoteType DEF TypeOK, Complete
    <2>5. QED
      BY <1>16, <2>2, <2>4 DEF TypeOK, Requested, Busy, Complete, switches, loopVars,
         counters, clients, IsPublication, Kind
  <1>17. CASE StopSwap
    BY <1>17 DEF TypeOK, Requested, Busy, StopSwap, loopVars, counters, clients, deliveries,
       IsPublication, Kind
  <1>18. CASE StopStep
    BY <1>18, ZenonT(40)
    DEF TypeOK, Requested, Busy, StopStep, StopCancel, StopWait, StopClose, switches,
       loopVars, counters, clients, deliveries, IsPublication, Kind
  <1>19. CASE UNCHANGED vars
    BY <1>19 DEF TypeOK, Requested, Busy, vars, switches, loopVars, counters, clients,
       deliveries, IsPublication, Kind
  <1>20. QED
    BY <1>1, <1>2, <1>3, <1>4, <1>5, <1>6, <1>7, <1>8, <1>9, <1>10, <1>11, <1>12,
       <1>13, <1>14, <1>15, <1>16, <1>17, <1>18, <1>19
    DEF Next, StartStep, CallStep, LoopStep, WorkStep

LEMMA BusInvAlways == Spec => []BusInv
  BY InitBusInv, NextBusInv, PTL DEF Spec

(* The variables of a bus keep their types; its queue keeps its bound.     *)
THEOREM BusTyping == Spec => []TypeOK
  <1>1. BusInv => TypeOK
    BY DEF BusInv
  <1>2. QED
    BY <1>1, BusInvAlways, PTL

-----------------------------------------------------------------------------
(* Verdicts.  Whoever settles a delivery notes a ground for that verdict.  *)

Justified(o, g) ==
    /\ o = "ack" => g \cap {"handled", "approved", "unwanted"} # {}
    /\ o = "nack" => g \cap {"failed", "rejected", "refused", "bounced", "unhandled"} # {}

(* Justified verdicts stay so when one call's delivery is settled anew with*)
(* a ground that justifies it.                                             *)
LEMMA OneMoreGround ==
  ASSUME TypeOK, VerdictJustified, NEW c \in Calls, NEW o, NEW g,
         outcome' = [outcome EXCEPT ![c] = o], Note(c, g),
         o = outcome[c] \/ Justified(o, g)
  PROVE  VerdictJustified'
  <1>1. \A d \in Calls : /\ outcome'[d] = IF d = c THEN o ELSE outcome[d]
                         /\ grounds'[d] = IF d = c THEN grounds[d] \union g ELSE grounds[d]
    BY DEF TypeOK, Note
  <1>2. QED
    BY <1>1 DEF VerdictJustified, Justified

LEMMA RefuseJustified ==
  ASSUME TypeOK, VerdictJustified, NEW c \in Calls, NEW r, Refuse(c, r)
  PROVE  VerdictJustified'
  <1>1. CASE r.kind = "event"
    <2>1. \/ SettleRefused(r.mode, outcome[c]) = outcome[c]
          \/ Justified(SettleRefused(r.mode, outcome[c]), {"refused"})
      BY DEF SettleRefused, Settle, Justified
    <2>2. outcome' = [outcome EXCEPT ![c] = SettleRefused(r.mode, outcome[c])]
      BY <1>1 DEF Refuse
    <2>3. QED
      BY <2>1, <2>2, OneMoreGround DEF Refuse
  <1>2. CASE r.kind # "event"
    <2>1. outcome' = [outcome EXCEPT ![c] = outcome[c]]
      BY <1>2 DEF Refuse, TypeOK
    <2>2. QED
      BY <2>1, OneMoreGround DEF Refuse
  <1>3. QED
    BY <1>1, <1>2

LEMMA BounceJustified ==
  ASSUME TypeOK, VerdictJustified, NEW c \in Calls, NEW g \in {"bounced", "unhandled"},
         Bounce(c, g)
  PROVE  VerdictJustified'
  <1>1. \/ SettleRefused(req[c].mode, outcome[c]) = outcome[c]
        \/ Justified(SettleRefused(req[c].mode, outcome[c]), {g})
    BY DEF SettleRefused, Settle, Justified
  <1>2. QED
    BY <1>1, OneMoreGround DEF Bounce

LEMMA DiscardJustified ==
  ASSUME TypeOK, VerdictJustified, NEW c \in Calls, Discard(c)
  PROVE  VerdictJustified'
  <1> DEFINE o == SettleOnReturn(req[c].mode, outcome[c], "handled", FALSE)
  <1>1. o = outcome[c] \/ Justified(o, {"unwanted"})
    BY DEF SettleOnReturn, Settle, Justified
  <1>2. QED
    BY <1>1, OneMoreGround DEF Discard

(* What a handler says it notes.                                           *)
LEMMA SaidJustified ==
  ASSUME NEW c, NEW word \in Words
  PROVE  Said(c, word) = outcome[c] \/ Justified(Said(c, word), Spoken(word))
  BY DEF Said, Spoken, Words, Settle, Justified

(* What is settled on a return is noted as the work or the failure of the  *)
(* callee, unless it was settled already.                                  *)
LEMMA ReturnJustified ==
  ASSUME NEW mode, NEW o, NEW d \in Dispositions, NEW failing \in BOOLEAN
  PROVE  \/ SettleOnReturn(mode, o, d, failing) = o
         \/ /\ d # "observed"
            /\ Justified(SettleOnReturn(mode, o, d, failing),
                  IF failing THEN {"failed"} ELSE IF d = "handled" THEN {"handled"} ELSE {})
  BY DEF SettleOnReturn, Settle, Dispositions, Justified

LEMMA MoreGrounds ==
  ASSUME NEW o, NEW g, NEW h, Justified(o, g) \/ Justified(o, h)
  PROVE  Justified(o, g \union h)
  BY DEF Justified

LEMMA NextVerdictJustified == BusInv /\ VerdictJustified /\ [Next]_vars => VerdictJustified'
  <1> SUFFICES ASSUME BusInv, VerdictJustified, [Next]_vars
               PROVE  VerdictJustified'
    OBVIOUS
  <1>1. TypeOK
    BY DEF BusInv
  <1>2. ASSUME UNCHANGED <<outcome, grounds>>
        PROVE  VerdictJustified'
    BY <1>2 DEF VerdictJustified
  <1>3. ASSUME NEW c \in Calls, NEW r \in MayAsk[c], Invoke(c, r)
        PROVE  VerdictJustified'
    BY <1>1, <1>2, <1>3, RefuseJustified DEF Invoke
  <1>4. ASSUME NEW c \in Calls, Offer(c)
        PROVE  VerdictJustified'
    BY <1>1, <1>2, <1>4, RefuseJustified DEF Offer
  <1>5. ASSUME NEW s \in Subscribers, NEW failing \in BOOLEAN, NEW word \in Words,
               Deliver(s, failing, word)
        PROVE  VerdictJustified'
    <2> DEFINE c == msg.call
               said == Said(c, word)
               o == IF IsSync(msg) THEN said
                    ELSE SettleOnReturn(req[c].mode, said, Disposition[s], failing)
               g == Spoken(word) \union Evidence(s, msg, failing)
    <2>1. c \in Calls /\ Disposition[s] \in Dispositions
      BY <1>1, <1>5, BusAssumption DEF TypeOK, Deliver, Messages
    <2>2. outcome' = [outcome EXCEPT ![c] = o] /\ Note(c, g)
      BY <1>5 DEF Deliver
    <2>3. said = outcome[c] \/ Justified(said, Spoken(word))
      BY SaidJustified
    <2>4. o = said \/ Justified(o, Evidence(s, msg, failing))
      BY <2>1, ReturnJustified DEF Evidence
    <2>5. o = outcome[c] \/ Justified(o, g)
      BY <2>3, <2>4, MoreGrounds
    <2>6. QED
      BY <1>1, <2>1, <2>2, <2>5, OneMoreGround
  <1>6. CASE NoteUndelivered
    <2>1. msg.call \in Calls
      BY <1>1, <1>6 DEF TypeOK, NoteUndelivered, Messages
    <2>2. QED
      BY <1>1, <1>2, <1>6, <2>1, BounceJustified, DiscardJustified DEF NoteUndelivered
  <1>7. CASE Republish
    <2>1. msg.call \in Calls
      BY <1>1, <1>7 DEF TypeOK, Republish, Messages
    <2>2. QED
      BY <1>1, <1>2, <1>7, <2>1, BounceJustified DEF Republish
  <1>8. ASSUME NEW s \in Subscribers, NEW c \in Calls, NEW failing \in BOOLEAN,
               NEW word \in Words, Complete(s, c, failing, word)
        PROVE  VerdictJustified'
    <2> DEFINE said == Said(c, word)
               o == SettleOnReturn(req[c].mode, said, "handled", failing)
               e == IF failing THEN "failed" ELSE "handled"
    <2>1. outcome' = [outcome EXCEPT ![c] = o] /\ Note(c, Spoken(word) \union {e})
      BY <1>8 DEF Complete
    <2>2. said = outcome[c] \/ Justified(said, Spoken(word))
      BY SaidJustified
    <2>3. o = said \/ Justified(o, {e})
      BY ReturnJustified DEF Dispositions
    <2>4. o = outcome[c] \/ Justified(o, Spoken(word) \union {e})
      BY <2>2, <2>3, MoreGrounds
    <2>5. QED
      BY <1>1, <2>1, <2>4, OneMoreGround
  <1>9. CASE StartStep \/ StopSwap \/ StopStep
    BY <1>2, <1>9 DEF StartStep, StartSwap, StartLoop, StopSwap, StopStep, StopCancel,
       StopWait, StopClose, deliveries
  <1>10. ASSUME NEW c \in Calls, OfferClosed(c) \/ Return(c)
         PROVE  VerdictJustified'
    BY <1>2, <1>10 DEF OfferClosed, Crash, Return, deliveries
  <1>11. ASSUME \/ ReceivePublication \/ ReceiveClosed
                \/ \E failing \in BOOLEAN : ReceiveSubscription(failing)
                \/ Delivered \/ Finish \/ Exit
         PROVE  VerdictJustified'
    BY <1>2, <1>11 DEF ReceivePublication, ReceiveClosed, Crash, ReceiveSubscription,
       Delivered, Finish, Exit, deliveries
  <1>12. CASE UNCHANGED vars
    BY <1>2, <1>12 DEF vars, deliveries
  <1>13. QED
    BY <1>3, <1>4, <1>5, <1>6, <1>7, <1>8, <1>9, <1>10, <1>11, <1>12
    DEF Next, CallStep, LoopStep, WorkStep

(* No delivery is acknowledged or refused without a reason the code has    *)
(* for it: SettleOnReturn's order of questions, accept's refusals and the  *)
(* policy of noteUndelivered, in every interleaving.                       *)
THEOREM Verdicts == Spec => []VerdictJustified
  <1>1. Init => VerdictJustified
    BY DEF Init, VerdictJustified
  <1>2. QED
    BY <1>1, NextVerdictJustified, BusInvAlways, PTL DEF Spec

-----------------------------------------------------------------------------
(* Answers.  OneAnswer is not inductive: it needs to know that a call that *)
(* has not offered yet has no answer, that Publish does not wait, and that *)
(* the loop republishes publications only.                                 *)

AnswerOf(c) ==
    /\ pc[c] = "wait" /\ resp[c] = "none" => Occurs(ch, Original(c)) \/ AtLoop(Original(c))
    /\ resp[c] # "none" => ~Occurs(ch, Original(c)) /\ ~AtLoop(Original(c))
    /\ AtLoop(Original(c)) => ~Occurs(ch, Original(c))
    /\ Once(ch, Original(c))
    /\ pc[c] \in {"idle", "offer"} => resp[c] = "none"
    /\ pc[c] = "wait" => ~IsEvent(c)

AnswerInv ==
    /\ \A c \in Calls : AnswerOf(c)
    /\ \A m \in Messages : Occurs(ch, m) /\ m.undeliverable => IsPublication(m.call)

(* A message is the original of its call or its republication.             *)
LEMMA OriginalOrCopy ==
  /\ \A m \in Messages : ~m.undeliverable => m = Original(m.call)
  /\ \A c \in Calls : Original(c) \in Messages /\ Original(c).call = c
                       /\ ~Original(c).undeliverable
  BY DEF Messages, Original

(* Nothing of a call is in the channel or at the loop before its offer.    *)
LEMMA NotOfferedYet ==
  ASSUME BusInv, NEW c \in Calls, pc[c] \in {"idle", "offer"}
  PROVE  /\ ~Occurs(ch, Original(c)) /\ ~AtLoop(Original(c))
         /\ Busy => msg.call # c
         /\ \A m \in Messages : Occurs(ch, m) => m.call # c
  <1>1. \A m \in Messages : Occurs(ch, m) => m.call # c
    BY DEF BusInv, Requested
  <1>2. Busy => msg.call # c
    BY DEF BusInv, Requested
  <1>3. QED
    BY <1>1, <1>2, OriginalOrCopy DEF AtLoop, Busy

(* A send in terms of occurrences: the channel keeps what it has, and one  *)
(* more message at most.                                                   *)
LEMMA SendOnce ==
  ASSUME TypeOK, NEW m \in Messages, Enqueue(m)
  PROVE  /\ \A n : Occurs(ch', n) <=> Occurs(ch, n) \/ n = m
         /\ \A n : Once(ch, n) /\ ~(n = m /\ Occurs(ch, n)) => Once(ch', n)
  <1>1. ch \in Seq(Messages) /\ ch' = Append(ch, m)
    BY DEF TypeOK, Enqueue
  <1>2. /\ \A n : Occurs(Append(ch, m), n) <=> Occurs(ch, n) \/ m = n
        /\ \A n : Once(ch, n) /\ ~(m = n /\ Occurs(ch, n)) => Once(Append(ch, m), n)
    BY <1>1, AppendOccurs
  <1>3. QED
    BY <1>1, <1>2

(* The receiving end: the head leaves the channel, which held it.          *)
LEMMA ReceiveOnce ==
  ASSUME TypeOK, ch # <<>>, ch' = Tail(ch)
  PROVE  /\ Head(ch) \in Messages /\ Occurs(ch, Head(ch))
         /\ \A n : Occurs(ch', n) => Occurs(ch, n)
         /\ \A n : Occurs(ch, n) => Occurs(ch', n) \/ n = Head(ch)
         /\ \A n : Once(ch, n) => Once(ch', n) /\ (n = Head(ch) => ~Occurs(ch', n))
  <1>1. ch \in Seq(Messages)
    BY DEF TypeOK
  <1>2. /\ Head(ch) \in Messages /\ Occurs(ch, Head(ch))
        /\ \A n : Occurs(ch, n) <=> Head(ch) = n \/ Occurs(Tail(ch), n)
        /\ \A n : Once(ch, n) => Once(Tail(ch), n) /\ (Head(ch) = n => ~Occurs(Tail(ch), n))
    BY <1>1, TailOccurs
  <1>3. QED
    BY <1>2

LEMMA InitAnswerInv == Init => AnswerInv
  BY DEF Init, AnswerInv, AnswerOf, Occurs, Once, AtLoop

LEMMA NextAnswerInv == BusInv /\ AnswerInv /\ [Next]_vars => AnswerInv'
  <1> SUFFICES ASSUME BusInv, AnswerInv, [Next]_vars
               PROVE  AnswerInv'
    OBVIOUS
  <1> USE DEF AnswerInv
  <1>1. TypeOK
    BY DEF BusInv
  <1>2. ASSUME UNCHANGED <<ch, pc, req, resp>>, UNCHANGED <<loop, msg>> \/ (~Busy /\ ~Busy')
                  \/ (Busy /\ Busy' /\ UNCHANGED msg)
        PROVE  AnswerInv'
    BY <1>2 DEF AnswerOf, AtLoop, Busy, IsEvent, IsPublication, Kind
  <1>3. ASSUME NEW c \in Calls, NEW r \in MayAsk[c], Invoke(c, r)
        PROVE  AnswerInv'
    <2>1. pc[c] = "idle" /\ UNCHANGED <<ch, loop, msg>>
      BY <1>3 DEF Invoke, loopVars
    <2>2. ASSUME NEW d \in Calls, d # c
          PROVE  AnswerOf(d)'
      BY <1>1, <1>3, <2>1, <2>2 DEF TypeOK, AnswerOf, AtLoop, IsEvent, Kind, Invoke, Refuse
    <2>3. resp[c] = "none" /\ Once(ch, Original(c))
      BY <2>1 DEF AnswerOf
    <2>4. req'[c] = r /\ r # None
      <3>1. r # None
        BY BusAssumption
      <3>2. req'[c] = r
        BY <1>1, <1>3 DEF TypeOK, Invoke
      <3>3. QED
        BY <3>1, <3>2
    <2>5. \/ pc'[c] = "offer" /\ resp'[c] = "none"
          \/ pc'[c] = "done" /\ r.kind = "event"
          \/ pc'[c] = "wait" /\ r.kind # "event" /\ resp'[c] = "error"
      BY <1>1, <1>3, <2>3 DEF TypeOK, Invoke, Refuse, AfterIgnored, AfterOffer
    <2>6. AnswerOf(c)'
      BY <2>1, <2>3, <2>4, <2>5, NotOfferedYet DEF AnswerOf, AtLoop, IsEvent, Kind
    <2>7. \A m \in Messages : Occurs(ch, m) => m.call # c
      BY <2>1, NotOfferedYet
    <2>8. \A d \in Calls : d # c => (IsPublication(d)' <=> IsPublication(d))
      BY <1>1, <1>3 DEF TypeOK, Invoke, IsPublication, Kind
    <2>9. \A m \in Messages : m.call \in Calls
      BY DEF Messages
    <2>10. QED
      BY <2>1, <2>2, <2>6, <2>7, <2>8, <2>9
  <1>4. ASSUME NEW c \in Calls, Offer(c)
        PROVE  AnswerInv'
    <2> DEFINE m == Original(c)
    <2>1. /\ pc[c] = "offer" /\ UNCHANGED <<loop, msg, req>>
          /\ Enqueue(m) \/ TurnAway
          /\ pc' = [pc EXCEPT ![c] = AfterOffer(Kind(c))]
      BY <1>4 DEF Offer, loopVars, Original
    <2>2. m \in Messages /\ m.call = c /\ ~m.undeliverable
      BY OriginalOrCopy
    <2>3. req[c] \in Asked /\ Kind(c) = req[c].kind
      BY <2>1, BusAssumption DEF BusInv, Requested, Kind, Asked
    <2>4. /\ resp[c] = "none" /\ Once(ch, m) /\ ~Occurs(ch, m) /\ ~AtLoop(m)
      BY <2>1, NotOfferedYet DEF AnswerOf
    <2>5. pc'[c] = IF IsEvent(c) THEN "done" ELSE "wait"
      BY <1>1, <2>1 DEF TypeOK, AfterOffer, IsEvent
    <2>6. CASE Enqueue(m) /\ UNCHANGED resp
      <3>1. /\ \A n : Occurs(ch', n) <=> Occurs(ch, n) \/ n = m
            /\ \A n : Once(ch, n) /\ ~(n = m /\ Occurs(ch, n)) => Once(ch', n)
        BY <1>1, <2>2, <2>6, SendOnce
      <3>2. AnswerOf(c)'
        BY <2>1, <2>4, <2>5, <2>6, <3>1 DEF AnswerOf, AtLoop, IsEvent, Kind
      <3>3. ASSUME NEW d \in Calls, d # c
            PROVE  AnswerOf(d)'
        <4>1. Original(d) # m
          BY <3>3, OriginalOrCopy
        <4>2. pc'[d] = pc[d]
          BY <1>1, <2>1, <3>3 DEF TypeOK
        <4>3. QED
          BY <2>1, <2>6, <3>1, <4>1, <4>2 DEF AnswerOf, AtLoop, IsEvent, Kind
      <3>4. QED
        BY <2>1, <2>2, <3>1, <3>2, <3>3 DEF IsPublication, Kind
    <2>7. CASE TurnAway /\ Refuse(c, req[c])
      <3>1. ch' = ch
        BY <2>7 DEF TurnAway
      <3>2. resp'[c] = IF IsEvent(c) THEN "none" ELSE "error"
        BY <1>1, <2>3, <2>4, <2>7 DEF Refuse, TypeOK, IsEvent
      <3>3. \A d \in Calls : d # c => resp'[d] = resp[d] /\ pc'[d] = pc[d]
        BY <1>1, <2>1, <2>7 DEF Refuse, TypeOK
      <3>4. AnswerOf(c)'
        BY <2>1, <2>4, <2>5, <3>1, <3>2 DEF AnswerOf, AtLoop, IsEvent, Kind
      <3>5. QED
        BY <2>1, <3>1, <3>3, <3>4 DEF AnswerOf, AtLoop, IsEvent, IsPublication, Kind
    <2>8. QED
      BY <1>4, <2>6, <2>7 DEF Offer, Original
  <1>5. ASSUME NEW c \in Calls, Return(c)
        PROVE  AnswerInv'
    BY <1>1, <1>5 DEF TypeOK, Return, AnswerOf, AtLoop, IsEvent, IsPublication, Kind, loopVars
  <1>6. CASE ReceivePublication
    <2>1. ch # <<>> /\ ch' = Tail(ch) /\ UNCHANGED <<pc, req, resp>>
      BY <1>6 DEF ReceivePublication, clients
    <2>2. loop = "select" /\ Busy' /\ msg' = Head(ch) /\ ~Busy
      BY <1>6 DEF ReceivePublication, Busy
    <2>3. QED
      BY <1>1, <2>1, <2>2, ReceiveOnce DEF AnswerOf, AtLoop, Busy, IsEvent, IsPublication, Kind
  <1>7. ASSUME NEW failing \in BOOLEAN, ReceiveSubscription(failing)
        PROVE  AnswerInv'
    <2>1. /\ ch # <<>> /\ ch' = Tail(ch) /\ UNCHANGED <<pc, req, loop, msg>>
          /\ ~IsPublication(Head(ch).call) /\ loop = "select"
      BY <1>7 DEF ReceiveSubscription, loopVars
    <2>2. Head(ch) \in Messages /\ Occurs(ch, Head(ch))
      BY <1>1, <2>1, ReceiveOnce
    <2>3. PICK c \in Calls : c = Head(ch).call
      BY <2>2 DEF Messages
    <2>4. Head(ch) = Original(c) /\ pc[c] \in {"wait", "done"}
      BY <2>1, <2>2, <2>3, OriginalOrCopy DEF BusInv, Requested
    <2>5. \A d \in Calls : IF d = c THEN resp'[d] # "none" ELSE resp'[d] = resp[d]
      BY <1>1, <1>7, <2>3 DEF TypeOK, ReceiveSubscription, Answer
    <2>6. /\ \A n : Occurs(ch', n) => Occurs(ch, n)
          /\ \A n : Occurs(ch, n) => Occurs(ch', n) \/ n = Original(c)
          /\ \A n : Once(ch, n) => Once(ch', n) /\ (n = Original(c) => ~Occurs(ch', n))
      BY <1>1, <2>1, <2>4, ReceiveOnce
    <2>7. AnswerOf(c)'
      BY <2>1, <2>4, <2>5, <2>6 DEF AnswerOf, AtLoop, IsEvent, Kind
    <2>8. ASSUME NEW d \in Calls, d # c
          PROVE  AnswerOf(d)'
      <3>1. Original(d) # Original(c)
        BY <2>8, OriginalOrCopy
      <3>2. QED
        BY <2>1, <2>5, <2>6, <2>8, <3>1 DEF AnswerOf, AtLoop, IsEvent, Kind
    <2>9. QED
      BY <2>1, <2>6, <2>7, <2>8 DEF IsPublication, Kind
  <1>8. CASE Republish
    <2> DEFINE m == [call |-> msg.call, undeliverable |-> TRUE]
    <2>1. m \in Messages /\ m.undeliverable /\ IsPublication(msg.call)
      BY <1>1, <1>8 DEF TypeOK, Republish, Messages, BusInv, Requested, Busy
    <2>2. /\ Enqueue(m) \/ TurnAway
          /\ UNCHANGED <<msg, pc, req, resp>> /\ Busy /\ Busy'
      BY <1>8 DEF Republish, clients, Busy
    <2>3. CASE Enqueue(m)
      <3>1. /\ \A n : Occurs(ch', n) <=> Occurs(ch, n) \/ n = m
            /\ \A n : Once(ch, n) /\ ~(n = m /\ Occurs(ch, n)) => Once(ch', n)
        BY <1>1, <2>1, <2>3, SendOnce
      <3>2. \A c \in Calls : Original(c) # m
        BY <2>1, OriginalOrCopy
      <3>3. QED
        BY <2>1, <2>2, <3>1, <3>2 DEF AnswerOf, AtLoop, Busy, IsEvent, IsPublication, Kind
    <2>4. CASE TurnAway
      BY <1>2, <2>2, <2>4 DEF TurnAway
    <2>5. QED
      BY <2>2, <2>3, <2>4
  <1>9. CASE Finish
    <2> DEFINE c == msg.call
    <2>1. /\ Busy /\ ~Busy' /\ UNCHANGED <<ch, pc, req>>
          /\ resp' = IF IsSync(msg) THEN [resp EXCEPT ![c] = Response] ELSE resp
      BY <1>9 DEF Finish, Busy
    <2>2. /\ msg \in Messages /\ c \in Calls /\ IsPublication(c)
          /\ pc[c] \in {"wait", "done"}
      BY <1>1, <2>1 DEF TypeOK, Busy, Messages, BusInv, Requested
    <2>3. \A d \in Calls : AtLoop(Original(d)) <=> msg = Original(d)
      BY <2>1 DEF AtLoop, Busy
    <2>4. \A d \in Calls : ~AtLoop(Original(d))'
      BY <2>1 DEF AtLoop, Busy
    <2>5. CASE IsSync(msg)
      <3>1. msg = Original(c)
        BY <2>2, <2>5, OriginalOrCopy DEF IsSync
      <3>2. resp'[c] # "none"
        BY <1>1, <2>1, <2>2, <2>5 DEF TypeOK, Response
      <3>3. ASSUME NEW d \in Calls, d # c
            PROVE  resp'[d] = resp[d] /\ msg # Original(d)
        BY <1>1, <2>1, <2>5, <3>3, OriginalOrCopy DEF TypeOK
      <3>4. QED
        BY <2>1, <2>2, <2>3, <2>4, <3>1, <3>2, <3>3
        DEF AnswerOf, IsEvent, IsPublication, Kind
    <2>6. CASE ~IsSync(msg)
      <3>1. \A d \in Calls : msg = Original(d) => IsEvent(d)
        BY <2>2, <2>6, OriginalOrCopy DEF IsSync, IsPublication, IsEvent
      <3>2. QED
        BY <2>1, <2>3, <2>4, <2>6, <3>1 DEF AnswerOf, IsEvent, IsPublication, Kind
    <2>7. QED
      BY <2>5, <2>6
  <1>10. ASSUME \/ ReceiveClosed \/ (\E c \in Calls : OfferClosed(c))
                \/ StopSwap \/ StopStep
                \/ \E s \in Subscribers, c \in Calls : WorkStep(s, c)
         PROVE  UNCHANGED <<ch, pc, req, resp, loop, msg>>
    BY <1>10 DEF ReceiveClosed, OfferClosed, Crash, StopSwap, StopStep, StopCancel, StopWait,
       StopClose, WorkStep, Complete, clients, loopVars
  <1>11. ASSUME StartStep \/ Exit
         PROVE  UNCHANGED <<ch, pc, req, resp>> /\ ~Busy /\ ~Busy'
    BY <1>11 DEF StartStep, StartSwap, StartLoop, Exit, Busy, clients
  <1>12. ASSUME \/ Delivered \/ NoteUndelivered
                \/ \E s \in Subscribers, failing \in BOOLEAN, word \in Words :
                      Deliver(s, failing, word)
         PROVE  UNCHANGED <<ch, pc, req, resp, msg>> /\ Busy /\ Busy'
    BY <1>12 DEF Delivered, NoteUndelivered, Deliver, Busy, clients
  <1>13. CASE UNCHANGED vars
    BY <1>2, <1>13 DEF vars, clients, loopVars
  <1>14. QED
    BY <1>2, <1>3, <1>4, <1>5, <1>6, <1>7, <1>8, <1>9, <1>10, <1>11, <1>12, <1>13
    DEF Next, CallStep, LoopStep

LEMMA AnswerInvAlways == Spec => []AnswerInv
  BY InitAnswerInv, NextAnswerInv, BusInvAlways, PTL DEF Spec

(* A waiting call's message is in one place from which its answer comes,   *)
(* and an answered one's nowhere: responseCh gets one answer, and neither  *)
(* the loop nor the caller is left hanging on it while the loop runs.      *)
THEOREM Answers == Spec => []OneAnswer
  <1>1. AnswerInv => OneAnswer
    BY DEF AnswerInv, AnswerOf, OneAnswer, Occurs, Once, Queued
  <1>2. QED
    BY <1>1, AnswerInvAlways, PTL

-----------------------------------------------------------------------------
(* Custody.  While the loop goes through the subscribers, a delivery still *)
(* open has been left with those already called that take responsibility;  *)
(* when the loop is done with it, it has been left with somebody.          *)

Entrusted(c) == \E s \in Subscribers : <<s, c>> \in pending
Kept(c) == \E u \in BOOLEAN : Occurs(ch, [call |-> c, undeliverable |-> u])
Unsettled(c) == IsEvent(c) /\ req[c].mode = "auto" /\ outcome[c] = "open"

CustodyOf(c) ==
    pc[c] = "done" /\ Unsettled(c) =>
        /\ Kept(c) \/ (Busy /\ msg.call = c) \/ Entrusted(c)
        /\ loop = "finish" /\ msg.call = c => Kept(c) \/ Entrusted(c)
        /\ loop = "deliver" /\ msg.call = c =>
              \A s \in Matching(msg) \ todo :
                  Disposition[s] = "observed" \/ <<s, c>> \in pending

Custody == \A c \in Calls : CustodyOf(c)

(* An automatic delivery that is refused, or whose deferred work ends, is  *)
(* settled.                                                                *)
LEMMA AutoSettled ==
  ASSUME NEW o \in Outcomes, NEW failing \in BOOLEAN
  PROVE  /\ SettleRefused("auto", o) # "open"
         /\ SettleOnReturn("auto", o, "handled", failing) # "open"
         /\ SettleOnReturn("auto", o, "deferred", TRUE) # "open"
         /\ SettleOnReturn("auto", o, "observed", failing) = o
  BY DEF SettleRefused, SettleOnReturn, Settle, Outcomes

(* An action that touches neither requests nor the progress of a call, and *)
(* takes nothing from whoever has it, keeps the call in custody.           *)
LEMMA CustodyKept ==
  ASSUME NEW c \in Calls, CustodyOf(c),
         req'[c] = req[c], pc'[c] = "done" => pc[c] = "done",
         outcome'[c] = "open" => outcome[c] = "open",
         \A n : Occurs(ch, n) => Occurs(ch', n),
         outcome'[c] = "open" => \A s \in Subscribers : <<s, c>> \in pending => <<s, c>> \in pending',
         UNCHANGED <<loop, msg, todo, subscriptions>>,
         Busy => req'[msg.call] = req[msg.call]
  PROVE  CustodyOf(c)'
  <1>1. Unsettled(c)' => Unsettled(c)
    BY DEF Unsettled, IsEvent, Kind
  <1>2. Kept(c) => Kept(c)'
    BY DEF Kept
  <1>3. Unsettled(c)' /\ Entrusted(c) => Entrusted(c)'
    BY DEF Entrusted, Unsettled
  <1>4. Busy => Matching(msg)' = Matching(msg)
    BY DEF Matching, Wants, TopicOf
  <1>5. Matching(msg) \subseteq Subscribers
    BY DEF Matching
  <1>6. SUFFICES ASSUME pc'[c] = "done", Unsettled(c)'
                 PROVE  CustodyOf(c)'
    BY DEF CustodyOf
  <1>7. /\ Kept(c) \/ (Busy /\ msg.call = c) \/ Entrusted(c)
        /\ loop = "finish" /\ msg.call = c => Kept(c) \/ Entrusted(c)
        /\ loop = "deliver" /\ msg.call = c =>
              \A s \in Matching(msg) \ todo :
                  Disposition[s] = "observed" \/ <<s, c>> \in pending
    BY <1>1, <1>6 DEF CustodyOf
  <1>8. Kept(c)' \/ (Busy' /\ msg'.call = c) \/ Entrusted(c)'
    BY <1>2, <1>3, <1>6, <1>7 DEF Busy
  <1>9. loop' = "finish" /\ msg'.call = c => Kept(c)' \/ Entrusted(c)'
    BY <1>2, <1>3, <1>6, <1>7
  <1>10. ASSUME loop' = "deliver", msg'.call = c, NEW s \in Matching(msg)' \ todo'
         PROVE  Disposition[s] = "observed" \/ <<s, c>> \in pending'
    BY <1>4, <1>5, <1>6, <1>7, <1>10 DEF Busy, Unsettled
  <1>11. QED
    BY <1>8, <1>9, <1>10 DEF CustodyOf

(* The loop's own refusals and discards settle an automatic delivery.      *)
LEMMA LoopSettles ==
  ASSUME TypeOK, NEW c \in Calls, NEW d \in Calls, NEW g, Bounce(d, g) \/ Discard(d)
  PROVE  /\ c # d => outcome'[c] = outcome[c]
         /\ c = d /\ req[c].mode = "auto" => outcome'[c] # "open"
  <1>1. outcome \in [Calls -> Outcomes] /\ outcome[c] \in Outcomes
    BY DEF TypeOK
  <1>2. CASE Bounce(d, g)
    BY <1>1, <1>2 DEF Bounce, SettleRefused, Settle, Outcomes
  <1>3. CASE Discard(d)
    BY <1>1, <1>3 DEF Discard, SettleOnReturn, Settle, Outcomes
  <1>4. QED
    BY <1>2, <1>3

LEMMA InitCustody == Init => Custody
  BY DEF Init, Custody, CustodyOf

LEMMA NextCustody == BusInv /\ AnswerInv /\ Custody /\ [Next]_vars => Custody'
  <1> SUFFICES ASSUME BusInv, AnswerInv, Custody, [Next]_vars, NEW c \in Calls
               PROVE  CustodyOf(c)'
    BY DEF Custody
  <1>1. TypeOK /\ CustodyOf(c) /\ outcome[c] \in Outcomes
    BY DEF BusInv, Custody, TypeOK
  <1>2. ASSUME NEW d \in Calls, NEW r \in MayAsk[d], Invoke(d, r)
        PROVE  CustodyOf(c)'
    <2>1. /\ pc[d] = "idle" /\ UNCHANGED <<ch, loop, msg, todo, subscriptions, pending>>
          /\ req' = [req EXCEPT ![d] = r] /\ r # None
      BY <1>2, BusAssumption DEF Invoke, loopVars
    <2>2. CASE c = d
      <3>1. req'[c] = r /\ (pc'[c] = "done" => Refuse(c, r))
        BY <1>1, <1>2, <2>1, <2>2 DEF TypeOK, Invoke
      <3>2. Refuse(c, r) /\ r.kind = "event" /\ r.mode = "auto" => outcome'[c] # "open"
        BY <1>1, AutoSettled, ZenonT(40) DEF TypeOK, Refuse
      <3>3. QED
        BY <2>1, <3>1, <3>2 DEF CustodyOf, Unsettled, IsEvent, Kind
    <2>3. CASE c # d
      <3>1. req'[c] = req[c] /\ pc'[c] = pc[c] /\ outcome'[c] = outcome[c]
        BY <1>1, <1>2, <2>1, <2>3 DEF TypeOK, Invoke, Refuse
      <3>2. Busy => req'[msg.call] = req[msg.call]
        BY <1>1, <2>1, NotOfferedYet DEF TypeOK
      <3>3. QED
        BY <1>1, <2>1, <3>1, <3>2, CustodyKept
    <2>4. QED
      BY <2>2, <2>3
  <1>3. ASSUME NEW d \in Calls, Offer(d)
        PROVE  CustodyOf(c)'
    <2> DEFINE m == Original(d)
    <2>1. /\ pc[d] = "offer" /\ pc' = [pc EXCEPT ![d] = AfterOffer(Kind(d))]
          /\ UNCHANGED <<loop, msg, todo, subscriptions, pending, req>>
          /\ \/ Enqueue(m) /\ UNCHANGED outcome
             \/ TurnAway /\ Refuse(d, req[d])
      BY <1>3 DEF Offer, loopVars, Original
    <2>2. m \in Messages
      BY OriginalOrCopy
    <2>3. \A n : Occurs(ch, n) => Occurs(ch', n)
      BY <1>1, <2>1, <2>2, SendOnce DEF TurnAway
    <2>4. CASE c = d
      <3>1. ~(Busy /\ msg.call = c)
        BY <2>1, <2>4, NotOfferedYet
      <3>2. CASE Enqueue(m)
        <4>1. Occurs(ch', [call |-> c, undeliverable |-> FALSE])
          BY <1>1, <2>2, <2>4, <3>2, SendOnce DEF Original
        <4>2. Kept(c)'
          BY <4>1 DEF Kept
        <4>3. QED
          BY <2>1, <3>1, <4>2 DEF CustodyOf, Busy
      <3>3. CASE TurnAway /\ Refuse(c, req[c])
        <4>1. req[c].kind = "event" /\ req[c].mode = "auto" => outcome'[c] # "open"
          BY <1>1, <3>3, AutoSettled DEF TypeOK, Refuse
        <4>2. QED
          BY <2>1, <4>1 DEF CustodyOf, Unsettled, IsEvent, Kind
      <3>4. QED
        BY <2>1, <2>4, <3>2, <3>3
    <2>5. CASE c # d
      <3>1. pc'[c] = pc[c] /\ outcome'[c] = outcome[c]
        BY <1>1, <2>1, <2>5 DEF TypeOK, Refuse
      <3>2. QED
        BY <1>1, <2>1, <2>3, <3>1, CustodyKept
    <2>6. QED
      BY <2>4, <2>5
  <1>4. CASE ReceivePublication
    <2>1. /\ ch # <<>> /\ ch' = Tail(ch) /\ UNCHANGED <<pc, req, outcome, pending>>
          /\ msg' = Head(ch) /\ loop = "select" /\ loop' = "deliver"
          /\ todo' = Matching(Head(ch)) /\ UNCHANGED subscriptions
      BY <1>4 DEF ReceivePublication, clients, deliveries
    <2>2. Kept(c) => Kept(c)' \/ Head(ch).call = c
      BY <1>1, <2>1, ReceiveOnce DEF Kept
    <2>3. Matching(msg)' = todo'
      BY <2>1 DEF Matching, Wants, TopicOf
    <2>4. QED
      BY <1>1, <2>1, <2>2, <2>3 DEF CustodyOf, Busy, Unsettled, Entrusted, IsEvent, Kind
  <1>5. ASSUME NEW failing \in BOOLEAN, ReceiveSubscription(failing)
        PROVE  CustodyOf(c)'
    <2>1. /\ ch # <<>> /\ ch' = Tail(ch)
          /\ UNCHANGED <<pc, req, outcome, pending, loop>>
          /\ ~IsPublication(Head(ch).call) /\ loop = "select"
      BY <1>5 DEF ReceiveSubscription, loopVars, deliveries
    <2>2. IsEvent(c) => Head(ch).call # c
      BY <2>1 DEF IsEvent, IsPublication
    <2>3. IsEvent(c) /\ Kept(c) => Kept(c)'
      BY <1>1, <2>1, <2>2, ReceiveOnce DEF Kept
    <2>4. QED
      BY <1>1, <2>1, <2>3 DEF CustodyOf, Busy, Unsettled, Entrusted, IsEvent, Kind
  <1>6. ASSUME NEW s \in Subscribers, NEW failing \in BOOLEAN, NEW word \in Words,
               Deliver(s, failing, word)
        PROVE  CustodyOf(c)'
    <2>1. /\ UNCHANGED <<pc, req, ch, loop, msg, subscriptions>> /\ loop = "deliver"
          /\ todo' = todo \ {s} /\ msg.call \in Calls
          /\ \A d \in Calls : d # msg.call => outcome'[d] = outcome[d]
          /\ pending' = IF Disposition[s] = "deferred" /\ ~failing
                        THEN pending \union {<<s, msg.call>>} ELSE pending
      BY <1>1, <1>6 DEF Deliver, clients, TypeOK, Messages
    <2>2. Kept(c)' = Kept(c) /\ (Entrusted(c) => Entrusted(c)')
      BY <2>1 DEF Kept, Entrusted
    <2>3. Matching(msg)' = Matching(msg)
      BY <2>1 DEF Matching, Wants, TopicOf
    <2>4. CASE msg.call # c
      BY <1>1, <2>1, <2>2, <2>3, <2>4 DEF CustodyOf, Busy, Unsettled, IsEvent, Kind
    <2>5. CASE msg.call = c /\ IsEvent(c) /\ req[c].mode = "auto"
      <3>1. word = "nothing" \/ Disposition[s] # "observed"
        BY <1>6 DEF Deliver, MaySay
      <3>2. word = "nothing"
        BY <1>6, <2>5 DEF Deliver, MaySay
      <3>3. ~IsSync(msg)
        BY <2>5 DEF IsSync, IsEvent
      <3>4. outcome'[c] = SettleOnReturn("auto", outcome[c], Disposition[s], failing)
        BY <1>1, <1>6, <2>5, <3>2, <3>3 DEF Deliver, Said, TypeOK
      <3>5. outcome'[c] = "open" =>
              outcome[c] = "open" /\ (Disposition[s] = "observed" \/ <<s, c>> \in pending')
        BY <1>1, <2>1, <2>5, <3>4, BusAssumption
        DEF SettleOnReturn, Settle, Dispositions, Outcomes
      <3>6. QED
        BY <1>1, <2>1, <2>2, <2>3, <2>5, <3>5 DEF CustodyOf, Busy, Unsettled, IsEvent, Kind
    <2>6. CASE ~(IsEvent(c) /\ req[c].mode = "auto")
      BY <2>1, <2>6 DEF CustodyOf, Unsettled, IsEvent, Kind
    <2>7. QED
      BY <2>4, <2>5, <2>6
  <1>7. CASE Delivered
    <2>1. /\ UNCHANGED <<pc, req, ch, msg, subscriptions, outcome, pending, todo>>
          /\ loop = "deliver" /\ loop' = "finish" /\ todo = {}
          /\ \E s \in Matching(msg) : Disposition[s] # "observed"
      BY <1>7 DEF Delivered, clients, deliveries, TakenUp
    <2>2. \A s \in Matching(msg) : s \in Subscribers
      BY DEF Matching
    <2>3. QED
      BY <1>1, <2>1, <2>2
      DEF CustodyOf, Busy, Unsettled, IsEvent, Kind, Kept, Entrusted
  <1>8. CASE NoteUndelivered
    <2>1. /\ UNCHANGED <<pc, req, ch, msg, pending>> /\ msg.call \in Calls
          /\ loop = "deliver" /\ loop' \in {"republish", "finish"}
      BY <1>1, <1>8 DEF NoteUndelivered, clients, TypeOK, Messages
    <2>2. Kept(c)' = Kept(c) /\ Entrusted(c)' = Entrusted(c)
      BY <2>1 DEF Kept, Entrusted
    <2>3. CASE loop' = "republish"
      <3>1. outcome' = outcome
        BY <1>8, <2>3 DEF NoteUndelivered
      <3>2. QED
        BY <1>1, <2>1, <2>2, <2>3, <3>1 DEF CustodyOf, Busy, Unsettled, IsEvent, Kind
    <2>4. CASE loop' = "finish"
      <3>1. /\ c # msg.call => outcome'[c] = outcome[c]
            /\ c = msg.call /\ req[c].mode = "auto" => outcome'[c] # "open"
        BY <1>1, <1>8, <2>1, <2>4, LoopSettles DEF NoteUndelivered
      <3>2. QED
        BY <1>1, <2>1, <2>2, <2>4, <3>1 DEF CustodyOf, Busy, Unsettled, IsEvent, Kind
    <2>5. QED
      BY <2>1, <2>3, <2>4
  <1>9. CASE Republish
    <2> DEFINE m == [call |-> msg.call, undeliverable |-> TRUE]
    <2>1. /\ UNCHANGED <<pc, req, msg, pending>> /\ m \in Messages /\ msg.call \in Calls
          /\ loop = "republish" /\ loop' = "finish"
          /\ \/ Enqueue(m) /\ UNCHANGED outcome
             \/ TurnAway /\ Bounce(msg.call, "bounced")
      BY <1>1, <1>9 DEF Republish, clients, TypeOK, Messages
    <2>2. Entrusted(c)' = Entrusted(c)
      BY <2>1 DEF Entrusted
    <2>3. CASE Enqueue(m) /\ UNCHANGED outcome
      <3>1. \A n : Occurs(ch', n) <=> Occurs(ch, n) \/ n = m
        BY <1>1, <2>1, <2>3, SendOnce
      <3>2. (Kept(c) => Kept(c)') /\ (msg.call = c => Kept(c)')
        BY <3>1 DEF Kept
      <3>3. QED
        BY <1>1, <2>1, <2>2, <2>3, <3>2 DEF CustodyOf, Busy, Unsettled, IsEvent, Kind
    <2>4. CASE TurnAway /\ Bounce(msg.call, "bounced")
      <3>1. Kept(c)' = Kept(c)
        BY <2>4 DEF Kept, TurnAway
      <3>2. /\ c # msg.call => outcome'[c] = outcome[c]
            /\ c = msg.call /\ req[c].mode = "auto" => outcome'[c] # "open"
        BY <1>1, <2>1, <2>4, LoopSettles
      <3>3. QED
        BY <1>1, <2>1, <2>2, <3>1, <3>2 DEF CustodyOf, Busy, Unsettled, IsEvent, Kind
    <2>5. QED
      BY <2>1, <2>3, <2>4
  <1>10. CASE Finish
    <2>1. /\ UNCHANGED <<pc, req, ch, outcome, pending>> /\ loop = "finish" /\ loop' = "select"
      BY <1>10 DEF Finish, deliveries
    <2>2. Kept(c)' = Kept(c) /\ Entrusted(c)' = Entrusted(c)
      BY <2>1 DEF Kept, Entrusted
    <2>3. QED
      BY <1>1, <2>1, <2>2 DEF CustodyOf, Busy, Unsettled, IsEvent, Kind
  <1>11. ASSUME NEW s \in Subscribers, NEW d \in Calls, NEW failing \in BOOLEAN,
                NEW word \in Words, Complete(s, d, failing, word)
         PROVE  CustodyOf(c)'
    <2>1. /\ UNCHANGED <<pc, req, ch, loop, msg, todo, subscriptions>>
          /\ pending' = pending \ {<<s, d>>} /\ MaySay(s, d, word)
          /\ outcome' = [outcome EXCEPT ![d] =
                SettleOnReturn(req[d].mode, Said(d, word), "handled", failing)]
      BY <1>11 DEF Complete, loopVars, clients
    <2>2. CASE c = d /\ Unsettled(c)'
      <3>1. req[c].mode = "auto" /\ word = "nothing"
        BY <2>1, <2>2 DEF MaySay, Unsettled
      <3>2. outcome'[c] = SettleOnReturn("auto", outcome[c], "handled", failing)
        BY <1>1, <2>1, <2>2, <3>1 DEF Said, TypeOK
      <3>3. QED
        BY <1>1, <2>2, <3>2, AutoSettled DEF Unsettled
    <2>3. CASE c # d
      <3>1. outcome'[c] = outcome[c] /\ \A x : <<x, c>> \in pending => <<x, c>> \in pending'
        BY <1>1, <2>1, <2>3 DEF TypeOK
      <3>2. QED
        BY <1>1, <2>1, <3>1, CustodyKept
    <2>4. CASE ~Unsettled(c)'
      BY <2>4 DEF CustodyOf
    <2>5. QED
      BY <2>2, <2>3, <2>4
  <1>12. CASE StartStep \/ Exit
    <2>1. /\ UNCHANGED <<pc, req, ch, outcome, pending>> /\ ~Busy /\ ~Busy'
          /\ loop' # "deliver" /\ loop' # "finish"
      BY <1>12 DEF StartStep, StartSwap, StartLoop, Exit, Busy, clients, deliveries
    <2>2. Kept(c)' = Kept(c) /\ Entrusted(c)' = Entrusted(c)
      BY <2>1 DEF Kept, Entrusted
    <2>3. QED
      BY <1>1, <2>1, <2>2 DEF CustodyOf, Unsettled, IsEvent, Kind
  <1>13. ASSUME NEW d \in Calls, Return(d)
         PROVE  CustodyOf(c)'
    <2>1. /\ UNCHANGED <<req, ch, outcome, pending, loop, msg, todo, subscriptions>>
          /\ pc[d] = "wait" /\ pc' = [pc EXCEPT ![d] = "done"]
      BY <1>13 DEF Return, loopVars, deliveries
    <2>2. CASE c = d
      BY <2>1, <2>2 DEF AnswerInv, AnswerOf, CustodyOf, Unsettled, IsEvent, Kind
    <2>3. CASE c # d
      <3>1. pc'[c] = pc[c]
        BY <1>1, <2>1, <2>3 DEF TypeOK
      <3>2. QED
        BY <1>1, <2>1, <3>1, CustodyKept
    <2>4. QED
      BY <2>2, <2>3
  <1>14. ASSUME \/ ReceiveClosed \/ (\E d \in Calls : OfferClosed(d))
                \/ StopSwap \/ StopStep \/ UNCHANGED vars
         PROVE  CustodyOf(c)'
    <2>1. UNCHANGED <<pc, req, ch, outcome, pending, loop, msg, todo, subscriptions>>
      BY <1>14 DEF ReceiveClosed, OfferClosed, Crash, StopSwap, StopStep, StopCancel, StopWait,
         StopClose, vars, clients, loopVars, deliveries
    <2>2. QED
      BY <1>1, <2>1, CustodyKept
  <1>15. QED
    BY <1>2, <1>3, <1>4, <1>5, <1>6, <1>7, <1>8, <1>9, <1>10, <1>11, <1>12, <1>13, <1>14
    DEF Next, CallStep, LoopStep, WorkStep

(* The loop leaves only when a Stop has cancelled it.                      *)
LEMMA ExitedCancelled == Spec => [](loop = "exited" => cancelled)
  <1> DEFINE Told == loop = "exited" => cancelled
  <1>1. Init => Told
    BY DEF Init
  <1>2. Told /\ [Next]_vars => Told'
    <2> SUFFICES ASSUME Told, [Next]_vars
                 PROVE  Told'
      OBVIOUS
    <2>1. CASE LoopStep
      BY <2>1 DEF LoopStep, ReceivePublication, ReceiveSubscription, ReceiveClosed, Crash,
         Deliver, Delivered, NoteUndelivered, Republish, Finish, Exit, switches, loopVars
    <2>2. CASE StartStep \/ StopSwap \/ StopStep \/ UNCHANGED vars
      BY <2>2 DEF StartStep, StartSwap, StartLoop, StopSwap, StopStep, StopCancel, StopWait,
         StopClose, vars, switches, loopVars
    <2>3. ASSUME NEW c \in Calls, CallStep(c) \/ \E r \in MayAsk[c] : Invoke(c, r)
          PROVE  Told'
      BY <2>3 DEF CallStep, Offer, OfferClosed, Crash, Return, Invoke, switches, loopVars
    <2>4. ASSUME NEW s \in Subscribers, NEW c \in Calls, WorkStep(s, c)
          PROVE  Told'
      BY <2>4 DEF WorkStep, Complete, switches, loopVars
    <2>5. QED
      BY <2>1, <2>2, <2>3, <2>4 DEF Next
  <1>3. QED
    BY <1>1, <1>2, PTL DEF Spec

(* Until it is settled, an automatic delivery that was published is in     *)
(* somebody's hands, or a Stop left it in the channel: refusals, observers *)
(* and republication lose none.                                            *)
THEOREM NoneDropped == Spec => []AutoInCustody
  <1>1. BusInv /\ Custody /\ (loop = "exited" => cancelled) => AutoInCustody
    <2> SUFFICES ASSUME BusInv, Custody, loop = "exited" => cancelled,
                        NEW c \in Calls, pc[c] = "done", Unsettled(c)
                 PROVE  InCustody(c) \/ LeftByStop(c)
      BY DEF AutoInCustody, Delivering, Unsettled
    <2>1. Kept(c) \/ (Busy /\ msg.call = c) \/ Entrusted(c)
      BY DEF Custody, CustodyOf
    <2>2. Kept(c) => \E u \in BOOLEAN : Queued([call |-> c, undeliverable |-> u])
      BY DEF Kept, Occurs, Queued
    <2>3. ASSUME Busy, msg.call = c
          PROVE  \E u \in BOOLEAN : AtLoop([call |-> c, undeliverable |-> u])
      <3>1. msg \in Messages
        BY <2>3 DEF BusInv, TypeOK, Busy
      <3>2. PICK u \in BOOLEAN : msg = [call |-> c, undeliverable |-> u]
        BY <2>3, <3>1 DEF Messages
      <3>3. QED
        BY <2>3, <3>2 DEF AtLoop, Busy
    <2>4. QED
      BY <2>1, <2>2, <2>3 DEF InCustody, LeftByStop, Entrusted
  <1>2. QED
    BY <1>1, InitCustody, NextCustody, BusInvAlways, AnswerInvAlways, ExitedCancelled, PTL
    DEF Spec
-----------------------------------------------------------------------------
(* Nothing has happened to a call before its offer is over, and nothing    *)
(* but the refusal ever happens to one that was refused.                   *)
Absent(c) ==
    /\ Busy => msg.call # c
    /\ \A m \in Messages : Occurs(ch, m) => m.call # c

RefusalOf(c) ==
    /\ pc[c] \in {"idle", "offer"} => grounds[c] = {} /\ reached[c] = {}
    /\ "refused" \in grounds[c] =>
          pc[c] \in {"wait", "done"} /\ reached[c] = {} /\ Absent(c)

RefusalInv ==
    /\ \A c \in Calls : RefusalOf(c)
    /\ \A s \in Subscribers, c \in Calls : <<s, c>> \in pending => pc[c] \in {"wait", "done"}

(* While the loop has the message of a PublishSync, publishError says      *)
(* whether a subscriber has returned an error; before, none has.           *)
Errors(c) == grounds[c] \cap {"complained", "remarked"}

SyncOf(c) ==
    Kind(c) = "sync" =>
        /\ resp[c] = "none" => "refused" \notin grounds[c]
        /\ resp[c] = "none" /\ ~AtLoop(Original(c)) => Errors(c) = {}
        /\ AtLoop(Original(c)) => (failed <=> Errors(c) # {})
        /\ resp[c] # "none" =>
              (resp[c] = "error" <=> "refused" \in grounds[c] \/ Errors(c) # {})

SyncInv == \A c \in Calls : SyncOf(c)

(* A call that has returned from the bus had its answer, and the calls it  *)
(* came after have returned.                                               *)
Concluded(c) == pc[c] = "done" /\ ~IsEvent(c) => resp[c] # "none"

PastOf(c) == \A d \in before[c] : pc[d] = "done" /\ pc[c] # "idle"

(* The loop goes through exactly the subscribers that match: those not yet *)
(* called are to be called, the others were.                               *)
TodoInv ==
    loop = "deliver" =>
        /\ todo \subseteq Matching(msg)
        /\ \A s \in Matching(msg) : s \in todo \/ s \in reached[msg.call]

HistoryInv ==
    /\ \A c \in Calls : Concluded(c) /\ PastOf(c)
    /\ TodoInv

(* An answered subscription is in force, or a later call took it back.     *)
InForce(x) ==
    Kind(x) = "subscribe" /\ Accepted(x) /\ resp[x] # "none" =>
        \/ req[x].pattern \in subscriptions[req[x].sub]
        \/ \E u \in Calls : pc[u] # "idle" /\ Removes(u, x) /\ u \notin before[x]

HearInv == (\A x \in Calls : InForce(x)) /\ SubscribedHears

(* Behind every pattern of the map is a subscription that no answered call *)
(* made after it has taken back.                                           *)
Behind(x, s, p) ==
    /\ Kind(x) = "subscribe" /\ Accepted(x) /\ resp[x] # "none"
    /\ req[x].sub = s /\ req[x].pattern = p
    /\ \A u \in Calls : Removes(u, x) /\ Accepted(u) /\ resp[u] # "none" => x \notin before[u]

Rooted == \A s \in Subscribers : \A p \in subscriptions[s] : \E x \in Calls : Behind(x, s, p)

SilentInv == Rooted /\ UnsubscribedSilent

(* The copy of a call is sent once, while the loop is on its original.     *)
Copy(c) == [call |-> c, undeliverable |-> TRUE]

Coming(m) == Occurs(ch, m) \/ (AtLoop(m) /\ loop = "deliver")
Ahead(c) == pc[c] \in {"idle", "offer"} \/ Coming(Original(c))
Fresh(c) == Ahead(c) \/ (AtLoop(Original(c)) /\ loop = "republish")

CopyOf(c) ==
    /\ Once(ch, Copy(c))
    /\ AtLoop(Copy(c)) => ~Occurs(ch, Copy(c)) /\ loop # "republish"
    /\ Fresh(c) => ~Occurs(ch, Copy(c)) /\ ~AtLoop(Copy(c))

CopyInv == \A c \in Calls : CopyOf(c)

(* The calls that may still be noted as undelivered, under their own topic *)
(* and under "$undeliverable".  Noting one takes it out of its set.        *)
AsItself == {c \in Calls : Ahead(c)}
AsCopy == {c \in Calls : Fresh(c) \/ Coming(Copy(c))}

CountInv == undelivered + Cardinality(AsItself) + Cardinality(AsCopy) <= 2 * Cardinality(Calls)

-----------------------------------------------------------------------------
(* Refusals.                                                               *)

(* A step that adds nothing to what a call has seen, and brings none of    *)
(* its messages back.                                                      *)
LEMMA RefusalKept ==
  ASSUME NEW c \in Calls, RefusalOf(c), Absent(c) => Absent(c)',
         pc'[c] = pc[c] \/ (pc[c] = "wait" /\ pc'[c] = "done"),
         grounds'[c] = grounds[c], reached'[c] = reached[c]
  PROVE  RefusalOf(c)'
  BY DEF RefusalOf

(* What happens to a call at the loop or in a deferring subscriber's hands *)
(* is no refusal, and the call has been offered.                           *)
LEMMA RefusalGrown ==
  ASSUME NEW c \in Calls, RefusalOf(c), pc[c] \in {"wait", "done"}, pc'[c] = pc[c],
         NEW g, "refused" \notin g, grounds'[c] = grounds[c] \union g,
         \/ ~Absent(c)
         \/ reached'[c] = reached[c] /\ (Absent(c) => Absent(c)')
  PROVE  RefusalOf(c)'
  BY DEF RefusalOf

(* Absence is kept by what leaves channel and loop alone.                  *)
LEMMA AbsentKept ==
  ASSUME NEW c, Absent(c), UNCHANGED ch, UNCHANGED <<loop, msg>> \/ ~Busy'
                                         \/ (Busy /\ UNCHANGED msg)
  PROVE  Absent(c)'
  BY DEF Absent, Busy

LEMMA InitRefusalInv == Init => RefusalInv
  BY DEF Init, RefusalInv, RefusalOf

LEMMA InvokeRefusal ==
  ASSUME BusInv, RefusalInv, NEW d \in Calls, NEW r, Invoke(d, r), NEW c \in Calls
  PROVE  RefusalOf(c)'
  <1>1. RefusalOf(c) /\ UNCHANGED <<ch, loop, msg, reached, pending>> /\ pc[d] = "idle"
    BY DEF RefusalInv, Invoke, loopVars
  <1>2. CASE c # d
    <2>1. pc'[c] = pc[c] /\ grounds'[c] = grounds[c]
      BY <1>2 DEF Invoke, Refuse, Note, BusInv, TypeOK
    <2>2. Absent(c) => Absent(c)'
      BY <1>1, AbsentKept
    <2>3. QED
      BY <1>1, <2>1, <2>2, RefusalKept
  <1>3. CASE c = d
    <2>1. grounds[c] = {} /\ reached[c] = {}
      BY <1>1, <1>3 DEF RefusalOf
    <2>2. Absent(c)
      BY <1>1, <1>3, NotOfferedYet DEF Absent
    <2>3. Absent(c)'
      BY <1>1, <2>2, AbsentKept
    <2>4. \/ pc'[c] = "offer" /\ grounds' = grounds
          \/ pc'[c] \in {"wait", "done"}
      BY <1>3 DEF Invoke, AfterIgnored, AfterOffer, BusInv, TypeOK
    <2>5. QED
      BY <1>1, <2>1, <2>3, <2>4 DEF RefusalOf
  <1>4. QED
    BY <1>2, <1>3

LEMMA OfferRefusal ==
  ASSUME BusInv, RefusalInv, NEW d \in Calls, Offer(d), NEW c \in Calls
  PROVE  RefusalOf(c)'
  <1>1. RefusalOf(c) /\ UNCHANGED <<loop, msg, reached, pending>> /\ pc[d] = "offer"
    BY DEF RefusalInv, Offer, loopVars
  <1>2. \A n : Occurs(ch', n) => Occurs(ch, n) \/ n = Original(d)
    <2>1. Original(d) \in Messages /\ (Enqueue(Original(d)) \/ TurnAway)
      BY OriginalOrCopy DEF Offer, Original
    <2>2. QED
      BY <2>1, SendOccurs DEF BusInv
  <1>3. CASE c # d
    <2>1. pc'[c] = pc[c] /\ grounds'[c] = grounds[c]
      BY <1>3 DEF Offer, Refuse, Note, BusInv, TypeOK
    <2>2. Absent(c) => Absent(c)'
      BY <1>1, <1>2, <1>3, OriginalOrCopy DEF Absent, Busy
    <2>3. QED
      BY <1>1, <2>1, <2>2, RefusalKept
  <1>4. CASE c = d
    <2>1. grounds[c] = {} /\ reached[c] = {}
      BY <1>1, <1>4 DEF RefusalOf
    <2>2. Absent(c)
      BY <1>1, <1>4, NotOfferedYet DEF Absent
    <2>3. pc'[c] \in {"wait", "done"} /\ (grounds' = grounds \/ ch' = ch)
      BY <1>4 DEF Offer, AfterOffer, TurnAway, BusInv, TypeOK
    <2>4. CASE grounds' = grounds
      BY <1>1, <2>1, <2>3, <2>4 DEF RefusalOf
    <2>5. CASE ch' = ch
      <3>1. Absent(c)'
        BY <1>1, <2>2, <2>5, AbsentKept
      <3>2. QED
        BY <1>1, <2>1, <2>3, <3>1 DEF RefusalOf
    <2>6. QED
      BY <2>3, <2>4, <2>5
  <1>5. QED
    BY <1>3, <1>4

(* The loop at work on a message: its call is not absent.                  *)
LEMMA AtWork ==
  ASSUME BusInv, Busy
  PROVE  /\ msg \in Messages /\ msg.call \in Calls /\ pc[msg.call] \in {"wait", "done"}
         /\ IsPublication(msg.call) /\ ~Absent(msg.call)
  BY DEF BusInv, TypeOK, Requested, Busy, Messages, Absent

LEMMA LoopRefusal ==
  ASSUME BusInv, RefusalInv, LoopStep, NEW c \in Calls
  PROVE  RefusalOf(c)'
  <1> USE DEF RefusalInv
  <1>0. UNCHANGED pc
    BY DEF LoopStep, ReceivePublication, ReceiveSubscription, ReceiveClosed, Crash, Deliver,
       Delivered, NoteUndelivered, Republish, Finish, Exit, clients
  <1>1. ASSUME ReceivePublication \/ \E failing \in BOOLEAN : ReceiveSubscription(failing)
        PROVE  RefusalOf(c)'
    <2>1. /\ ch # <<>> /\ ch' = Tail(ch) /\ UNCHANGED <<grounds, reached>>
          /\ msg' = Head(ch) \/ (UNCHANGED <<loop, msg>>)
      BY <1>1 DEF ReceivePublication, ReceiveSubscription, loopVars, deliveries
    <2>2. /\ Head(ch) \in Messages /\ Occurs(ch, Head(ch))
          /\ \A n : Occurs(ch', n) => Occurs(ch, n)
      BY <2>1, ReceiveOnce DEF BusInv
    <2>3. Absent(c) => Absent(c)'
      BY <2>1, <2>2 DEF Absent, Busy
    <2>4. QED
      BY <1>0, <2>1, <2>3, RefusalKept
  <1>2. ASSUME NEW s \in Subscribers, NEW failing \in BOOLEAN, NEW word \in Words,
               Deliver(s, failing, word)
        PROVE  RefusalOf(c)'
    <2>1. /\ Busy /\ UNCHANGED <<ch, loop, msg>>
          /\ reached' = [reached EXCEPT ![msg.call] = @ \union {s}]
          /\ Note(msg.call, Spoken(word) \union Evidence(s, msg, failing))
      BY <1>2 DEF Deliver, Busy
    <2>2. CASE c = msg.call
      <3>1. "refused" \notin Spoken(word) \union Evidence(s, msg, failing)
        BY DEF Spoken, Evidence
      <3>2. grounds'[c] = grounds[c] \union (Spoken(word) \union Evidence(s, msg, failing))
        BY <2>1, <2>2 DEF Note, BusInv, TypeOK
      <3>3. QED
        BY <1>0, <2>1, <2>2, <3>1, <3>2, AtWork, RefusalGrown
    <2>3. CASE c # msg.call
      <3>1. grounds'[c] = grounds[c] /\ reached'[c] = reached[c]
        BY <2>1, <2>3 DEF Note, BusInv, TypeOK
      <3>2. QED
        BY <1>0, <2>1, <3>1, AbsentKept, RefusalKept
    <2>4. QED
      BY <2>2, <2>3
  <1>3. ASSUME NoteUndelivered \/ Republish
        PROVE  RefusalOf(c)'
    <2>1. /\ Busy /\ UNCHANGED <<msg, reached>>
          /\ grounds' = grounds \/ \E g \in {"bounced", "unhandled", "unwanted"} :
                                      Note(msg.call, {g})
      BY <1>3 DEF NoteUndelivered, Republish, Bounce, Discard, Busy
    <2>2. Copy(msg.call) \in Messages /\ Copy(msg.call).call = msg.call
      BY <2>1, AtWork DEF Copy, Messages
    <2>3. \A n : Occurs(ch', n) => Occurs(ch, n) \/ n = Copy(msg.call)
      <3>1. CASE NoteUndelivered
        BY <3>1 DEF NoteUndelivered
      <3>2. CASE Republish
        BY <2>2, <3>2, SendOccurs DEF Republish, Copy, BusInv
      <3>3. QED
        BY <1>3, <3>1, <3>2
    <2>4. CASE c = msg.call
      <3>1. \E g \in {{}, {"bounced"}, {"unhandled"}, {"unwanted"}} :
              grounds'[c] = grounds[c] \union g
        BY <2>1, <2>4 DEF Note, BusInv, TypeOK
      <3>2. QED
        BY <1>0, <2>1, <2>4, <3>1, AtWork, RefusalGrown
    <2>5. CASE c # msg.call
      <3>1. grounds'[c] = grounds[c] /\ reached'[c] = reached[c]
        BY <2>1, <2>5 DEF Note, BusInv, TypeOK
      <3>2. Absent(c) => Absent(c)'
        BY <2>1, <2>2, <2>3, <2>5 DEF Absent
      <3>3. QED
        BY <1>0, <3>1, <3>2, RefusalKept
    <2>6. QED
      BY <2>4, <2>5
  <1>4. ASSUME ReceiveClosed \/ Delivered \/ Finish \/ Exit
        PROVE  RefusalOf(c)'
    <2>1. UNCHANGED <<ch, grounds, reached>>
      BY <1>4 DEF ReceiveClosed, Crash, Delivered, Finish, Exit, deliveries
    <2>2. UNCHANGED <<loop, msg>> \/ ~Busy' \/ (Busy /\ UNCHANGED msg)
      BY <1>4 DEF ReceiveClosed, Crash, Delivered, Finish, Exit, Busy, loopVars
    <2>3. QED
      BY <1>0, <2>1, <2>2, AbsentKept, RefusalKept
  <1>5. QED
    BY <1>1, <1>2, <1>3, <1>4 DEF LoopStep

LEMMA NextRefusalInv == BusInv /\ RefusalInv /\ [Next]_vars => RefusalInv'
  <1> SUFFICES ASSUME BusInv, RefusalInv, [Next]_vars
               PROVE  RefusalInv'
    OBVIOUS
  <1>1. \A c \in Calls : pc[c] \in {"wait", "done"} => pc'[c] \in {"wait", "done"}
    BY ZenonT(40)
    DEF Next, StartStep, StartSwap, StartLoop, CallStep, Offer, OfferClosed, Crash, Return,
       Invoke, LoopStep, ReceivePublication, ReceiveSubscription, ReceiveClosed, Deliver,
       Delivered, NoteUndelivered, Republish, Finish, Exit, WorkStep, Complete, StopSwap,
       StopStep, StopCancel, StopWait, StopClose, vars, clients, BusInv, TypeOK
  <1>2. ASSUME NEW s \in Subscribers, NEW c \in Calls, <<s, c>> \in pending'
        PROVE  pc'[c] \in {"wait", "done"}
    <2>1. <<s, c>> \in pending \/ (Busy /\ c = msg.call)
      <3>1. ASSUME NEW t \in Subscribers, NEW failing \in BOOLEAN, NEW word \in Words,
                   Deliver(t, failing, word)
            PROVE  <<s, c>> \in pending \/ (Busy /\ c = msg.call)
        BY <1>2, <3>1 DEF Deliver, Busy
      <3>2. ASSUME \A t \in Subscribers, failing \in BOOLEAN, word \in Words :
                     ~Deliver(t, failing, word)
            PROVE  pending' \subseteq pending
        BY <3>2
        DEF Next, StartStep, StartSwap, StartLoop, CallStep, Offer, OfferClosed, Crash,
            Return, Invoke, LoopStep, ReceivePublication, ReceiveSubscription,
            ReceiveClosed, Delivered, NoteUndelivered, Republish, Finish, Exit, WorkStep,
            Complete, StopSwap, StopStep, StopCancel, StopWait, StopClose, vars, deliveries
      <3>3. QED
        BY <1>2, <3>1, <3>2
    <2>2. pc[c] \in {"wait", "done"}
      BY <2>1, AtWork DEF RefusalInv
    <2>3. QED
      BY <1>1, <2>2
  <1>3. ASSUME NEW c \in Calls
        PROVE  RefusalOf(c)'
    <2>1. ASSUME NEW s \in Subscribers, NEW d \in Calls, WorkStep(s, d)
          PROVE  RefusalOf(c)'
      <3>1. PICK failing \in BOOLEAN, word \in Words : Complete(s, d, failing, word)
        BY <2>1 DEF WorkStep
      <3> DEFINE g == Spoken(word) \union {IF failing THEN "failed" ELSE "handled"}
      <3>2. /\ <<s, d>> \in pending /\ Note(d, g)
            /\ UNCHANGED <<ch, loop, msg, pc, reached>>
        BY <3>1 DEF Complete, loopVars, clients
      <3>3. "refused" \notin g
        BY DEF Spoken
      <3> HIDE DEF g
      <3>4. Absent(c) => Absent(c)'
        BY <3>2, AbsentKept
      <3>5. CASE c = d
        <4>1. pc[c] \in {"wait", "done"} /\ grounds'[c] = grounds[c] \union g
          BY <3>2, <3>5 DEF Note, RefusalInv, BusInv, TypeOK
        <4>2. QED
          BY <3>2, <3>3, <3>4, <4>1, RefusalGrown DEF RefusalInv
      <3>6. CASE c # d
        <4>1. grounds'[c] = grounds[c]
          BY <3>2, <3>6 DEF Note, BusInv, TypeOK
        <4>2. QED
          BY <3>2, <3>4, <4>1, RefusalKept DEF RefusalInv
      <3>7. QED
        BY <3>5, <3>6
    <2>2. ASSUME \/ StartStep \/ StopSwap \/ StopStep \/ UNCHANGED vars
                 \/ \E d \in Calls : OfferClosed(d) \/ Return(d)
          PROVE  RefusalOf(c)'
      <3>1. UNCHANGED <<ch, grounds, reached>>
        BY <2>2 DEF StartStep, StartSwap, StartLoop, StopSwap, StopStep, StopCancel, StopWait,
           StopClose, vars, OfferClosed, Crash, Return, deliveries
      <3>2. UNCHANGED <<loop, msg>> \/ ~Busy'
        BY <2>2 DEF StartStep, StartSwap, StartLoop, StopSwap, StopStep, StopCancel, StopWait,
           StopClose, vars, OfferClosed, Crash, Return, loopVars, Busy
      <3>3. pc'[c] = pc[c] \/ (pc[c] = "wait" /\ pc'[c] = "done")
        BY <2>2 DEF StartStep, StartSwap, StartLoop, StopSwap, StopStep, StopCancel, StopWait,
           StopClose, vars, OfferClosed, Crash, Return, clients, BusInv, TypeOK
      <3>4. QED
        BY <3>1, <3>2, <3>3, AbsentKept, RefusalKept DEF RefusalInv
    <2>3. QED
      BY <2>1, <2>2, InvokeRefusal, OfferRefusal, LoopRefusal DEF Next, CallStep
  <1>4. QED
    BY <1>2, <1>3 DEF RefusalInv

LEMMA RefusalInvAlways == Spec => []RefusalInv
  BY InitRefusalInv, NextRefusalInv, BusInvAlways, PTL DEF Spec

(* What a call was refused has not happened and never will: retrying a     *)
(* refused call is safe, whatever the reason and whatever Stop does.       *)
THEOREM Refusals == Spec => []RefusedHasNoEffect
  <1>1. BusInv /\ RefusalInv => RefusedHasNoEffect
    <2> SUFFICES ASSUME RefusalInv, NEW c \in Calls, "refused" \in grounds[c]
                 PROVE  /\ pc[c] \in {"wait", "done"} /\ reached[c] = {}
                        /\ ~Queued(Original(c)) /\ ~AtLoop(Original(c))
      BY DEF RefusedHasNoEffect
    <2>1. pc[c] \in {"wait", "done"} /\ reached[c] = {} /\ Absent(c)
      BY DEF RefusalInv, RefusalOf
    <2>2. QED
      BY <2>1, OriginalOrCopy DEF Absent, Queued, AtLoop, Busy, Occurs
  <1>2. QED
    BY <1>1, BusInvAlways, RefusalInvAlways, PTL

-----------------------------------------------------------------------------
(* What PublishSync reports.                                               *)

LEMMA SyncKept ==
  ASSUME NEW c \in Calls, SyncOf(c), req'[c] = req[c], resp'[c] = resp[c],
         "refused" \in grounds'[c] <=> "refused" \in grounds[c],
         Errors(c)' = Errors(c),
         AtLoop(Original(c))' <=> AtLoop(Original(c)),
         AtLoop(Original(c)) => failed' = failed
  PROVE  SyncOf(c)'
  <1>1. Kind(c)' = Kind(c)
    BY DEF Kind
  <1>2. QED
    BY <1>1 DEF SyncOf

(* What a step notes that notes no error.                                  *)
LEMMA ErrorsKept ==
  ASSUME NEW c \in Calls,
         \A g \in {"refused", "complained", "remarked"} : g \in grounds'[c] <=> g \in grounds[c]
  PROVE  /\ Errors(c)' = Errors(c)
         /\ "refused" \in grounds'[c] <=> "refused" \in grounds[c]
  BY DEF Errors

LEMMA InitSyncInv == Init => SyncInv
  BY DEF Init, SyncInv, SyncOf, Kind

(* A call that takes its first or its second step.                         *)
LEMMA SyncRefused ==
  ASSUME BusInv, NEW c \in Calls, NEW r, Refuse(c, r), r.kind # "event",
         grounds[c] = {}, ~AtLoop(Original(c)), UNCHANGED <<loop, msg>>
  PROVE  SyncOf(c)'
  <1>1. resp'[c] = "error" /\ grounds'[c] = {"refused"}
    BY DEF Refuse, Note, BusInv, TypeOK
  <1>2. ~AtLoop(Original(c))'
    BY DEF AtLoop
  <1>3. QED
    BY <1>1, <1>2 DEF SyncOf, Errors

LEMMA SyncOffered ==
  ASSUME BusInv, NEW c \in Calls, UNCHANGED <<resp, grounds, loop, msg>>,
         grounds[c] = {}, resp[c] = "none", ~AtLoop(Original(c))
  PROVE  SyncOf(c)'
  BY DEF SyncOf, AtLoop, Errors

LEMMA ClientSync ==
  ASSUME BusInv, AnswerInv, RefusalInv, SyncInv, NEW d \in Calls, NEW c \in Calls,
         Offer(d) \/ \E r \in MayAsk[d] : Invoke(d, r)
  PROVE  SyncOf(c)'
  <1>1. UNCHANGED <<loop, msg, failed>> /\ pc[d] \in {"idle", "offer"}
    BY DEF Offer, Invoke, loopVars
  <1>2. CASE c # d
    <2>1. req'[c] = req[c] /\ resp'[c] = resp[c] /\ grounds'[c] = grounds[c]
      BY <1>2 DEF Offer, Invoke, Refuse, Note, BusInv, TypeOK
    <2>2. QED
      BY <1>1, <2>1, ErrorsKept, SyncKept DEF SyncInv, AtLoop
  <1>3. CASE c = d
    <2>1. grounds[c] = {} /\ resp[c] = "none" /\ ~AtLoop(Original(c))
      BY <1>1, <1>3, NotOfferedYet DEF RefusalInv, RefusalOf, AnswerInv, AnswerOf
    <2>2. CASE UNCHANGED <<resp, grounds>>
      BY <1>1, <2>1, <2>2, SyncOffered
    <2>3. ASSUME NEW r, Refuse(c, r), req'[c] = r
          PROVE  SyncOf(c)'
      <3>1. CASE r.kind = "event"
        <4>1. Kind(c)' # "sync"
          BY <2>3, <3>1 DEF Kind
        <4>2. QED
          BY <4>1 DEF SyncOf
      <3>2. CASE r.kind # "event"
        BY <1>1, <2>1, <2>3, <3>2, SyncRefused
      <3>3. QED
        BY <3>1, <3>2
    <2>4. QED
      BY <1>3, <2>2, <2>3 DEF Offer, Invoke, BusInv, TypeOK
  <1>4. QED
    BY <1>2, <1>3

LEMMA DeliverSync ==
  ASSUME BusInv, AnswerInv, SyncInv, NEW s \in Subscribers, NEW failing \in BOOLEAN,
         NEW word \in Words, Deliver(s, failing, word), NEW c \in Calls
  PROVE  SyncOf(c)'
  <1>1. /\ Busy /\ UNCHANGED <<loop, msg, req, resp>>
        /\ Note(msg.call, Spoken(word) \union Evidence(s, msg, failing))
        /\ failed' = (failed \/ (IsSync(msg) /\ failing))
    BY DEF Deliver, KeepFirstError, Busy, clients
  <1>2. AtLoop(Original(c))' <=> AtLoop(Original(c))
    BY <1>1 DEF AtLoop
  <1>3. msg \in Messages /\ msg.call \in Calls
    BY <1>1, AtWork
  <1>4. CASE ~IsSync(msg)
    <2>1. \A g \in {"refused", "complained", "remarked"} :
            g \notin Spoken(word) \union Evidence(s, msg, failing)
      BY <1>4 DEF Spoken, Evidence
    <2>2. \A g \in {"refused", "complained", "remarked"} : g \in grounds'[c] <=> g \in grounds[c]
      BY <1>1, <2>1 DEF Note, BusInv, TypeOK
    <2>3. failed' = failed
      BY <1>1, <1>4 DEF BusInv, TypeOK
    <2>4. QED
      BY <1>1, <1>2, <2>2, <2>3, ErrorsKept, SyncKept DEF SyncInv
  <1>5. CASE IsSync(msg) /\ c # msg.call
    <2>1. grounds'[c] = grounds[c]
      BY <1>1, <1>5 DEF Note, BusInv, TypeOK
    <2>2. ~AtLoop(Original(c))
      BY <1>5, OriginalOrCopy DEF AtLoop
    <2>3. QED
      BY <1>1, <1>2, <2>1, <2>2, ErrorsKept, SyncKept DEF SyncInv
  <1>6. CASE IsSync(msg) /\ c = msg.call
    <2>1. AtLoop(Original(c)) /\ AtLoop(Original(c))'
      BY <1>1, <1>2, <1>3, <1>6, OriginalOrCopy DEF AtLoop, Busy, IsSync
    <2>2. /\ "refused" \notin Spoken(word) \union Evidence(s, msg, failing)
          /\ (Spoken(word) \union Evidence(s, msg, failing))
                \cap {"complained", "remarked"} # {} <=> failing
      BY <1>6 DEF Spoken, Evidence
    <2>3. grounds'[c] = grounds[c] \union (Spoken(word) \union Evidence(s, msg, failing))
      BY <1>1, <1>6 DEF Note, BusInv, TypeOK
    <2>4. failed' <=> (failed \/ failing)
      BY <1>1, <1>6
    <2>5. /\ Kind(c) = "sync" /\ Kind(c)' = "sync"
      BY <1>1, <1>6 DEF IsSync, Kind
    <2>6. SyncOf(c) /\ resp'[c] = resp[c]
      BY <1>1 DEF SyncInv
    <2>7. Errors(c)' # {} <=> Errors(c) # {} \/ failing
      BY <2>2, <2>3 DEF Errors
    <2>8. "refused" \in grounds'[c] <=> "refused" \in grounds[c]
      BY <2>2, <2>3
    <2>9. resp[c] = "none"
      BY <2>1 DEF AnswerInv, AnswerOf
    <2>10. QED
      BY <2>1, <2>4, <2>5, <2>6, <2>7, <2>8, <2>9 DEF SyncOf
  <1>7. QED
    BY <1>4, <1>5, <1>6

LEMMA LoopSync ==
  ASSUME BusInv, AnswerInv, RefusalInv, SyncInv, LoopStep, NEW c \in Calls
  PROVE  SyncOf(c)'
  <1>0. UNCHANGED req /\ SyncOf(c)
    BY DEF LoopStep, ReceivePublication, ReceiveSubscription, ReceiveClosed, Crash, Deliver,
       Delivered, NoteUndelivered, Republish, Finish, Exit, clients, SyncInv
  <1>1. CASE ReceivePublication
    <2>1. /\ UNCHANGED <<resp, grounds>> /\ loop = "select" /\ loop' = "deliver"
          /\ msg' = Head(ch) /\ failed' = FALSE
      BY <1>1 DEF ReceivePublication, clients, deliveries
    <2>2. Head(ch) \in Messages /\ Occurs(ch, Head(ch))
      BY <1>1, ReceiveOnce DEF ReceivePublication, BusInv
    <2>3. ~AtLoop(Original(c)) /\ (AtLoop(Original(c))' <=> Head(ch) = Original(c))
      BY <2>1 DEF AtLoop, Original
    <2>4. CASE Head(ch) = Original(c)
      <3>1. resp[c] = "none"
        BY <2>2, <2>4 DEF AnswerInv, AnswerOf
      <3>2. Kind(c)' = Kind(c) /\ AtLoop(Original(c))'
        BY <1>0, <2>3, <2>4 DEF Kind
      <3>3. QED
        BY <1>0, <2>1, <2>3, <3>1, <3>2 DEF SyncOf, Errors
    <2>5. CASE Head(ch) # Original(c)
      BY <1>0, <2>1, <2>3, <2>5, ErrorsKept, SyncKept
    <2>6. QED
      BY <2>4, <2>5
  <1>2. ASSUME NEW failing \in BOOLEAN, ReceiveSubscription(failing)
        PROVE  SyncOf(c)'
    <2>1. /\ UNCHANGED <<grounds, loop, msg, failed>> /\ ~IsPublication(Head(ch).call)
          /\ \A d \in Calls : d # Head(ch).call => resp'[d] = resp[d]
      BY <1>2 DEF ReceiveSubscription, Answer, loopVars, deliveries, BusInv, TypeOK
    <2>2. CASE c = Head(ch).call
      <3>1. Kind(c)' # "sync"
        BY <1>0, <2>1, <2>2 DEF IsPublication, Kind
      <3>2. QED
        BY <3>1 DEF SyncOf
    <2>3. CASE c # Head(ch).call
      BY <1>0, <2>1, <2>3, ErrorsKept, SyncKept DEF AtLoop
    <2>4. QED
      BY <2>2, <2>3
  <1>3. CASE Delivered \/ NoteUndelivered \/ Republish
    <2>1. /\ Busy /\ Busy' /\ UNCHANGED <<msg, failed, resp>>
          /\ grounds' = grounds \/ \E g \in {"bounced", "unhandled", "unwanted"} :
                                      Note(msg.call, {g})
      BY <1>3 DEF Delivered, NoteUndelivered, Republish, Bounce, Discard, Busy, clients,
         deliveries
    <2>2. \A g \in {"refused", "complained", "remarked"} : g \in grounds'[c] <=> g \in grounds[c]
      BY <2>1 DEF Note, BusInv, TypeOK
    <2>3. AtLoop(Original(c))' <=> AtLoop(Original(c))
      BY <2>1 DEF AtLoop, Busy, Original
    <2>4. QED
      BY <1>0, <2>1, <2>2, <2>3, ErrorsKept, SyncKept
  <1>4. CASE Finish
    <2>1. /\ UNCHANGED grounds /\ ~AtLoop(Original(c))' /\ Busy
          /\ resp' = IF IsSync(msg) THEN [resp EXCEPT ![msg.call] = Response] ELSE resp
      BY <1>4 DEF Finish, deliveries, AtLoop, Busy
    <2>2. CASE AtLoop(Original(c)) /\ Kind(c) = "sync"
      <3>1. IsSync(msg) /\ msg.call = c
        BY <2>2, OriginalOrCopy DEF IsSync, AtLoop
      <3>2. resp[c] = "none" /\ resp'[c] = Response
        BY <2>1, <2>2, <3>1 DEF AnswerInv, AnswerOf, BusInv, TypeOK
      <3>3. "refused" \notin grounds[c] /\ (failed <=> Errors(c) # {})
        BY <1>0, <2>2, <3>2 DEF SyncOf
      <3>4. QED
        BY <2>1, <3>2, <3>3 DEF SyncOf, Response, Errors
    <2>3. CASE ~AtLoop(Original(c)) /\ Kind(c) = "sync"
      <3>1. IsSync(msg) => msg.call # c
        BY <2>1, <2>3, AtWork, OriginalOrCopy DEF IsSync, AtLoop, Busy
      <3>2. resp'[c] = resp[c]
        BY <2>1, <3>1 DEF BusInv, TypeOK
      <3>3. QED
        BY <1>0, <2>1, <2>3, <3>2, ErrorsKept, SyncKept
    <2>4. CASE Kind(c) # "sync"
      BY <1>0, <2>4 DEF SyncOf, Kind
    <2>5. QED
      BY <2>2, <2>3, <2>4
  <1>5. CASE ReceiveClosed \/ Exit
    <2>1. UNCHANGED <<resp, grounds, failed, msg>>
      BY <1>5 DEF ReceiveClosed, Crash, Exit, clients, deliveries, loopVars
    <2>2. AtLoop(Original(c))' <=> AtLoop(Original(c))
      BY <1>5, <2>1 DEF ReceiveClosed, Crash, Exit, loopVars, AtLoop, Original
    <2>3. QED
      BY <1>0, <2>1, <2>2, ErrorsKept, SyncKept
  <1>6. QED
    BY <1>1, <1>2, <1>3, <1>4, <1>5, DeliverSync DEF LoopStep

LEMMA NextSyncInv == BusInv /\ AnswerInv /\ RefusalInv /\ SyncInv /\ [Next]_vars => SyncInv'
  <1> SUFFICES ASSUME BusInv, AnswerInv, RefusalInv, SyncInv, [Next]_vars, NEW c \in Calls
               PROVE  SyncOf(c)'
    BY DEF SyncInv
  <1>1. ASSUME NEW s \in Subscribers, NEW d \in Calls, WorkStep(s, d)
        PROVE  SyncOf(c)'
    <2>1. PICK failing \in BOOLEAN, word \in Words : Complete(s, d, failing, word)
      BY <1>1 DEF WorkStep
    <2>2. /\ Note(d, Spoken(word) \union {IF failing THEN "failed" ELSE "handled"})
          /\ UNCHANGED <<loop, msg, failed, req, resp>>
      BY <2>1 DEF Complete, loopVars, clients
    <2>3. \A g \in {"refused", "complained", "remarked"} :
            g \notin Spoken(word) \union {IF failing THEN "failed" ELSE "handled"}
      BY DEF Spoken
    <2>4. \A g \in {"refused", "complained", "remarked"} : g \in grounds'[c] <=> g \in grounds[c]
      BY <2>2, <2>3 DEF Note, BusInv, TypeOK
    <2>5. QED
      BY <2>2, <2>4, ErrorsKept, SyncKept DEF SyncInv, AtLoop
  <1>2. ASSUME \/ StartStep \/ StopSwap \/ StopStep \/ UNCHANGED vars
               \/ \E d \in Calls : OfferClosed(d) \/ Return(d)
        PROVE  SyncOf(c)'
    <2>1. UNCHANGED <<req, resp, grounds, failed, msg>>
      BY <1>2 DEF StartStep, StartSwap, StartLoop, StopSwap, StopStep, StopCancel, StopWait,
         StopClose, vars, OfferClosed, Crash, Return, clients, deliveries, loopVars
    <2>2. AtLoop(Original(c))' <=> AtLoop(Original(c))
      BY <1>2, <2>1 DEF StartStep, StartSwap, StartLoop, StopSwap, StopStep, StopCancel,
         StopWait, StopClose, vars, OfferClosed, Crash, Return, loopVars, AtLoop, Original
    <2>3. QED
      BY <2>1, <2>2, ErrorsKept, SyncKept DEF SyncInv
  <1>3. QED
    BY <1>1, <1>2, ClientSync, LoopSync DEF Next, CallStep

LEMMA SyncInvAlways == Spec => []SyncInv
  BY InitSyncInv, NextSyncInv, BusInvAlways, AnswerInvAlways, RefusalInvAlways, PTL DEF Spec

(* PublishSync reports a refusal and every error of a responsible          *)
(* subscriber, whichever came last, and reports none that nobody returned. *)
THEOREM SyncReports == Spec => []SyncVerdict
  <1>1. SyncInv => SyncVerdict
    BY DEF SyncInv, SyncOf, SyncVerdict, Errors
  <1>2. QED
    BY <1>1, SyncInvAlways, PTL

-----------------------------------------------------------------------------
(* What a step may do to a call.                                           *)

(* Only the caller moves a call along; the bus only answers.               *)
LEMMA CallerMoves ==
  ASSUME [Next]_vars
  PROVE  \/ UNCHANGED <<pc, req, before>>
         \/ \E d \in Calls : \/ Offer(d) \/ Return(d)
                             \/ \E r \in MayAsk[d] : Invoke(d, r)
  BY ZenonT(40)
  DEF Next, StartStep, StartSwap, StartLoop, CallStep, OfferClosed, Crash, LoopStep,
     ReceivePublication, ReceiveSubscription, ReceiveClosed, Deliver, Delivered,
     NoteUndelivered, Republish, Finish, Exit, WorkStep, Complete, StopSwap, StopStep,
     StopCancel, StopWait, StopClose, vars, clients

(* A call goes forward; what it asked and what it came after are fixed     *)
(* when it is made.                                                        *)
Forward(c) ==
    /\ pc[c] = "done" => pc'[c] = "done"
    /\ pc[c] \in {"wait", "done"} => pc'[c] \in {"wait", "done"}
    /\ pc[c] # "idle" => pc'[c] # "idle" /\ req'[c] = req[c] /\ before'[c] = before[c]
    /\ before'[c] = before[c] \/ (pc'[c] # "idle" /\ before'[c] = {d \in Calls : pc[d] = "done"})
    /\ pc'[c] = "idle" => req'[c] = req[c] /\ before'[c] = before[c]

LEMMA CallForward ==
  ASSUME BusInv, [Next]_vars, NEW c \in Calls
  PROVE  Forward(c)
  <1>1. CASE UNCHANGED <<pc, req, before>>
    BY <1>1 DEF Forward
  <1>2. ASSUME NEW d \in Calls, Offer(d) \/ Return(d)
        PROVE  Forward(c)
    <2>1. UNCHANGED <<req, before>> /\ pc[d] \in {"offer", "wait"}
      BY <1>2 DEF Offer, Return
    <2>2. pc'[c] = IF c = d THEN pc'[d] ELSE pc[c]
      BY <1>2 DEF Offer, Return, BusInv, TypeOK
    <2>3. pc'[d] \in {"wait", "done"}
      BY <1>2 DEF Offer, Return, AfterOffer, BusInv, TypeOK
    <2>4. pc[d] = "wait" => pc'[d] = "done"
      BY <1>2 DEF Offer, Return, BusInv, TypeOK
    <2>5. QED
      BY <2>1, <2>2, <2>3, <2>4 DEF Forward
  <1>3. ASSUME NEW d \in Calls, NEW r \in MayAsk[d], Invoke(d, r)
        PROVE  Forward(c)
    <2>1. CASE c = d
      <3>1. /\ pc[c] = "idle" /\ pc'[c] \in {"offer", "wait", "done"}
            /\ before'[c] = {e \in Calls : pc[e] = "done"}
        BY <1>3, <2>1 DEF Invoke, AfterIgnored, AfterOffer, BusInv, TypeOK
      <3>2. QED
        BY <3>1 DEF Forward
    <2>2. CASE c # d
      <3>1. pc'[c] = pc[c] /\ req'[c] = req[c] /\ before'[c] = before[c]
        BY <1>3, <2>2 DEF Invoke, BusInv, TypeOK
      <3>2. QED
        BY <3>1 DEF Forward
    <2>3. QED
      BY <2>1, <2>2
  <1>4. QED
    BY <1>1, <1>2, <1>3, CallerMoves

(* No step adds a refusal to a call that was offered, takes back an answer *)
(* or forgets a subscriber that was reached.                               *)
Stable(c) ==
    /\ pc[c] \in {"wait", "done"} => (Accepted(c)' <=> Accepted(c))
    /\ resp[c] # "none" => resp'[c] # "none"
    /\ reached[c] \subseteq reached'[c]

LEMMA GroundsGrow ==
  ASSUME BusInv, NEW c \in Calls, NEW d, NEW g, Note(d, g)
  PROVE  /\ c # d \/ "refused" \notin g => ("refused" \in grounds'[c] <=> "refused" \in grounds[c])
         /\ c = d /\ "refused" \in g => "refused" \in grounds'[c]
  BY DEF Note, BusInv, TypeOK

LEMMA CallStable ==
  ASSUME BusInv, [Next]_vars, NEW c \in Calls
  PROVE  Stable(c)
  <1> DEFINE Same == "refused" \in grounds'[c] <=> "refused" \in grounds[c]
  <1>0. Forward(c)
    BY CallForward
  <1>1. resp[c] # "none" => resp'[c] # "none"
    <2>1. ASSUME NEW d \in Calls, Offer(d) \/ \E r \in MayAsk[d] : Invoke(d, r)
          PROVE  resp'[c] = resp[c] \/ resp'[c] = "error"
      BY <2>1 DEF Offer, Invoke, Refuse, BusInv, TypeOK
    <2>2. ASSUME NEW failing \in BOOLEAN, ReceiveSubscription(failing)
          PROVE  resp'[c] = resp[c] \/ resp'[c] \in {"ok", "error"}
      BY <2>2 DEF ReceiveSubscription, Answer, BusInv, TypeOK
    <2>3. ASSUME Finish
          PROVE  resp'[c] = resp[c] \/ resp'[c] \in {"ok", "error"}
      BY <2>3 DEF Finish, Response, BusInv, TypeOK
    <2>4. \/ resp' = resp \/ Finish \/ \E failing \in BOOLEAN : ReceiveSubscription(failing)
          \/ \E d \in Calls : Offer(d) \/ \E r \in MayAsk[d] : Invoke(d, r)
      BY DEF Next, StartStep, StartSwap, StartLoop, CallStep, OfferClosed, Crash, Return,
         LoopStep, ReceivePublication, ReceiveClosed, Deliver, Delivered, NoteUndelivered,
         Republish, Exit, WorkStep, Complete, StopSwap, StopStep, StopCancel, StopWait,
         StopClose, vars, clients
    <2>5. QED
      BY <2>1, <2>2, <2>3, <2>4
  <1>2. ASSUME NEW s \in Subscribers, NEW failing \in BOOLEAN, NEW word \in Words,
               Deliver(s, failing, word)
        PROVE  Same /\ reached[c] \subseteq reached'[c]
    <2>1. "refused" \notin Spoken(word) \union Evidence(s, msg, failing)
      BY DEF Spoken, Evidence
    <2>2. /\ Note(msg.call, Spoken(word) \union Evidence(s, msg, failing))
          /\ reached' = [reached EXCEPT ![msg.call] = @ \union {s}]
      BY <1>2 DEF Deliver
    <2>3. Same
      BY <2>1, <2>2, GroundsGrow
    <2>4. reached[c] \subseteq reached'[c]
      BY <2>2 DEF BusInv, TypeOK
    <2>5. QED
      BY <2>3, <2>4
  <1>3. ASSUME NEW s \in Subscribers, NEW d \in Calls, WorkStep(s, d)
        PROVE  Same /\ UNCHANGED reached
    <2>1. PICK failing \in BOOLEAN, word \in Words : Complete(s, d, failing, word)
      BY <1>3 DEF WorkStep
    <2>2. "refused" \notin Spoken(word) \union {IF failing THEN "failed" ELSE "handled"}
      BY DEF Spoken
    <2>3. /\ Note(d, Spoken(word) \union {IF failing THEN "failed" ELSE "handled"})
          /\ UNCHANGED reached
      BY <2>1 DEF Complete
    <2>4. QED
      BY <2>2, <2>3, GroundsGrow
  <1>4. ASSUME NoteUndelivered \/ Republish
        PROVE  Same /\ UNCHANGED reached
    <2>1. /\ UNCHANGED reached
          /\ grounds' = grounds \/ \E g \in {"bounced", "unhandled", "unwanted"} :
                                      Note(msg.call, {g})
      BY <1>4 DEF NoteUndelivered, Republish, Bounce, Discard
    <2>2. QED
      BY <2>1, GroundsGrow
  <1>5. ASSUME NEW d \in Calls, Offer(d) \/ \E r \in MayAsk[d] : Invoke(d, r)
        PROVE  /\ pc[c] \in {"wait", "done"} => Same
               /\ UNCHANGED reached
    <2>1. /\ UNCHANGED reached /\ pc[d] \in {"idle", "offer"}
          /\ grounds' = grounds \/ Note(d, {"refused"})
      BY <1>5 DEF Offer, Invoke, Refuse
    <2>2. QED
      BY <2>1, GroundsGrow
  <1>6. ASSUME \/ StartStep \/ StopSwap \/ StopStep \/ UNCHANGED vars
               \/ ReceivePublication \/ ReceiveClosed \/ Delivered \/ Finish \/ Exit
               \/ \E failing \in BOOLEAN : ReceiveSubscription(failing)
               \/ \E d \in Calls : OfferClosed(d) \/ Return(d)
        PROVE  UNCHANGED <<grounds, reached>>
    BY <1>6 DEF StartStep, StartSwap, StartLoop, OfferClosed, Crash, Return, ReceivePublication,
       ReceiveSubscription, ReceiveClosed, Delivered, Finish, Exit, StopSwap, StopStep,
       StopCancel, StopWait, StopClose, vars, deliveries
  <1>7. /\ pc[c] \in {"wait", "done"} => Same
        /\ reached[c] \subseteq reached'[c]
    BY <1>2, <1>3, <1>4, <1>5, <1>6 DEF Next, CallStep, LoopStep
  <1>8. QED
    BY <1>0, <1>1, <1>7 DEF Stable, Forward, Accepted

LEMMA InitHistoryInv == Init => HistoryInv
  BY DEF Init, HistoryInv, Concluded, PastOf, TodoInv

LEMMA NextConcluded ==
  ASSUME BusInv, AnswerInv, [Next]_vars, NEW c \in Calls, Concluded(c)
  PROVE  Concluded(c)'
  <1>1. Forward(c) /\ Stable(c)
    BY CallForward, CallStable
  <1>2. CASE pc[c] = "done"
    BY <1>1, <1>2 DEF Concluded, Forward, Stable, IsEvent, Kind
  <1>3. ASSUME pc[c] # "done", pc'[c] = "done"
        PROVE  IsEvent(c)' \/ resp'[c] # "none"
    <2>1. PICK d \in Calls : Offer(d) \/ Return(d) \/ \E r \in MayAsk[d] : Invoke(d, r)
      BY <1>3, CallerMoves
    <2>2. c = d
      BY <1>3, <2>1 DEF Offer, Return, Invoke, BusInv, TypeOK
    <2>3. CASE Return(d)
      <3>1. resp[c] # "none"
        BY <2>2, <2>3 DEF Return
      <3>2. QED
        BY <1>1, <3>1 DEF Stable
    <2>4. CASE Offer(d)
      BY <1>3, <2>2, <2>4 DEF Offer, AfterOffer, IsEvent, Kind, BusInv, TypeOK
    <2>5. ASSUME NEW r \in MayAsk[d], Invoke(d, r)
          PROVE  IsEvent(c)'
      <3>1. r # None
        BY BusAssumption
      <3>2. r.kind = "event" /\ req'[c] = r
        BY <1>3, <2>2, <2>5 DEF Invoke, AfterIgnored, AfterOffer, BusInv, TypeOK
      <3>3. QED
        BY <3>1, <3>2 DEF IsEvent, Kind
    <2>6. QED
      BY <2>1, <2>3, <2>4, <2>5
  <1>4. QED
    BY <1>2, <1>3 DEF Concluded

LEMMA NextPast ==
  ASSUME BusInv, HistoryInv, [Next]_vars, NEW c \in Calls
  PROVE  PastOf(c)'
  <1>1. \A d \in Calls : Forward(d)
    BY CallForward
  <1>2. before[c] \subseteq Calls /\ PastOf(c)
    BY DEF BusInv, TypeOK, HistoryInv
  <1>3. CASE before'[c] = before[c]
    BY <1>1, <1>2, <1>3 DEF Forward, PastOf
  <1>4. CASE pc'[c] # "idle" /\ before'[c] = {d \in Calls : pc[d] = "done"}
    BY <1>1, <1>4 DEF Forward, PastOf
  <1>5. QED
    BY <1>1, <1>3, <1>4 DEF Forward

(* The subscriptions change in the select only.                            *)
LEMMA SubscriptionsMove ==
  ASSUME [Next]_vars
  PROVE  UNCHANGED subscriptions \/ \E failing \in BOOLEAN : ReceiveSubscription(failing)
  BY DEF Next, StartStep, StartSwap, StartLoop, CallStep, Offer, OfferClosed, Crash, Return,
     Invoke, LoopStep, ReceivePublication, ReceiveClosed, Deliver, Delivered,
     NoteUndelivered, Republish, Finish, Exit, WorkStep, Complete, StopSwap, StopStep,
     StopCancel, StopWait, StopClose, vars

(* Which subscribers match is a matter of the request and the map.         *)
LEMMA MatchingKept ==
  ASSUME NEW m, req'[m.call] = req[m.call], UNCHANGED subscriptions
  PROVE  Matching(m)' = Matching(m)
  BY DEF Matching, Wants, TopicOf

LEMMA NextTodo == BusInv /\ HistoryInv /\ [Next]_vars => TodoInv'
  <1> SUFFICES ASSUME BusInv, HistoryInv, [Next]_vars, loop' = "deliver"
               PROVE  TodoInv'
    BY DEF TodoInv
  <1>1. CASE ReceivePublication
    <2>1. /\ msg' = Head(ch) /\ todo' = Matching(Head(ch))
          /\ UNCHANGED <<req, subscriptions>>
      BY <1>1 DEF ReceivePublication, clients
    <2>2. PICK m : m = Head(ch)
      OBVIOUS
    <2>3. Matching(m)' = Matching(m)
      BY <2>1, MatchingKept
    <2>4. QED
      BY <2>1, <2>2, <2>3 DEF TodoInv
  <1>2. ASSUME NEW s \in Subscribers, NEW failing \in BOOLEAN, NEW word \in Words,
               Deliver(s, failing, word)
        PROVE  TodoInv'
    <2>1. /\ Busy /\ loop = "deliver" /\ todo' = todo \ {s}
          /\ reached' = [reached EXCEPT ![msg.call] = @ \union {s}]
          /\ UNCHANGED <<msg, req, subscriptions>>
      BY <1>2 DEF Deliver, Busy, clients
    <2>2. PICK m : m = msg
      OBVIOUS
    <2>3. m.call \in Calls /\ Matching(m)' = Matching(m)
      BY <2>1, <2>2, AtWork, MatchingKept
    <2>4. reached'[m.call] = reached[m.call] \union {s}
      BY <2>1, <2>2, <2>3 DEF BusInv, TypeOK
    <2>5. /\ todo \subseteq Matching(m)
          /\ \A t \in Matching(m) : t \in todo \/ t \in reached[m.call]
      BY <2>1, <2>2 DEF HistoryInv, TodoInv
    <2>6. /\ todo' \subseteq Matching(m)'
          /\ \A t \in Matching(m)' : t \in todo' \/ t \in reached'[m.call]
      BY <2>1, <2>3, <2>4, <2>5
    <2>7. QED
      BY <2>1, <2>2, <2>6 DEF TodoInv
  <1>3. ASSUME UNCHANGED <<loop, msg, todo, subscriptions, reached>>
        PROVE  TodoInv'
    <2>1. PICK m : m = msg
      OBVIOUS
    <2>2. Busy
      BY <1>3 DEF Busy
    <2>3. m.call \in Calls /\ pc[m.call] \in {"wait", "done"}
      BY <2>1, <2>2, AtWork
    <2>4. req'[m.call] = req[m.call]
      BY <2>3, CallForward DEF Forward
    <2>5. Matching(m)' = Matching(m)
      BY <1>3, <2>4, MatchingKept
    <2>6. QED
      BY <1>3, <2>1, <2>5 DEF HistoryInv, TodoInv
  <1>4. ASSUME \/ \E c \in Calls : CallStep(c) \/ \E r \in MayAsk[c] : Invoke(c, r)
               \/ ReceiveClosed \/ StopSwap \/ StopStep \/ UNCHANGED vars
               \/ \E s \in Subscribers, c \in Calls : WorkStep(s, c)
        PROVE  UNCHANGED <<loop, msg, todo, subscriptions, reached>>
    BY <1>4 DEF CallStep, Offer, OfferClosed, Return, Invoke, ReceiveClosed, Crash, StopSwap,
       StopStep, StopCancel, StopWait, StopClose, WorkStep, Complete, vars, loopVars, deliveries
  <1>5. ASSUME \/ StartStep \/ Delivered \/ NoteUndelivered \/ Republish \/ Finish \/ Exit
               \/ \E failing \in BOOLEAN : ReceiveSubscription(failing)
        PROVE  loop' # "deliver"
    BY <1>5 DEF StartStep, StartSwap, StartLoop, Delivered, NoteUndelivered, Republish, Finish,
       Exit, ReceiveSubscription, loopVars
  <1>6. QED
    BY <1>1, <1>2, <1>3, <1>4, <1>5 DEF Next, LoopStep

LEMMA HistoryInvAlways == Spec => []HistoryInv
  <1>1. BusInv /\ AnswerInv /\ HistoryInv /\ [Next]_vars => HistoryInv'
    BY NextConcluded, NextPast, NextTodo DEF HistoryInv
  <1>2. QED
    BY <1>1, InitHistoryInv, BusInvAlways, AnswerInvAlways, PTL DEF Spec

-----------------------------------------------------------------------------
(* Whom a subscription makes hear.                                         *)

(* A subscription or an unsubscription that was not refused is answered by *)
(* the loop's select, and nowhere else.                                    *)
LEMMA Answered ==
  ASSUME BusInv, AnswerInv, [Next]_vars, NEW c \in Calls,
         resp[c] = "none", resp'[c] # "none", Accepted(c)', ~IsPublication(c)'
  PROVE  /\ pc[c] \in {"wait", "done"} /\ Occurs(ch, Original(c)) /\ Head(ch) = Original(c)
         /\ \E failing \in BOOLEAN : ReceiveSubscription(failing)
  <1>1. ASSUME NEW d \in Calls, Offer(d) \/ \E r \in MayAsk[d] : Invoke(d, r)
        PROVE  FALSE
    <2>1. resp' # resp
      BY DEF BusInv, TypeOK
    <2>2. PICK r : Refuse(d, r)
      BY <1>1, <2>1 DEF Offer, Invoke
    <2>3. c = d
      BY <2>2 DEF Refuse, BusInv, TypeOK
    <2>4. Note(d, {"refused"})
      BY <2>2 DEF Refuse
    <2>5. "refused" \in grounds'[c]
      BY <2>3, <2>4, GroundsGrow
    <2>6. QED
      BY <2>5 DEF Accepted
  <1>2. ASSUME Finish
        PROVE  FALSE
    <2>1. Busy /\ UNCHANGED req
      BY <1>2 DEF Finish, Busy
    <2>2. c = msg.call
      BY <1>2 DEF Finish, BusInv, TypeOK
    <2>3. IsPublication(c)
      BY <2>1, <2>2, AtWork
    <2>4. QED
      BY <2>1, <2>3 DEF IsPublication, Kind
  <1>3. PICK failing \in BOOLEAN : ReceiveSubscription(failing)
    <2>1. \/ UNCHANGED resp \/ Finish \/ \E failing \in BOOLEAN : ReceiveSubscription(failing)
          \/ \E d \in Calls : Offer(d) \/ \E r \in MayAsk[d] : Invoke(d, r)
      BY DEF Next, StartStep, StartSwap, StartLoop, CallStep, OfferClosed, Crash, Return,
         LoopStep, ReceivePublication, ReceiveClosed, Deliver, Delivered, NoteUndelivered,
         Republish, Exit, WorkStep, Complete, StopSwap, StopStep, StopCancel, StopWait,
         StopClose, vars, clients
    <2>2. QED
      BY <1>1, <1>2, <2>1
  <1>4. ch # <<>> /\ ch' = Tail(ch) /\ ~IsPublication(Head(ch).call)
    BY <1>3 DEF ReceiveSubscription
  <1>5. Head(ch) \in Messages /\ Occurs(ch, Head(ch))
    BY <1>4, ReceiveOnce DEF BusInv
  <1>6. ~Head(ch).undeliverable
    BY <1>4, <1>5 DEF AnswerInv
  <1>7. c = Head(ch).call
    BY <1>3 DEF ReceiveSubscription, Answer, BusInv, TypeOK
  <1>8. Head(ch) = Original(c)
    BY <1>5, <1>6, <1>7, OriginalOrCopy
  <1>9. pc[c] \in {"wait", "done"}
    BY <1>5, <1>7 DEF BusInv, Requested
  <1>10. QED
    BY <1>3, <1>5, <1>8, <1>9

(* What the select does to the map: it is the request of one call, which   *)
(* was under way, that changes the patterns of one subscriber.             *)
LEMMA Received ==
  ASSUME BusInv, AnswerInv, NEW failing \in BOOLEAN, ReceiveSubscription(failing)
  PROVE  \E u \in Calls :
            /\ Head(ch) = Original(u) /\ Occurs(ch, Original(u)) /\ resp[u] = "none"
            /\ pc[u] \in {"wait", "done"} /\ req[u] \in SubscriptionRequests
            /\ Kind(u) = req[u].kind /\ UNCHANGED <<pc, req, before, grounds>>
            /\ subscriptions' = [subscriptions EXCEPT ![req[u].sub] = Left(req[u])]
            /\ resp'[u] # "none" /\ \A d \in Calls : d # u => resp'[d] = resp[d]
  <1>1. /\ ch # <<>> /\ ch' = Tail(ch) /\ ~IsPublication(Head(ch).call)
        /\ UNCHANGED <<pc, req, before, grounds>>
        /\ Answer(Head(ch).call, req[Head(ch).call], failing)
    BY DEF ReceiveSubscription, deliveries
  <1>2. Head(ch) \in Messages /\ Occurs(ch, Head(ch))
    BY <1>1, ReceiveOnce DEF BusInv
  <1>3. PICK u \in Calls : u = Head(ch).call
    BY <1>2 DEF Messages
  <1>4. ~Head(ch).undeliverable
    BY <1>1, <1>2 DEF AnswerInv
  <1>5. Head(ch) = Original(u)
    BY <1>2, <1>3, <1>4, OriginalOrCopy
  <1>6. pc[u] \in {"wait", "done"} /\ req[u] \in Asked
    BY <1>2, <1>3 DEF BusInv, Requested
  <1>7. req[u] \in SubscriptionRequests
    BY <1>1, <1>3, <1>6, SubscriptionType DEF BusInv
  <1>8. Kind(u) = req[u].kind
    <2>1. req[u] # None
      BY <1>7, BusAssumption
    <2>2. QED
      BY <2>1 DEF Kind
  <1>9. resp[u] = "none"
    BY <1>2, <1>5 DEF AnswerInv, AnswerOf
  <1>10. /\ resp'[u] # "none" /\ \A d \in Calls : d # u => resp'[d] = resp[d]
         /\ subscriptions' = [subscriptions EXCEPT ![req[u].sub] = Left(req[u])]
    BY <1>1, <1>3 DEF Answer, BusInv, TypeOK
  <1>11. QED
    BY <1>1, <1>2, <1>5, <1>6, <1>7, <1>8, <1>9, <1>10

(* A call still to be answered is in nobody's past.                        *)
LEMMA Unanswered ==
  ASSUME HistoryInv, NEW u \in Calls, resp[u] = "none", ~IsEvent(u), NEW c \in Calls
  PROVE  u \notin before[c]
  BY DEF HistoryInv, Concluded, PastOf

(* Who removes whom does not change once both calls are made.              *)
LEMMA RemovesFixed ==
  ASSUME NEW u \in Calls, NEW x \in Calls, Forward(u), Forward(x), pc[u] # "idle", pc[x] # "idle"
  PROVE  Removes(u, x)' <=> Removes(u, x)
  BY DEF Forward, Removes, Kind

(* A removal that is still queued cannot belong to the past of anything,   *)
(* so what it takes from the map it takes back after the subscription.     *)
LEMMA NextInForce ==
  ASSUME BusInv, AnswerInv, HistoryInv, [Next]_vars, NEW x \in Calls, InForce(x)
  PROVE  InForce(x)'
  <1> SUFFICES ASSUME Kind(x)' = "subscribe", Accepted(x)', resp'[x] # "none"
               PROVE  \/ req'[x].pattern \in subscriptions'[req'[x].sub]
                      \/ \E u \in Calls : pc'[u] # "idle" /\ Removes(u, x)' /\ u \notin before'[x]
    BY DEF InForce
  <1>0. /\ \A u \in Calls : Forward(u) /\ Stable(u)
        /\ subscriptions \in [Subscribers -> SUBSET Patterns]
    BY CallForward, CallStable DEF BusInv, TypeOK
  <1>1. CASE resp[x] = "none"
    <2>1. ~IsPublication(x)'
      BY DEF IsPublication
    <2>2. PICK failing \in BOOLEAN : ReceiveSubscription(failing) /\ Head(ch) = Original(x)
      BY <1>1, <2>1, Answered
    <2>3. PICK u \in Calls :
             /\ Head(ch) = Original(u) /\ req[u] \in SubscriptionRequests
             /\ Kind(u) = req[u].kind /\ UNCHANGED req
             /\ subscriptions' = [subscriptions EXCEPT ![req[u].sub] = Left(req[u])]
      BY <2>2, Received
    <2>4. u = x
      BY <2>2, <2>3, OriginalOrCopy
    <2>5. req[x].sub \in Subscribers /\ req[x].kind = "subscribe"
      BY <2>3, <2>4 DEF SubscriptionRequests, Kind
    <2>6. subscriptions'[req[x].sub] = subscriptions[req[x].sub] \union {req[x].pattern}
      BY <1>0, <2>3, <2>4, <2>5 DEF Left
    <2>7. QED
      BY <2>3, <2>6
  <1>2. CASE resp[x] # "none"
    <2>1. pc[x] \in {"wait", "done"}
      BY <1>2 DEF AnswerInv, AnswerOf, BusInv, TypeOK
    <2>2. req'[x] = req[x] /\ before'[x] = before[x] /\ Accepted(x) /\ Kind(x) = "subscribe"
      BY <1>0, <2>1 DEF Forward, Stable, Kind
    <2>3. \/ req[x].pattern \in subscriptions[req[x].sub]
          \/ \E u \in Calls : pc[u] # "idle" /\ Removes(u, x) /\ u \notin before[x]
      BY <1>2, <2>2 DEF InForce
    <2>4. ASSUME NEW u \in Calls, pc[u] # "idle", Removes(u, x), u \notin before[x]
          PROVE  pc'[u] # "idle" /\ Removes(u, x)' /\ u \notin before'[x]
      BY <1>0, <2>1, <2>2, <2>4, RemovesFixed DEF Forward
    <2>5. ASSUME NEW failing \in BOOLEAN, ReceiveSubscription(failing),
                 req[x].pattern \in subscriptions[req[x].sub]
          PROVE  \/ req[x].pattern \in subscriptions'[req[x].sub]
                 \/ \E u \in Calls : pc[u] # "idle" /\ Removes(u, x) /\ u \notin before[x]
      <3>1. PICK u \in Calls :
               /\ resp[u] = "none" /\ pc[u] \in {"wait", "done"}
               /\ req[u] \in SubscriptionRequests /\ Kind(u) = req[u].kind
               /\ subscriptions' = [subscriptions EXCEPT ![req[u].sub] = Left(req[u])]
        BY <2>5, Received
      <3>2. ~IsEvent(u)
        BY <3>1 DEF SubscriptionRequests, IsEvent
      <3>3. u \notin before[x]
        BY <3>1, <3>2, Unanswered
      <3>4. CASE Removes(u, x)
        BY <3>1, <3>3, <3>4
      <3>5. CASE ~Removes(u, x)
        <4>1. req[u].kind \in {"subscribe", "unsubscribe", "unsubscribeAll"}
          BY <3>1 DEF SubscriptionRequests
        <4>2. CASE req[u].sub # req[x].sub
          BY <1>0, <2>5, <3>1, <4>2
        <4>3. CASE req[u].sub = req[x].sub
          <5>1. \/ req[u].kind = "subscribe"
                \/ req[u].kind = "unsubscribe" /\ req[u].pattern # req[x].pattern
            BY <3>1, <3>5, <4>1, <4>3 DEF Removes
          <5>2. req[x].pattern \in Left(req[u])
            BY <2>5, <4>3, <5>1 DEF Left
          <5>3. req[u].sub \in Subscribers
            BY <3>1 DEF SubscriptionRequests
          <5>4. QED
            BY <1>0, <3>1, <4>3, <5>2, <5>3
        <4>4. QED
          BY <4>2, <4>3
      <3>6. QED
        BY <3>4, <3>5
    <2>6. QED
      BY <2>2, <2>3, <2>4, <2>5, SubscriptionsMove
  <1>3. QED
    BY <1>1, <1>2

(* A publication the loop is done with.                                    *)
Processed(c) ==
    /\ IsPublication(c) /\ Accepted(c)
    /\ ~Occurs(ch, Original(c))
    /\ ~(AtLoop(Original(c)) /\ loop = "deliver")

(* The loop is done with a publication when it has called every subscriber *)
(* of todo, and in no other way.                                           *)
LEMMA BecomesProcessed ==
  ASSUME BusInv, [Next]_vars, NEW c \in Calls, Processed(c)'
  PROVE  Processed(c) \/ (AtLoop(Original(c)) /\ loop = "deliver" /\ todo = {})
  <1>1. ASSUME NEW d \in Calls, NEW r \in MayAsk[d], Invoke(d, r)
        PROVE  Processed(c)
    <2>1. UNCHANGED <<ch, loop, msg>>
      BY <1>1 DEF Invoke, loopVars
    <2>2. CASE c = d
      <3>1. pc'[c] = "offer" \/ Note(c, {"refused"})
        BY <1>1, <2>2 DEF Invoke, Refuse, BusInv, TypeOK
      <3>2. ~Accepted(c)'
        BY <3>1, GroundsGrow DEF Accepted
      <3>3. QED
        BY <3>2 DEF Processed
    <2>3. CASE c # d
      <3>1. pc'[c] = pc[c] /\ req'[c] = req[c] /\ grounds'[c] = grounds[c]
        BY <1>1, <2>3 DEF Invoke, Refuse, Note, BusInv, TypeOK
      <3>2. QED
        BY <2>1, <3>1 DEF Processed, Accepted, IsPublication, Kind, AtLoop
    <2>4. QED
      BY <2>2, <2>3
  <1>2. ASSUME NEW d \in Calls, Offer(d)
        PROVE  Processed(c)
    <2>1. /\ UNCHANGED <<loop, msg, req>> /\ Original(d) \in Messages
          /\ Enqueue(Original(d)) \/ (UNCHANGED ch /\ Note(d, {"refused"}))
      BY <1>2, OriginalOrCopy DEF Offer, loopVars, TurnAway, Refuse, Original
    <2>2. CASE c = d
      <3>1. Occurs(ch', Original(c)) \/ ~Accepted(c)'
        BY <2>1, <2>2, SendOnce, GroundsGrow DEF Accepted, BusInv
      <3>2. Original(c)' = Original(c)
        BY DEF Original
      <3>3. QED
        BY <3>1, <3>2 DEF Processed
    <2>3. CASE c # d
      <3>1. pc'[c] = pc[c] /\ grounds'[c] = grounds[c]
        BY <1>2, <2>3 DEF Offer, Refuse, Note, BusInv, TypeOK
      <3>2. Occurs(ch, Original(c)) => Occurs(ch', Original(c))
        BY <2>1, SendOnce DEF BusInv
      <3>3. QED
        BY <2>1, <3>1, <3>2 DEF Processed, Accepted, IsPublication, Kind, AtLoop, Original
    <2>4. QED
      BY <2>2, <2>3
  <1>3. ASSUME NEW d \in Calls, Return(d)
        PROVE  Processed(c)
    <2>1. UNCHANGED <<ch, loop, msg, req, grounds>> /\ pc[d] = "wait"
      BY <1>3 DEF Return, loopVars, deliveries
    <2>2. pc'[c] = pc[c] \/ pc[c] = "wait"
      BY <1>3 DEF Return, BusInv, TypeOK
    <2>3. QED
      BY <2>1, <2>2 DEF Processed, Accepted, IsPublication, Kind, AtLoop
  <1>4. ASSUME ReceivePublication \/ \E failing \in BOOLEAN : ReceiveSubscription(failing)
        PROVE  Processed(c)
    <2>1. /\ ch # <<>> /\ ch' = Tail(ch) /\ UNCHANGED <<pc, req, grounds>> /\ loop = "select"
          /\ \/ msg' = Head(ch) /\ loop' = "deliver"
             \/ ~IsPublication(Head(ch).call)
      BY <1>4 DEF ReceivePublication, ReceiveSubscription, clients, deliveries
    <2>2. \A n : Occurs(ch, n) => Occurs(ch', n) \/ n = Head(ch)
      BY <2>1, ReceiveOnce DEF BusInv
    <2>3. Head(ch) # Original(c)
      BY <2>1, OriginalOrCopy DEF Processed, IsPublication, Kind, AtLoop, Original
    <2>4. QED
      BY <2>1, <2>2, <2>3 DEF Processed, Accepted, IsPublication, Kind, AtLoop, Original
  <1>5. ASSUME Republish
        PROVE  Processed(c)
    <2>1. /\ loop = "republish" /\ UNCHANGED <<pc, req>> /\ Copy(msg.call) \in Messages
          /\ Enqueue(Copy(msg.call)) \/ UNCHANGED ch
      BY <1>5, AtWork DEF Republish, clients, Copy, TurnAway, Busy, Messages
    <2>2. Occurs(ch, Original(c)) => Occurs(ch', Original(c))
      BY <2>1, SendOnce DEF BusInv
    <2>3. pc[c] \in {"wait", "done"}
      BY <2>1 DEF Processed, Accepted
    <2>4. Accepted(c)
      BY <2>3, CallStable DEF Processed, Stable
    <2>5. QED
      BY <2>1, <2>2, <2>4 DEF Processed, IsPublication, Kind, Original
  <1>6. ASSUME Delivered \/ NoteUndelivered
        PROVE  Processed(c) \/ (AtLoop(Original(c)) /\ loop = "deliver" /\ todo = {})
    <2>1. loop = "deliver" /\ todo = {} /\ UNCHANGED <<ch, pc, req, msg>>
      BY <1>6 DEF Delivered, NoteUndelivered, clients
    <2>2. pc[c] \in {"wait", "done"}
      BY <2>1 DEF Processed, Accepted
    <2>3. Accepted(c)
      BY <2>2, CallStable DEF Processed, Stable
    <2>4. QED
      BY <2>1, <2>3 DEF Processed, IsPublication, Kind, Original
  <1>7. ASSUME UNCHANGED <<ch, pc, req>>, UNCHANGED <<loop, msg>> \/ loop # "deliver"
        PROVE  Processed(c)
    <2>1. Accepted(c)
      BY <1>7, CallStable DEF Processed, Stable, Accepted
    <2>2. QED
      BY <1>7, <2>1 DEF Processed, IsPublication, Kind, Original, AtLoop
  <1>8. ASSUME \/ StartStep \/ StopSwap \/ StopStep \/ UNCHANGED vars
               \/ \E d \in Calls : OfferClosed(d)
               \/ \E s \in Subscribers, failing \in BOOLEAN, word \in Words :
                     Deliver(s, failing, word)
               \/ ReceiveClosed \/ Finish \/ Exit
               \/ \E s \in Subscribers, d \in Calls : WorkStep(s, d)
        PROVE  UNCHANGED <<ch, pc, req>> /\ (UNCHANGED <<loop, msg>> \/ loop # "deliver")
    BY <1>8 DEF StartStep, StartSwap, StartLoop, OfferClosed, Crash, Deliver, ReceiveClosed,
       Finish, Exit, WorkStep, Complete, StopSwap, StopStep, StopCancel, StopWait, StopClose,
       vars, clients, loopVars
  <1>9. QED
    BY <1>1, <1>2, <1>3, <1>4, <1>5, <1>6, <1>7, <1>8 DEF Next, CallStep, LoopStep

(* What SubscribedHears asks of one publication and one subscription.      *)
Heard(c, x) ==
    ( /\ Processed(c)
      /\ x \in before[c]
      /\ Kind(x) = "subscribe" /\ Accepted(x)
      /\ Subscribes(x, req[x].sub, req[c].topic)
      /\ \A u \in Calls : pc[u] # "idle" /\ Removes(u, x) => u \in before[x] )
    => req[x].sub \in reached[c]

LEMMA HeardByAll == SubscribedHears <=> \A c, x \in Calls : Heard(c, x)
  BY DEF SubscribedHears, Heard, Processed, Queued, Occurs

LEMMA NextHeard ==
  ASSUME BusInv, HistoryInv, HearInv, [Next]_vars, NEW c \in Calls, NEW x \in Calls
  PROVE  Heard(c, x)'
  <1> SUFFICES ASSUME Processed(c)', x \in before'[c],
                      Kind(x)' = "subscribe", Accepted(x)',
                      Subscribes(x, req[x].sub, req[c].topic)',
                      \A u \in Calls : pc'[u] # "idle" /\ Removes(u, x)' => u \in before'[x]
               PROVE  req'[x].sub \in reached'[c]
    BY DEF Heard
  <1>1. \A u \in Calls : Forward(u) /\ Stable(u)
    BY CallForward, CallStable
  <1>2. Processed(c) \/ (AtLoop(Original(c)) /\ loop = "deliver" /\ todo = {})
    BY BecomesProcessed
  <1>3. pc[c] \in {"wait", "done"}
    <2>1. CASE Processed(c)
      BY <2>1 DEF Processed, Accepted
    <2>2. CASE AtLoop(Original(c))
      <3>1. Busy /\ msg.call = c
        BY <2>2, OriginalOrCopy DEF AtLoop, Busy
      <3>2. QED
        BY <3>1, AtWork
    <2>3. QED
      BY <1>2, <2>1, <2>2
  <1>4. req'[c] = req[c] /\ before'[c] = before[c]
    BY <1>1, <1>3 DEF Forward
  <1>5. pc[x] = "done"
    BY <1>4 DEF HistoryInv, PastOf
  <1>6. req'[x] = req[x] /\ before'[x] = before[x] /\ Accepted(x) /\ Kind(x) = "subscribe"
    BY <1>1, <1>5 DEF Forward, Stable, Kind
  <1>7. \A u \in Calls : pc[u] # "idle" /\ Removes(u, x) => u \in before[x]
    BY <1>1, <1>5, <1>6, RemovesFixed DEF Forward
  <1>8. Subscribes(x, req[x].sub, req[c].topic)
    BY <1>4, <1>6 DEF Subscribes
  <1>9. CASE Processed(c)
    <2>1. Heard(c, x)
      BY HeardByAll DEF HearInv
    <2>2. req[x].sub \in reached[c]
      BY <1>4, <1>6, <1>7, <1>8, <1>9, <2>1 DEF Heard
    <2>3. QED
      BY <1>1, <1>6, <2>2 DEF Stable
  <1>10. CASE AtLoop(Original(c)) /\ loop = "deliver" /\ todo = {}
    <2>1. resp[x] # "none"
      BY <1>5, <1>6 DEF HistoryInv, Concluded, IsEvent
    <2>2. req[x].pattern \in subscriptions[req[x].sub]
      BY <1>6, <1>7, <2>1 DEF HearInv, InForce
    <2>3. req[x].sub \in Subscribers
      <3>1. req[x] \in Asked /\ ~IsPublication(x)
        BY <1>5, <1>6 DEF BusInv, Requested, IsPublication
      <3>2. req[x] \in SubscriptionRequests
        BY <3>1, SubscriptionType DEF BusInv
      <3>3. QED
        BY <3>2 DEF SubscriptionRequests
    <2>4. msg = Original(c) /\ msg.call = c /\ TopicOf(msg) = req[c].topic
      BY <1>10, OriginalOrCopy DEF AtLoop, TopicOf
    <2>5. req[x].sub \in Matching(msg)
      BY <1>8, <2>2, <2>3, <2>4 DEF Matching, Wants, Subscribes
    <2>6. req[x].sub \in reached[c]
      BY <1>10, <2>4, <2>5 DEF HistoryInv, TodoInv
    <2>7. QED
      BY <1>1, <1>6, <2>6 DEF Stable
  <1>11. QED
    BY <1>2, <1>9, <1>10

LEMMA HearInvAlways == Spec => []HearInv
  <1>1. Init => HearInv
    BY DEF Init, HearInv, InForce, SubscribedHears, Kind
  <1>2. BusInv /\ AnswerInv /\ HistoryInv /\ HearInv /\ [Next]_vars => HearInv'
    <2> SUFFICES ASSUME BusInv, AnswerInv, HistoryInv, HearInv, [Next]_vars
                 PROVE  HearInv'
      OBVIOUS
    <2>1. \A x \in Calls : InForce(x)'
      BY NextInForce DEF HearInv
    <2>2. \A c, x \in Calls : Heard(c, x)'
      BY NextHeard
    <2>3. SubscribedHears'
      BY <2>2 DEF SubscribedHears, Heard, Processed, Queued, Occurs
    <2>4. QED
      BY <2>1, <2>3 DEF HearInv
  <1>3. QED
    BY <1>1, <1>2, BusInvAlways, AnswerInvAlways, HistoryInvAlways, PTL DEF Spec

(* A message published after Subscribe returned reaches the subscriber,    *)
(* unless some unsubscription may have come in between: what Subscribe     *)
(* promises when it returns holds for every order of the channel.          *)
THEOREM SubscribersHear == Spec => []SubscribedHears
  <1>1. HearInv => SubscribedHears
    BY DEF HearInv
  <1>2. QED
    BY <1>1, HearInvAlways, PTL

-----------------------------------------------------------------------------
(* Whom an unsubscription silences.                                        *)

(* What is behind a pattern stays behind it until another call takes the   *)
(* pattern from the map.                                                   *)
LEMMA StaysBehind ==
  ASSUME BusInv, AnswerInv, [Next]_vars, NEW s \in Subscribers, NEW p, NEW x \in Calls,
         Behind(x, s, p), p \in subscriptions[s], p \in subscriptions'[s]
  PROVE  Behind(x, s, p)'
  <1>1. \A u \in Calls : Forward(u) /\ Stable(u)
    BY CallForward, CallStable
  <1>2. pc[x] \in {"wait", "done"}
    BY DEF Behind, Accepted
  <1>3. /\ Kind(x)' = "subscribe" /\ Accepted(x)' /\ resp'[x] # "none"
        /\ req'[x].sub = s /\ req'[x].pattern = p /\ req'[x] = req[x]
    BY <1>1, <1>2 DEF Behind, Forward, Stable, Kind
  <1>4. ASSUME NEW u \in Calls, Removes(u, x)', Accepted(u)', resp'[u] # "none"
        PROVE  x \notin before'[u]
    <2>1. CASE resp[u] # "none"
      <3>1. pc[u] \in {"wait", "done"}
        BY <2>1 DEF AnswerInv, AnswerOf, BusInv, TypeOK
      <3>2. Removes(u, x) /\ Accepted(u) /\ before'[u] = before[u]
        BY <1>1, <1>2, <1>4, <3>1, RemovesFixed DEF Forward, Stable
      <3>3. QED
        BY <2>1, <3>2 DEF Behind
    <2>2. CASE resp[u] = "none"
      <3>1. ~IsPublication(u)'
        BY <1>4 DEF Removes, IsPublication
      <3>2. PICK failing \in BOOLEAN : ReceiveSubscription(failing) /\ Head(ch) = Original(u)
        BY <1>4, <2>2, <3>1, Answered
      <3>3. PICK v \in Calls :
               /\ Head(ch) = Original(v) /\ req[v] \in SubscriptionRequests
               /\ Kind(v) = req[v].kind /\ UNCHANGED req
               /\ subscriptions' = [subscriptions EXCEPT ![req[v].sub] = Left(req[v])]
        BY <3>2, Received
      <3>4. v = u
        BY <3>2, <3>3, OriginalOrCopy
      <3>5. /\ req[u].kind \in {"unsubscribe", "unsubscribeAll"}
            /\ req[u].sub = s
            /\ req[u].kind = "unsubscribe" => req[u].pattern = p
        BY <1>3, <1>4, <3>3, <3>4 DEF Removes, Kind
      <3>6. p \notin Left(req[u])
        BY <3>5 DEF Left
      <3>7. subscriptions'[s] = Left(req[u])
        BY <3>3, <3>4, <3>5 DEF BusInv, TypeOK
      <3>8. QED
        BY <3>6, <3>7
    <2>3. QED
      BY <2>1, <2>2
  <1>5. QED
    BY <1>3, <1>4 DEF Behind

(* A pattern comes into the map by a subscription, which nothing that was  *)
(* answered before can have come after.                                    *)
LEMMA ComesBehind ==
  ASSUME BusInv, AnswerInv, RefusalInv, HistoryInv, [Next]_vars, NEW s \in Subscribers, NEW p,
         p \notin subscriptions[s], p \in subscriptions'[s]
  PROVE  \E x \in Calls : Behind(x, s, p)'
  <1>1. PICK failing \in BOOLEAN : ReceiveSubscription(failing)
    BY SubscriptionsMove
  <1>2. PICK x \in Calls :
           /\ Head(ch) = Original(x) /\ Occurs(ch, Original(x)) /\ resp[x] = "none"
           /\ pc[x] \in {"wait", "done"} /\ req[x] \in SubscriptionRequests
           /\ Kind(x) = req[x].kind /\ UNCHANGED <<pc, req, before, grounds>>
           /\ subscriptions' = [subscriptions EXCEPT ![req[x].sub] = Left(req[x])]
           /\ resp'[x] # "none"
    BY <1>1, Received
  <1>3. req[x].sub = s /\ p \in Left(req[x])
    BY <1>2 DEF BusInv, TypeOK
  <1>4. req[x].kind = "subscribe" /\ req[x].pattern = p
    BY <1>2, <1>3 DEF Left, SubscriptionRequests
  <1>5. "refused" \notin grounds[x]
    BY <1>2, OriginalOrCopy DEF RefusalInv, RefusalOf, Absent
  <1>6. \A u \in Calls : x \notin before'[u]
    BY <1>2, <1>4, Unanswered DEF IsEvent
  <1>7. Kind(x)' = "subscribe" /\ Accepted(x)'
    BY <1>2, <1>4, <1>5 DEF Accepted, Kind
  <1>8. Behind(x, s, p)'
    BY <1>2, <1>3, <1>4, <1>6, <1>7 DEF Behind
  <1>9. QED
    BY <1>8

LEMMA NextRooted ==
  BusInv /\ AnswerInv /\ RefusalInv /\ HistoryInv /\ Rooted /\ [Next]_vars => Rooted'
  <1> SUFFICES ASSUME BusInv, AnswerInv, RefusalInv, HistoryInv, Rooted, [Next]_vars,
                      NEW s \in Subscribers, NEW p \in subscriptions'[s]
               PROVE  \E x \in Calls : Behind(x, s, p)'
    BY DEF Rooted
  <1>1. CASE p \in subscriptions[s]
    <2>1. PICK x \in Calls : Behind(x, s, p)
      BY <1>1 DEF Rooted
    <2>2. QED
      BY <1>1, <2>1, StaysBehind
  <1>2. CASE p \notin subscriptions[s]
    BY <1>2, ComesBehind
  <1>3. QED
    BY <1>1, <1>2

(* What UnsubscribedSilent asks of one subscriber a message reached.       *)
Wanted(c, s, x) ==
    /\ Accepted(x)
    /\ Subscribes(x, s, req[c].topic) \/ Subscribes(x, s, UndeliverableTopic)
    /\ ~ \E u \in before[c] : Removes(u, x) /\ Accepted(u) /\ x \in before[u]

LEMMA NextSilent ==
  ASSUME BusInv, RefusalInv, HistoryInv, SilentInv, [Next]_vars,
         NEW c \in Calls, NEW s \in reached'[c]
  PROVE  \E x \in Calls : Wanted(c, s, x)'
  <1>1. \A u \in Calls : Forward(u) /\ Stable(u)
    BY CallForward, CallStable
  <1>2. before[c] \subseteq Calls
    BY DEF BusInv, TypeOK
  <1>3. CASE s \in reached[c]
    <2>1. PICK x \in Calls : Wanted(c, s, x)
      BY <1>3 DEF SilentInv, UnsubscribedSilent, Wanted
    <2>2. pc[c] \in {"wait", "done"} /\ pc[x] \in {"wait", "done"}
      BY <1>3, <2>1 DEF RefusalInv, RefusalOf, Wanted, Accepted, BusInv, TypeOK
    <2>3. /\ req'[c] = req[c] /\ before'[c] = before[c] /\ req'[x] = req[x] /\ Accepted(x)'
      BY <1>1, <2>1, <2>2 DEF Forward, Stable, Wanted
    <2>4. ASSUME NEW u \in before[c], Removes(u, x)', Accepted(u)', x \in before'[u]
          PROVE  FALSE
      <3>1. u \in Calls /\ pc[u] = "done"
        BY <1>2 DEF HistoryInv, PastOf
      <3>2. Removes(u, x) /\ Accepted(u) /\ before'[u] = before[u]
        BY <1>1, <2>2, <2>4, <3>1, RemovesFixed DEF Forward, Stable
      <3>3. QED
        BY <2>1, <2>4, <3>2 DEF Wanted
    <2>5. QED
      BY <2>1, <2>3, <2>4 DEF Wanted, Subscribes, Kind
  <1>4. CASE s \notin reached[c]
    <2>1. PICK t \in Subscribers, failing \in BOOLEAN, word \in Words : Deliver(t, failing, word)
      BY <1>4
      DEF Next, StartStep, StartSwap, StartLoop, CallStep, Offer, OfferClosed, Crash, Return,
          Invoke, LoopStep, ReceivePublication, ReceiveSubscription, ReceiveClosed, Delivered,
          NoteUndelivered, Republish, Finish, Exit, WorkStep, Complete, StopSwap, StopStep,
          StopCancel, StopWait, StopClose, vars, deliveries
    <2>2. /\ loop = "deliver" /\ t \in todo /\ UNCHANGED <<pc, req, before>>
          /\ reached' = [reached EXCEPT ![msg.call] = @ \union {t}]
      BY <2>1 DEF Deliver, clients
    <2>3. c = msg.call /\ s = t
      BY <1>4, <2>2 DEF BusInv, TypeOK
    <2>4. s \in Matching(msg)
      BY <2>2, <2>3 DEF HistoryInv, TodoInv
    <2>5. PICK p \in subscriptions[s] : <<p, TopicOf(msg)>> \in Matches
      BY <2>4 DEF Matching, Wants
    <2>6. TopicOf(msg) \in {req[c].topic, UndeliverableTopic}
      BY <2>3 DEF TopicOf
    <2>7. PICK x \in Calls : Behind(x, s, p)
      BY <2>2, <2>3, <2>4 DEF SilentInv, Rooted, Matching
    <2>8. Accepted(x)' /\ req'[c] = req[c] /\ req'[x] = req[x] /\ Kind(x)' = Kind(x)
      BY <1>1, <2>2, <2>7 DEF Behind, Accepted, Stable, Kind
    <2>9. Subscribes(x, s, TopicOf(msg))
      BY <2>5, <2>7 DEF Behind, Subscribes
    <2>10. Subscribes(x, s, req[c].topic)' \/ Subscribes(x, s, UndeliverableTopic)'
      BY <2>6, <2>8, <2>9 DEF Subscribes
    <2>11. ASSUME NEW u \in before[c], Removes(u, x)', Accepted(u)', x \in before'[u]
           PROVE  FALSE
      <3>1. u \in Calls /\ pc[u] = "done"
        BY <1>2 DEF HistoryInv, PastOf
      <3>2. Removes(u, x) /\ Accepted(u) /\ x \in before[u]
        BY <1>1, <2>2, <2>11, <3>1 DEF Stable, Removes, Kind
      <3>3. resp[u] # "none"
        BY <3>1, <3>2 DEF HistoryInv, Concluded, IsEvent, Removes
      <3>4. QED
        BY <2>7, <3>1, <3>2, <3>3 DEF Behind
    <2>12. QED
      BY <2>2, <2>8, <2>10, <2>11 DEF Wanted
  <1>5. QED
    BY <1>3, <1>4

LEMMA SilentInvAlways == Spec => []SilentInv
  <1>1. Init => SilentInv
    BY DEF Init, SilentInv, Rooted, UnsubscribedSilent
  <1>2. BusInv /\ AnswerInv /\ RefusalInv /\ HistoryInv /\ SilentInv /\ [Next]_vars => SilentInv'
    <2> SUFFICES ASSUME BusInv, AnswerInv, RefusalInv, HistoryInv, SilentInv, [Next]_vars
                 PROVE  SilentInv'
      OBVIOUS
    <2>1. Rooted'
      BY NextRooted DEF SilentInv
    <2>2. \A c \in Calls : \A s \in reached'[c] : \E x \in Calls : Wanted(c, s, x)'
      BY NextSilent
    <2>3. UnsubscribedSilent'
      BY <2>2 DEF UnsubscribedSilent, Wanted
    <2>4. QED
      BY <2>1, <2>3 DEF SilentInv
  <1>3. QED
    BY <1>1, <1>2, BusInvAlways, AnswerInvAlways, RefusalInvAlways, HistoryInvAlways, PTL
    DEF Spec

(* A subscriber reached by a message had asked for it, and an              *)
(* unsubscription that returned before the message was published is in     *)
(* force, whatever else is under way.                                      *)
THEOREM UnsubscribedStaySilent == Spec => []UnsubscribedSilent
  <1>1. SilentInv => UnsubscribedSilent
    BY DEF SilentInv
  <1>2. QED
    BY <1>1, SilentInvAlways, PTL

-----------------------------------------------------------------------------
(* What is undelivered is noted twice at most.                             *)

LEMMA CopyMessage ==
  /\ \A c \in Calls : /\ Copy(c) \in Messages /\ Copy(c).call = c /\ Copy(c).undeliverable
                      /\ Copy(c) # Original(c)
                      /\ \A d \in Calls : Copy(d) # Original(c) /\ (Copy(d) = Copy(c) => c = d)
  /\ \A m \in Messages : m.call \in Calls /\ (m = Original(m.call) \/ m = Copy(m.call))
  <1>1. \A c \in Calls : Copy(c) \in Messages /\ Copy(c).call = c /\ Copy(c).undeliverable
    BY DEF Messages, Copy
  <1>2. ASSUME NEW c \in Calls, NEW d \in Calls
        PROVE  Copy(d) # Original(c) /\ (Copy(d) = Copy(c) => c = d)
    BY <1>1, OriginalOrCopy
  <1>3. ASSUME NEW m \in Messages
        PROVE  m.call \in Calls /\ (m = Original(m.call) \/ m = Copy(m.call))
    <2>1. m.call \in Calls /\ m.undeliverable \in BOOLEAN
      BY DEF Messages
    <2>2. CASE m.undeliverable
      BY <2>2 DEF Messages, Copy
    <2>3. CASE ~m.undeliverable
      BY <2>1, <2>3, OriginalOrCopy
    <2>4. QED
      BY <2>1, <2>2, <2>3
  <1>4. QED
    BY <1>1, <1>2, <1>3

(* Messages come into the channel by an offer or a republication, and to   *)
(* the loop from the channel; a copy is not republished again.             *)
Moved(n) ==
    /\ Occurs(ch', n) => \/ Occurs(ch, n)
                         \/ pc[n.call] = "offer" /\ n = Original(n.call)
                         \/ n = Copy(msg.call) /\ loop = "republish" /\ loop' = "finish"
    /\ n.undeliverable /\ Once(ch, n) /\ ~(loop = "republish" /\ n = Copy(msg.call) /\ Occurs(ch, n))
          => Once(ch', n)
    /\ AtLoop(n)' => \/ /\ AtLoop(n)
                        /\ \/ loop' \in {loop, "finish"}
                           \/ loop = "deliver" /\ loop' = "republish" /\ ~n.undeliverable
                     \/ Occurs(ch, n) /\ loop' = "deliver" /\ (Once(ch, n) => ~Occurs(ch', n))

LEMMA MovedNot ==
  ASSUME NEW n, UNCHANGED ch, UNCHANGED <<loop, msg>> \/ ~Busy'
                              \/ (Busy /\ loop' = "finish" /\ UNCHANGED msg)
  PROVE  Moved(n)
  BY DEF Moved, AtLoop, Busy

LEMMA MessageMoves ==
  ASSUME BusInv, [Next]_vars, NEW n \in Messages
  PROVE  Moved(n)
  <1>1. ASSUME NEW d \in Calls, Offer(d)
        PROVE  Moved(n)
    <2>1. /\ UNCHANGED <<loop, msg>> /\ pc[d] = "offer" /\ Original(d) \in Messages
          /\ Enqueue(Original(d)) \/ UNCHANGED ch
          /\ Original(d).call = d /\ ~Original(d).undeliverable
      BY <1>1, OriginalOrCopy DEF Offer, loopVars, TurnAway, Original
    <2>2. CASE UNCHANGED ch
      BY <2>1, <2>2, MovedNot
    <2>3. CASE Enqueue(Original(d))
      <3>1. /\ \A m : Occurs(ch', m) <=> Occurs(ch, m) \/ m = Original(d)
            /\ \A m : Once(ch, m) /\ ~(m = Original(d) /\ Occurs(ch, m)) => Once(ch', m)
        BY <2>1, <2>3, SendOnce DEF BusInv
      <3>2. AtLoop(n)' <=> AtLoop(n)
        BY <2>1 DEF AtLoop
      <3>3. QED
        BY <2>1, <3>1, <3>2 DEF Moved
    <2>4. QED
      BY <2>1, <2>2, <2>3
  <1>2. ASSUME ReceivePublication \/ \E failing \in BOOLEAN : ReceiveSubscription(failing)
        PROVE  Moved(n)
    <2>1. /\ ch # <<>> /\ ch' = Tail(ch) /\ loop = "select"
          /\ \/ msg' = Head(ch) /\ loop' = "deliver"
             \/ UNCHANGED <<msg, loop>>
      BY <1>2 DEF ReceivePublication, ReceiveSubscription, loopVars
    <2>2. /\ Occurs(ch, Head(ch)) /\ \A m : Occurs(ch', m) => Occurs(ch, m)
          /\ \A m : Once(ch, m) => Once(ch', m) /\ (m = Head(ch) => ~Occurs(ch', m))
      BY <2>1, ReceiveOnce DEF BusInv
    <2>3. AtLoop(n)' => n = Head(ch) /\ loop' = "deliver"
      BY <2>1 DEF AtLoop
    <2>4. QED
      BY <2>1, <2>2, <2>3 DEF Moved
  <1>3. ASSUME Republish
        PROVE  Moved(n)
    <2>1. /\ UNCHANGED msg /\ Busy /\ loop = "republish" /\ loop' = "finish"
          /\ Enqueue(Copy(msg.call)) \/ UNCHANGED ch
      BY <1>3 DEF Republish, TurnAway, Copy, Busy
    <2>2. Copy(msg.call) \in Messages
      BY <2>1, AtWork, CopyMessage
    <2>3. CASE UNCHANGED ch
      BY <2>1, <2>3, MovedNot
    <2>4. CASE Enqueue(Copy(msg.call))
      <3>1. /\ \A m : Occurs(ch', m) <=> Occurs(ch, m) \/ m = Copy(msg.call)
            /\ \A m : Once(ch, m) /\ ~(m = Copy(msg.call) /\ Occurs(ch, m)) => Once(ch', m)
        BY <2>2, <2>4, SendOnce DEF BusInv
      <3>2. AtLoop(n)' => AtLoop(n)
        BY <2>1 DEF AtLoop
      <3>3. QED
        BY <2>1, <3>1, <3>2 DEF Moved
    <2>5. QED
      BY <2>1, <2>3, <2>4
  <1>4. ASSUME NoteUndelivered
        PROVE  Moved(n)
    <2>1. /\ UNCHANGED <<ch, msg>> /\ loop = "deliver" /\ Busy
          /\ loop' = "finish" \/ (loop' = "republish" /\ Republishes(msg))
      BY <1>4 DEF NoteUndelivered, Busy
    <2>2. Republishes(msg) => ~msg.undeliverable
      BY BusAssumption DEF Republishes, TopicOf
    <2>3. QED
      BY <2>1, <2>2 DEF Moved, AtLoop
  <1>5. ASSUME \/ StartStep \/ StopSwap \/ StopStep \/ UNCHANGED vars
               \/ \E d \in Calls : \/ OfferClosed(d) \/ Return(d)
                                   \/ \E r \in MayAsk[d] : Invoke(d, r)
               \/ \E s \in Subscribers, failing \in BOOLEAN, word \in Words :
                     Deliver(s, failing, word)
               \/ ReceiveClosed \/ Delivered \/ Finish \/ Exit
               \/ \E s \in Subscribers, d \in Calls : WorkStep(s, d)
        PROVE  Moved(n)
    <2>1. UNCHANGED ch
      BY <1>5 DEF StartStep, StartSwap, StartLoop, OfferClosed, Crash, Return, Invoke, Deliver,
         ReceiveClosed, Delivered, Finish, Exit, WorkStep, Complete, StopSwap, StopStep,
         StopCancel, StopWait, StopClose, vars
    <2>2. \/ UNCHANGED <<loop, msg>> \/ ~Busy'
          \/ (Busy /\ loop' = "finish" /\ UNCHANGED msg)
      BY <1>5, ZenonT(40)
      DEF StartStep, StartSwap, StartLoop, OfferClosed, Crash, Return, Invoke, Deliver,
         ReceiveClosed, Delivered, Finish, Exit, WorkStep, Complete, StopSwap, StopStep,
         StopCancel, StopWait, StopClose, vars, loopVars, Busy
    <2>3. QED
      BY <2>1, <2>2, MovedNot
  <1>6. QED
    BY <1>1, <1>2, <1>3, <1>4, <1>5 DEF Next, CallStep, LoopStep

(* A call once ahead of the loop and no longer so does not come back.      *)
LEMMA NeverAgain ==
  ASSUME BusInv, [Next]_vars, NEW c \in Calls
  PROVE  /\ Ahead(c)' => Ahead(c)
         /\ Fresh(c)' => Fresh(c)
  <1>1. Forward(c) /\ Moved(Original(c))
    BY CallForward, MessageMoves, OriginalOrCopy
  <1>2. /\ Original(c).call = c /\ \A d \in Calls : Original(c) # Copy(d)
        /\ Original(c)' = Original(c) /\ Busy => msg.call \in Calls
    BY OriginalOrCopy, CopyMessage, AtWork DEF Original
  <1>3. pc'[c] \in {"idle", "offer"} => pc[c] \in {"idle", "offer"}
    BY <1>1 DEF Forward, BusInv, TypeOK
  <1>4. Occurs(ch', Original(c)) => Ahead(c)
    BY <1>1, <1>2 DEF Moved, Ahead, Coming, Busy
  <1>5. AtLoop(Original(c))' /\ loop' = "deliver" => Ahead(c)
    BY <1>1, <1>2 DEF Moved, Ahead, Coming
  <1>6. AtLoop(Original(c))' /\ loop' = "republish" => Fresh(c)
    BY <1>1, <1>2 DEF Moved, Ahead, Coming, Fresh
  <1>7. Ahead(c)' => Ahead(c)
    BY <1>2, <1>3, <1>4, <1>5 DEF Ahead, Coming
  <1>8. QED
    BY <1>2, <1>6, <1>7 DEF Fresh

(* Who sends a copy has the original at hand.                              *)
LEMMA Copier ==
  ASSUME BusInv, AnswerInv, CopyInv, NEW c \in Calls, loop = "republish", Copy(c) = Copy(msg.call)
  PROVE  AtLoop(Original(c)) /\ Fresh(c) /\ ~Ahead(c)
  <1>1. Busy /\ msg \in Messages /\ msg.call \in Calls /\ pc[msg.call] \in {"wait", "done"}
    BY AtWork DEF Busy
  <1>2. c = msg.call
    BY <1>1, CopyMessage
  <1>3. msg # Copy(c)
    BY <1>2 DEF CopyInv, CopyOf, AtLoop
  <1>4. AtLoop(Original(c))
    BY <1>1, <1>2, <1>3, CopyMessage DEF AtLoop
  <1>5. ~Occurs(ch, Original(c))
    BY <1>4 DEF AnswerInv, AnswerOf
  <1>6. QED
    BY <1>1, <1>2, <1>4, <1>5 DEF Fresh, Ahead, Coming

LEMMA NextCopyInv == BusInv /\ AnswerInv /\ CopyInv /\ [Next]_vars => CopyInv'
  <1> SUFFICES ASSUME BusInv, AnswerInv, CopyInv, [Next]_vars, NEW c \in Calls
               PROVE  CopyOf(c)'
    BY DEF CopyInv
  <1>1. CopyOf(c) /\ Moved(Copy(c)) /\ Moved(Original(c))
    BY CopyMessage, OriginalOrCopy, MessageMoves DEF CopyInv
  <1>2. /\ Copy(c)' = Copy(c) /\ Original(c)' = Original(c) /\ Copy(c).undeliverable
        /\ \A d \in Calls : Copy(c) # Original(d)
        /\ Copy(c).call = c /\ Original(c).call = c /\ \A d \in Calls : Copy(d) # Original(c)
    BY CopyMessage, OriginalOrCopy DEF Copy, Original
  <1>3. Once(ch', Copy(c))
    <2>1. ~(loop = "republish" /\ Copy(c) = Copy(msg.call) /\ Occurs(ch, Copy(c)))
      BY <1>1, Copier DEF CopyOf
    <2>2. QED
      BY <1>1, <1>2, <2>1 DEF Moved, CopyOf
  <1>4. ASSUME AtLoop(Copy(c))'
        PROVE  ~Occurs(ch', Copy(c)) /\ loop' # "republish"
    <2>1. CASE AtLoop(Copy(c))
      <3>1. ~Occurs(ch, Copy(c)) /\ loop # "republish"
        BY <1>1, <2>1 DEF CopyOf
      <3>2. ~Occurs(ch', Copy(c))
        BY <1>1, <1>2, <3>1 DEF Moved
      <3>3. loop' # "republish"
        BY <1>1, <1>2, <1>4, <3>1 DEF Moved
      <3>4. QED
        BY <3>2, <3>3
    <2>2. CASE ~AtLoop(Copy(c))
      BY <1>1, <1>2, <1>4, <2>2 DEF Moved, CopyOf
    <2>3. QED
      BY <2>1, <2>2
  <1>5. ASSUME Fresh(c)'
        PROVE  ~Occurs(ch', Copy(c)) /\ ~AtLoop(Copy(c))'
    <2>1. Fresh(c)
      BY <1>5, NeverAgain
    <2>2. ~Occurs(ch, Copy(c)) /\ ~AtLoop(Copy(c))
      BY <1>1, <2>1 DEF CopyOf
    <2>3. ~AtLoop(Copy(c))'
      BY <1>1, <2>2 DEF Moved
    <2>4. ASSUME Copy(c) = Copy(msg.call), loop = "republish", loop' = "finish"
          PROVE  FALSE
      <3>1. ~Ahead(c)
        BY <2>4, Copier
      <3>2. ~Ahead(c)'
        BY <3>1, NeverAgain
      <3>3. QED
        BY <1>5, <2>4, <3>2 DEF Fresh
    <2>5. ~Occurs(ch', Copy(c))
      BY <1>1, <1>2, <2>2, <2>4 DEF Moved
    <2>6. QED
      BY <2>3, <2>5
  <1>6. QED
    BY <1>2, <1>3, <1>4, <1>5 DEF CopyOf

LEMMA CopyInvAlways == Spec => []CopyInv
  <1>1. Init => CopyInv
    BY DEF Init, CopyInv, CopyOf, Once, Occurs, AtLoop
  <1>2. QED
    BY <1>1, NextCopyInv, BusInvAlways, AnswerInvAlways, PTL DEF Spec

(* The two sets only shrink.                                               *)
LEMMA SetsShrink ==
  ASSUME BusInv, AnswerInv, CopyInv, [Next]_vars
  PROVE  /\ AsItself' \subseteq AsItself
         /\ AsCopy' \subseteq AsCopy
  <1>1. AsItself' \subseteq AsItself
    BY NeverAgain DEF AsItself
  <1>2. ASSUME NEW c \in Calls, Coming(Copy(c))'
        PROVE  Fresh(c) \/ Coming(Copy(c))
    <2>1. Moved(Copy(c)) /\ Copy(c) # Original(Copy(c).call) /\ Copy(c)' = Copy(c)
      BY CopyMessage, MessageMoves DEF Copy
    <2>2. loop = "republish" /\ Copy(c) = Copy(msg.call) => Fresh(c)
      BY Copier
    <2>3. Occurs(ch', Copy(c)) => Fresh(c) \/ Coming(Copy(c))
      BY <2>1, <2>2 DEF Moved, Coming
    <2>4. AtLoop(Copy(c))' /\ loop' = "deliver" => Coming(Copy(c))
      BY <2>1 DEF Moved, Coming
    <2>5. QED
      BY <1>2, <2>1, <2>3, <2>4 DEF Coming
  <1>3. AsCopy' \subseteq AsCopy
    BY <1>2, NeverAgain DEF AsCopy
  <1>4. QED
    BY <1>1, <1>3

(* Noting a message takes its call out of one of them.                     *)
LEMMA NotingShrinks ==
  ASSUME BusInv, AnswerInv, CopyInv, [Next]_vars, NoteUndelivered
  PROVE  AsItself' # AsItself \/ AsCopy' # AsCopy
  <1>1. /\ Busy /\ loop = "deliver" /\ UNCHANGED <<ch, msg, pc>>
        /\ loop' = "finish" \/ (loop' = "republish" /\ Republishes(msg))
    BY DEF NoteUndelivered, Busy, clients
  <1>2. PICK c \in Calls : c = msg.call
    BY <1>1, AtWork
  <1>3. /\ pc[c] \in {"wait", "done"} /\ (msg = Original(c) \/ msg = Copy(c))
        /\ Copy(c) # Original(c) /\ Copy(c).undeliverable
        /\ Copy(c)' = Copy(c) /\ Original(c)' = Original(c)
    BY <1>1, <1>2, AtWork, CopyMessage DEF Copy, Original
  <1>4. CASE msg = Original(c)
    <2>1. AtLoop(Original(c)) /\ Ahead(c)
      BY <1>1, <1>4 DEF AtLoop, Ahead, Coming
    <2>2. ~Occurs(ch, Original(c))
      BY <2>1 DEF AnswerInv, AnswerOf
    <2>3. ~Ahead(c)'
      BY <1>1, <1>3, <2>2 DEF Ahead, Coming
    <2>4. c \in AsItself /\ c \notin AsItself'
      BY <2>1, <2>3 DEF AsItself
    <2>5. QED
      BY <2>4
  <1>5. CASE msg = Copy(c)
    <2>1. AtLoop(Copy(c)) /\ Coming(Copy(c))
      BY <1>1, <1>5 DEF AtLoop, Coming
    <2>2. ~Occurs(ch, Copy(c)) /\ ~Fresh(c)
      BY <2>1 DEF CopyInv, CopyOf
    <2>3. ~Coming(Copy(c))' /\ ~Fresh(c)'
      BY <1>1, <1>3, <2>2, NeverAgain DEF Coming
    <2>4. c \in AsCopy /\ c \notin AsCopy'
      BY <2>1, <2>3 DEF AsCopy
    <2>5. QED
      BY <2>4
  <1>6. QED
    BY <1>3, <1>4, <1>5

LEMMA NextCountInv ==
  ASSUME IsFiniteSet(Calls), BusInv, AnswerInv, CopyInv, CountInv, [Next]_vars
  PROVE  CountInv'
  <1>1. /\ IsFiniteSet(AsItself) /\ IsFiniteSet(AsCopy)
        /\ AsItself' \in SUBSET AsItself /\ AsCopy' \in SUBSET AsCopy
    <2>1. AsItself \in SUBSET Calls /\ AsCopy \in SUBSET Calls
      BY DEF AsItself, AsCopy
    <2>2. QED
      BY <2>1, SetsShrink, FS_Subset
  <1>2. /\ IsFiniteSet(AsItself') /\ Cardinality(AsItself') <= Cardinality(AsItself)
        /\ IsFiniteSet(AsCopy') /\ Cardinality(AsCopy') <= Cardinality(AsCopy)
        /\ Cardinality(AsItself) = Cardinality(AsItself') => AsItself = AsItself'
        /\ Cardinality(AsCopy) = Cardinality(AsCopy') => AsCopy = AsCopy'
    BY <1>1, FS_Subset
  <1>3. /\ Cardinality(AsItself) \in Nat /\ Cardinality(AsItself') \in Nat
        /\ Cardinality(AsCopy) \in Nat /\ Cardinality(AsCopy') \in Nat
        /\ Cardinality(Calls) \in Nat /\ undelivered \in Nat
    BY <1>1, <1>2, FS_CardinalityType DEF BusInv, TypeOK
  <1>4. CASE NoteUndelivered
    <2>1. undelivered' = undelivered + 1
      BY <1>4 DEF NoteUndelivered
    <2>2. \/ Cardinality(AsItself) # Cardinality(AsItself')
          \/ Cardinality(AsCopy) # Cardinality(AsCopy')
      BY <1>2, <1>4, NotingShrinks
    <2>3. QED
      BY <1>2, <1>3, <2>1, <2>2 DEF CountInv
  <1>5. CASE ~NoteUndelivered
    <2>1. UNCHANGED undelivered
      BY <1>5
      DEF Next, StartStep, StartSwap, StartLoop, CallStep, Offer, OfferClosed, Crash, Return,
          Invoke, LoopStep, ReceivePublication, ReceiveSubscription, ReceiveClosed, Deliver,
          Delivered, Republish, Finish, Exit, WorkStep, Complete, StopSwap, StopStep,
          StopCancel, StopWait, StopClose, vars, counters
    <2>2. QED
      BY <1>2, <1>3, <2>1 DEF CountInv
  <1>6. QED
    BY <1>4, <1>5

(* The bus does not feed itself: every call is noted as undelivered at     *)
(* most twice, whatever subscribes to "$undeliverable".                    *)
THEOREM NoFeedback == ASSUME IsFiniteSet(Calls) PROVE Spec => []UndeliverableEnds
  <1>1. Init => CountInv
    <2> SUFFICES ASSUME Init
                 PROVE  CountInv
      OBVIOUS
    <2>1. AsItself = Calls /\ AsCopy = Calls
      BY DEF Init, AsItself, AsCopy, Ahead, Fresh
    <2>2. undelivered = 0 /\ Cardinality(Calls) \in Nat
      BY FS_CardinalityType DEF Init
    <2>3. QED
      BY <2>1, <2>2 DEF CountInv
  <1>2. BusInv /\ AnswerInv /\ CopyInv /\ CountInv /\ [Next]_vars => CountInv'
    BY NextCountInv
  <1>3. BusInv /\ CountInv => UndeliverableEnds
    <2> SUFFICES ASSUME BusInv, CountInv
                 PROVE  UndeliverableEnds
      OBVIOUS
    <2>1. AsItself \in SUBSET Calls /\ AsCopy \in SUBSET Calls
      BY DEF AsItself, AsCopy
    <2>2. IsFiniteSet(AsItself) /\ IsFiniteSet(AsCopy)
      BY <2>1, FS_Subset
    <2>3. /\ Cardinality(AsItself) \in Nat /\ Cardinality(AsCopy) \in Nat
          /\ Cardinality(Calls) \in Nat /\ undelivered \in Nat
      BY <2>2, FS_CardinalityType DEF BusInv, TypeOK
    <2>4. QED
      BY <2>3 DEF CountInv, UndeliverableEnds
  <1>4. QED
    BY <1>1, <1>2, <1>3, BusInvAlways, AnswerInvAlways, CopyInvAlways, PTL DEF Spec
-----------------------------------------------------------------------------
(* Stop.                                                                   *)

(* A Stop takes hold when no call is between its look at b.started and its *)
(* select, and no Start between its swap and its goroutine.                *)
Undisturbed == loop # "starting" /\ \A c \in Calls : pc[c] # "offer"
StopsUndisturbed == [][stopper = "idle" /\ stopper' # "idle" => Undisturbed]_vars

(* Such a Stop shuts the bus for good: nobody is let in to the select any  *)
(* more, no loop is launched, and the channel is closed after the loop.    *)
ShutInv ==
    /\ ~crashed
    /\ started => loop # "off"
    /\ stopper # "idle" => ~started /\ loop # "off" /\ Undisturbed
    /\ stopper \in {"close", "done"} => loop = "exited"
    /\ closed => stopper = "done"

LEMMA ShutStep ==
  ASSUME TypeOK, ShutInv, Next, stopper = "idle" /\ stopper' # "idle" => Undisturbed
  PROVE  ShutInv'
  <1> USE DEF ShutInv, Undisturbed
  <1>1. CASE StartStep
    BY <1>1 DEF StartStep, StartSwap, StartLoop, switches
  <1>2. ASSUME NEW c \in Calls, CallStep(c)
        PROVE  ShutInv'
    <2>1. CASE Offer(c)
      <3>1. pc[c] = "offer" /\ pc' = [pc EXCEPT ![c] = AfterOffer(Kind(c))]
        BY <2>1 DEF Offer
      <3>2. stopper = "idle" /\ ~closed
        BY <3>1
      <3>3. QED
        BY <2>1, <3>2 DEF Offer, switches, loopVars
    <2>2. ~OfferClosed(c)
      BY DEF OfferClosed
    <2>3. CASE Return(c)
      BY <2>3 DEF Return, switches, loopVars
    <2>4. QED
      BY <1>2, <2>1, <2>2, <2>3 DEF CallStep
  <1>3. ASSUME NEW c \in Calls, NEW r \in MayAsk[c], Invoke(c, r)
        PROVE  ShutInv'
    <2>1. /\ started => pc' = [pc EXCEPT ![c] = "offer"]
          /\ ~started => pc' = [pc EXCEPT ![c] = AfterIgnored(r.kind)]
          /\ UNCHANGED <<started, closed, crashed, stopper, loop>>
      BY <1>3 DEF Invoke, switches, loopVars
    <2>2. AfterIgnored(r.kind) \in {"done", "wait"}
      BY DEF AfterIgnored, AfterOffer
    <2>3. CASE started
      BY <2>1, <2>3
    <2>4. CASE ~started
      <3>1. \A d \in Calls : pc[d] # "offer" => pc'[d] # "offer"
        BY <2>1, <2>2, <2>4 DEF TypeOK
      <3>2. QED
        BY <2>1, <2>4, <3>1
    <2>5. QED
      BY <2>3, <2>4
  <1>4. CASE LoopStep
    <2>1. ~ReceiveClosed
      BY DEF ReceiveClosed
    <2>2. /\ loop \notin {"off", "starting", "exited"} /\ loop' \notin {"off", "starting"}
          /\ UNCHANGED <<switches, stopper, pc>>
      BY <1>4, <2>1 DEF LoopStep, ReceivePublication, ReceiveSubscription, Deliver, Delivered,
         NoteUndelivered, Republish, Finish, Exit, loopVars, clients
    <2>3. QED
      BY <2>2 DEF switches
  <1>5. ASSUME NEW s \in Subscribers, NEW c \in Calls, WorkStep(s, c)
        PROVE  ShutInv'
    BY <1>5 DEF WorkStep, Complete, switches, loopVars, clients
  <1>6. CASE StopSwap
    BY <1>6 DEF StopSwap, loopVars, clients
  <1>7. CASE StopStep
    BY <1>7 DEF StopStep, StopCancel, StopWait, StopClose, switches, loopVars, clients
  <1>8. QED
    BY <1>1, <1>2, <1>3, <1>4, <1>5, <1>6, <1>7 DEF Next

(* A bus does not panic whose Stop is called while no other call is on its *)
(* way into the channel and no Start is under way; publications that are   *)
(* queued, at the loop or made later do no harm.  Every panic thus has a   *)
(* Stop that overtook a call between the two, as the run of NeverPanics    *)
(* shows, or a Start.                                                      *)
THEOREM UndisturbedStopIsSafe == Spec /\ StopsUndisturbed => []NeverPanics
  <1>1. Init => ShutInv
    BY DEF Init, ShutInv
  <1>2. TypeOK /\ ShutInv /\ [Next]_vars
          /\ [stopper = "idle" /\ stopper' # "idle" => Undisturbed]_vars => ShutInv'
    <2> SUFFICES ASSUME TypeOK, ShutInv, [Next]_vars,
                        [stopper = "idle" /\ stopper' # "idle" => Undisturbed]_vars
                 PROVE  ShutInv'
      OBVIOUS
    <2>1. CASE UNCHANGED vars
      BY <2>1 DEF ShutInv, Undisturbed, vars, switches, loopVars, clients
    <2>2. QED
      BY <2>1, ShutStep
  <1>3. ShutInv => NeverPanics
    BY DEF ShutInv, NeverPanics
  <1>4. QED
    BY <1>1, <1>2, <1>3, BusTyping, PTL DEF Spec, StopsUndisturbed

(* What Stop leaves unfinished it leaves in the channel: when the loop has *)
(* gone, a call that waits without an answer has its message there, and so *)
(* has an open automatic delivery that no deferring subscriber works on.   *)
THEOREM UnfinishedIsQueued ==
  Spec => [](loop = "exited" =>
                \A c \in Calls :
                    /\ pc[c] = "wait" /\ resp[c] = "none" => Queued(Original(c))
                    /\ Delivering(c) /\ outcome[c] = "open" /\ ~Entrusted(c) =>
                          \E u \in BOOLEAN : Queued([call |-> c, undeliverable |-> u]))
  <1>1. OneAnswer /\ AutoInCustody => (loop = "exited" =>
            \A c \in Calls :
                /\ pc[c] = "wait" /\ resp[c] = "none" => Queued(Original(c))
                /\ Delivering(c) /\ outcome[c] = "open" /\ ~Entrusted(c) =>
                      \E u \in BOOLEAN : Queued([call |-> c, undeliverable |-> u]))
    BY DEF OneAnswer, AutoInCustody, InCustody, LeftByStop, AtLoop, Entrusted
  <1>2. QED
    BY <1>1, Answers, NoneDropped, PTL
=============================================================================
