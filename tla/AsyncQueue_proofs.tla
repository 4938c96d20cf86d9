-------------------------- MODULE AsyncQueue_proofs --------------------------
(***************************************************************************)
(* Proofs about AsyncQueue, for any calls, keys, partitions and queue size *)
(* and any way to build the subscriber.  The invariants are proved in      *)
(* layers, each one relative to those before it: types and what a worker   *)
(* holds (AsyncInv), then the one place of every accepted call (Placed),   *)
(* then how deliveries are settled, then the shutdown (Shutdown), then the *)
(* order of the queues (InOrder) and with it the refinement of Lanes.      *)
(***************************************************************************)
EXTENDS AsyncQueue, SharedLemmas, TLAPS

(* A worker has a message exactly while it processes one, the workers are  *)
(* launched in turn, and a call past its first step has made a request.    *)
WorkersHold ==
    \A p \in Parts :
        /\ worker[p] \in {"work", "drainwork"} /\ ~crashed => at[p] \in Calls \union {Tick}
        /\ worker[p] \notin {"work", "drainwork"} => at[p] = None

Launched == \A p \in Parts : worker[p] = "off" <=> p >= launched

Requested == \A c \in Calls : pc[c] # "idle" => req[c] \in Requests

AsyncInv == TypeOK /\ WorkersHold /\ Launched /\ Requested

(* Every accepted call is in one place: in the queue of the partition it   *)
(* picked, once; in the hand of that partition's worker; or run.           *)
Answered == \A c \in Calls : pc[c] # "returned" <=> answer[c] = "none"

QueuedPlace ==
    \A p \in Parts, c \in Calls :
        /\ Once(queues[p], c)
        /\ Occurs(queues[p], c) =>
            Accepted(c) /\ part[c] = p /\ ended[c] = "no" /\ c \notin pending

HeldPlace ==
    \A p \in Parts, c \in Calls :
        at[p] = c =>
            /\ Accepted(c) /\ part[c] = p /\ ended[c] = "no" /\ c \notin pending
            /\ ~Occurs(queues[p], c)

NoOtherPlace ==
    \A c \in Calls :
        /\ Accepted(c) /\ ended[c] = "no" => Occurs(queues[part[c]], c) \/ at[part[c]] = c
        /\ ended[c] # "no" => Accepted(c)

PendingPlace ==
    \A c \in pending :
        Accepted(c) /\ ended[c] = "ok" /\ req[c].kind = "event" /\ built.wrapped = "deferred"

Placed == Answered /\ QueuedPlace /\ HeldPlace /\ NoOtherPlace /\ PendingPlace

(* How one delivery stands: the verdict has its ground, and an automatic   *)
(* delivery still open has been accepted and is not yet done.              *)
Stands(c) ==
    /\ outcome[c] = "ack" => ended[c] = "ok" /\ c \notin pending
    /\ outcome[c] = "nack" => answer[c] \in {"full", "closed"} \/ ended[c] \in {"error", "panic"}
    /\ built.wrapped # "observed" /\ Automatic(c) /\ outcome[c] = "open" =>
          Accepted(c) /\ (ended[c] = "no" \/ c \in pending)

Settled == \A c \in Calls : Stands(c)

(* The shutdown: one closer carries it out, a worker leaves its loop only  *)
(* after the signal, and stays away.                                       *)
OneShutdown ==
    /\ once = "free" => ~done
    /\ \A k \in Closers :
        /\ closer[k] \in {"signal", "wait"} => once = "running"
        /\ closer[k] = "signal" => ~done
        /\ closer[k] = "wait" => done
        /\ closer[k] = "done" => once = "over"
    /\ \A j, k \in Closers :
        closer[j] \in {"signal", "wait"} /\ closer[k] \in {"signal", "wait"} => j = k

Leaving ==
    /\ \A p \in Parts : worker[p] \in {"drain", "drainwork", "exited"} => done
    /\ once = "over" => WorkersGone

(* A call that was let in before the signal and sends after it is late,    *)
(* and only late calls are in the queue of a worker that is gone.          *)
LeftBehind ==
    /\ \A c \in Calls : done /\ pc[c] = "send" => c \in late
    /\ \A p \in Parts, c \in Calls :
        worker[p] = "exited" /\ Occurs(queues[p], c) => c \in late

Shutdown == OneShutdown /\ Leaving /\ LeftBehind

(* The history holds each accepted call once, a call is in the partition   *)
(* of its lane, and every queue is in the order of acceptance.             *)
Recorded ==
    \A c \in Calls : Once(accepted, c) /\ (Accepted(c) <=> Occurs(accepted, c))

LanePart ==
    ~Unordered => \A c \in Calls : pc[c] = "send" \/ Accepted(c) =>
                    part[c] = Hash[KeyOf(req[c])] % Partitions

QueueOrder ==
    \A p \in Parts, a, b \in Calls :
        Before(queues[p], a, b) => Before(accepted, a, b)

InOrder == Recorded /\ LanePart /\ QueueOrder

-----------------------------------------------------------------------------
(* Types, and what a worker holds.                                         *)

LEMMA NumberTypes ==
  /\ Partitions \in Nat \ {0} /\ QueueSize \in Nat \ {0} /\ CounterLimit \in Nat \ {0}
  /\ 0 \in Parts
  /\ \A n \in Nat : n % Partitions \in Parts /\ n % CounterLimit \in Nat
  BY QueueAssumption DEF Parts

(* Every request finds a partition.                                        *)
LEMMA PartitionType ==
  ASSUME TypeOK, NEW r \in Requests
  PROVE  /\ NextCount \in Nat /\ PartitionFor(r) \in Parts
         /\ KeyOf(r) \in Topics \union Keys
  <1>1. next \in Nat /\ next + 1 \in Nat
    BY DEF TypeOK
  <1>2. NextCount \in Nat
    BY <1>1, NumberTypes DEF NextCount
  <1>3. KeyOf(r) \in Topics \union Keys
    BY DEF KeyOf, Requests
  <1>4. Hash[KeyOf(r)] \in Nat
    BY <1>3, QueueAssumption
  <1>5. QED
    BY <1>2, <1>3, <1>4, NumberTypes DEF PartitionFor

(* A caller, a worker and a panic settle with an outcome.                  *)
LEMMA SettlesType ==
  ASSUME TypeOK, NEW c, NEW r, NEW failed \in BOOLEAN,
         CallerSettles(c, r, failed) \/ WorkerSettles(c, failed) \/ PanicSettles(c)
  PROVE  outcome' \in [Calls -> Outcomes]
  <1>1. outcome \in [Calls -> Outcomes]
    BY DEF TypeOK
  <1>2. CASE CallerSettles(c, r, failed)
    BY <1>1, <1>2
    DEF CallerSettles, SettleOnReturn, Settle, DeliveryDisposition, Outcomes
  <1>3. CASE WorkerSettles(c, failed)
    BY <1>1, <1>3 DEF WorkerSettles, SettleOnReturn, Settle, Outcomes
  <1>4. CASE PanicSettles(c)
    BY <1>1, <1>4 DEF PanicSettles, SettleRefused, Settle, Outcomes
  <1>5. QED
    BY <1>2, <1>3, <1>4

LEMMA InitAsyncInv == Init => AsyncInv
  <1> SUFFICES ASSUME Init
               PROVE  AsyncInv
    OBVIOUS
  <1>1. /\ launched \in 0..Partitions
        /\ built \in Builds /\ ticking \in BOOLEAN
        /\ queues \in [Parts -> Seq(Calls)]
        /\ \A p \in Parts : Len(queues[p]) <= QueueSize
    BY QueueAssumption DEF Init
  <1>2. TypeOK
    BY <1>1, NumberTypes DEF Init, TypeOK, Outcomes
  <1>3. QED
    BY <1>2 DEF Init, AsyncInv, WorkersHold, Launched, Requested, Parts

LEMMA NextAsyncInv == AsyncInv /\ [Next]_vars => AsyncInv'
  <1> SUFFICES ASSUME AsyncInv, [Next]_vars
               PROVE  AsyncInv'
    OBVIOUS
  <1> USE DEF AsyncInv
  <1>1. ASSUME NEW c \in Calls, NEW r \in MayAsk[c], Invoke(c, r)
        PROVE  AsyncInv'
    <2>1. r \in Requests
      BY QueueAssumption
    <2>2. NextCount \in Nat /\ PartitionFor(r) \in Parts
      BY <2>1, PartitionType
    <2>3. outcome' \in [Calls -> Outcomes]
      BY <1>1, SettlesType DEF Invoke, TypeOK
    <2>4. TypeOK'
      BY <1>1, <2>1, <2>2, <2>3, ZenonT(40) DEF Invoke, TypeOK, workers, closing
    <2>5. WorkersHold' /\ Launched' /\ Requested'
      BY <1>1, <2>1 DEF Invoke, WorkersHold, Launched, Requested, TypeOK, workers
    <2>6. QED
      BY <2>4, <2>5
  <1>2. ASSUME NEW c \in Calls, Send(c)
        PROVE  AsyncInv'
    <2>1. part[c] \in Parts /\ queues[part[c]] \in Seq(Calls) /\ accepted \in Seq(Calls)
      BY DEF TypeOK
    <2>2. outcome' \in [Calls -> Outcomes]
      BY <1>2, SettlesType DEF Send
    <2>3. accepted' \in Seq(Calls) /\ queues' \in [Parts -> Seq(Calls)]
      <3>1. Append(queues[part[c]], c) \in Seq(Calls) /\ Append(accepted, c) \in Seq(Calls)
        BY <2>1, AppendOccurs
      <3>2. QED
        BY <1>2, <3>1, ZenonT(40) DEF Send, TypeOK
    <2>4. \A p \in Parts : Len(queues'[p]) <= QueueSize
      <3>1. CASE Room(part[c]) /\ queues' = [queues EXCEPT ![part[c]] = Append(@, c)]
        <4>1. Len(Append(queues[part[c]], c)) = Len(queues[part[c]]) + 1
              /\ Len(queues[part[c]]) \in Nat
          BY <2>1, AppendOccurs
        <4>2. QED
          BY <3>1, <4>1, NumberTypes DEF TypeOK, Room
      <3>2. CASE queues' = queues
        BY <3>2 DEF TypeOK
      <3>3. QED
        BY <1>2, <3>1, <3>2 DEF Send
    <2>5. /\ pc' \in [Calls -> {"idle", "send", "returned"}] /\ dropped' \in Nat
          /\ answer' \in [Calls -> {"none", "nil", "full", "closed"}]
      <3>1. /\ pc' = [pc EXCEPT ![c] = "returned"]
            /\ dropped' \in {dropped, dropped + 1}
            /\ \E a \in {"nil", "full"} : answer' = [answer EXCEPT ![c] = a]
        BY <1>2 DEF Send
      <3>2. QED
        BY <3>1 DEF TypeOK
    <2>6. UNCHANGED <<built, launched, tick, worker, at, next, req, part, closing, crashed,
                      pending, ended>>
      BY <1>2 DEF Send
    <2>7. TypeOK'
      BY <2>2, <2>3, <2>4, <2>5, <2>6 DEF TypeOK, closing
    <2>8. WorkersHold' /\ Requested'
      BY <1>2, <2>6 DEF Send, WorkersHold, Requested, TypeOK
    <2>9. QED
      BY <2>6, <2>7, <2>8 DEF Launched
  <1>3. ASSUME Launch
        PROVE  AsyncInv'
    <2>1. launched + 1 \in 0..Partitions /\ launched \in Parts
      BY <1>3, NumberTypes DEF Launch, TypeOK, Parts
    <2>2. worker[launched] = "off" /\ at[launched] = None /\ launched \in Nat
      <3>1. launched \in Nat /\ launched >= launched
        BY NumberTypes DEF TypeOK
      <3>2. worker[launched] = "off"
        BY <2>1, <3>1 DEF Launched
      <3>3. QED
        BY <2>1, <3>1, <3>2 DEF WorkersHold
    <2>3. worker' = [worker EXCEPT ![launched] = "select"] /\ launched' = launched + 1
      BY <1>3 DEF Launch
    <2>4. UNCHANGED <<built, tick, queues, at, calls, closing, crashed, deliveries>>
      BY <1>3 DEF Launch
    <2>5. TypeOK'
      BY <2>1, <2>3, <2>4 DEF TypeOK, calls, closing, deliveries
    <2>6. WorkersHold' /\ Requested'
      BY <2>1, <2>2, <2>3, <2>4 DEF TypeOK, WorkersHold, Requested, calls
    <2>7. Launched'
      BY <2>1, <2>2, <2>3 DEF Launched, TypeOK, Parts
    <2>8. QED
      BY <2>5, <2>6, <2>7
  <1>4. ASSUME NEW p \in Parts, Receive(p)
        PROVE  AsyncInv'
    <2>1. queues[p] \in Seq(Calls) /\ queues[p] # <<>> /\ Len(queues[p]) <= QueueSize
          /\ Len(queues[p]) \in Nat
      BY <1>4 DEF TypeOK, Receive
    <2>2. Head(queues[p]) \in Calls /\ Tail(queues[p]) \in Seq(Calls)
          /\ Len(Tail(queues[p])) <= QueueSize
      <3>1. Head(queues[p]) \in Calls /\ Tail(queues[p]) \in Seq(Calls)
            /\ Len(Tail(queues[p])) = Len(queues[p]) - 1
        BY <2>1, HeadTailProperties
      <3>2. QED
        BY <2>1, <3>1, NumberTypes
    <2>3. Processing[worker[p]] \in {"work", "drainwork"}
      BY <1>4 DEF Receive, Processing
    <2>4. TypeOK'
      BY <1>4, <2>2, <2>3 DEF Receive, TypeOK, calls, closing, deliveries
    <2>5. WorkersHold' /\ Launched' /\ Requested'
      BY <1>4, <2>2, <2>3 DEF Receive, TypeOK, WorkersHold, Launched, Requested, calls
    <2>6. QED
      BY <2>4, <2>5
  <1>5. ASSUME TickFires
        PROVE  AsyncInv'
    BY <1>5 DEF TickFires, TypeOK, WorkersHold, Launched, Requested, calls, closing, deliveries
  <1>6. ASSUME ReceiveTick
        PROVE  AsyncInv'
    BY <1>6, NumberTypes
    DEF ReceiveTick, TypeOK, WorkersHold, Launched, Requested, calls, closing, deliveries
  <1>7. ASSUME NEW p \in Parts, NEW failed \in BOOLEAN, Process(p, failed)
        PROVE  AsyncInv'
    <2>1. at[p] \in Calls \union {Tick} /\ BackTo[worker[p]] \in {"select", "drain"}
      BY <1>7 DEF Process, WorkersHold, BackTo
    <2>2. outcome' \in [Calls -> Outcomes]
      BY <1>7, SettlesType, ZenonT(40) DEF Process, TypeOK, deliveries
    <2>3. pending' \subseteq Calls /\ ended' \in [Calls -> {"no", "ok", "error", "panic"}]
      BY <1>7, <2>1 DEF Process, TypeOK, deliveries
    <2>4. TypeOK'
      BY <1>7, <2>1, <2>2, <2>3 DEF Process, TypeOK, calls, closing
    <2>5. WorkersHold' /\ Launched' /\ Requested'
      BY <1>7, <2>1 DEF Process, TypeOK, WorkersHold, Launched, Requested, calls
    <2>6. QED
      BY <2>4, <2>5
  <1>8. ASSUME NEW p \in Parts, Panic(p)
        PROVE  AsyncInv'
    <2>1. outcome' \in [Calls -> Outcomes]
      BY <1>8, SettlesType DEF Panic, TypeOK
    <2>2. ended' \in [Calls -> {"no", "ok", "error", "panic"}]
      BY <1>8 DEF Panic, TypeOK
    <2>3. TypeOK'
      BY <1>8, <2>1, <2>2 DEF Panic, TypeOK, calls, closing
    <2>4. WorkersHold' /\ Launched' /\ Requested'
      BY <1>8 DEF Panic, TypeOK, WorkersHold, Launched, Requested, calls
    <2>5. QED
      BY <2>3, <2>4
  <1>9. ASSUME NEW p \in Parts, SeeDone(p)
        PROVE  AsyncInv'
    BY <1>9
    DEF SeeDone, BeginDrain, TypeOK, WorkersHold, Launched, Requested, calls, closing, deliveries
  <1>10. ASSUME NEW p \in Parts, Drained(p)
         PROVE  AsyncInv'
    BY <1>10 DEF Drained, TypeOK, WorkersHold, Launched, Requested, calls, closing, deliveries
  <1>11. ASSUME NEW c \in Calls, NEW failed \in BOOLEAN, Complete(c, failed)
         PROVE  AsyncInv'
    <2>1. outcome' \in [Calls -> Outcomes]
      BY <1>11, SettleType DEF Complete, TypeOK
    <2>2. ended' \in [Calls -> {"no", "ok", "error", "panic"}]
      BY <1>11 DEF Complete, TypeOK
    <2>3. QED
      BY <1>11, <2>1, <2>2
      DEF Complete, TypeOK, WorkersHold, Launched, Requested, workers, calls, closing
  <1>12. ASSUME NEW k \in Closers, Close(k)
         PROVE  AsyncInv'
    BY <1>12 DEF Close, TypeOK, WorkersHold, Launched, Requested, calls, deliveries
  <1>13. ASSUME NEW k \in Closers, Signal(k)
         PROVE  AsyncInv'
    BY <1>13 DEF Signal, TypeOK, WorkersHold, Launched, Requested, workers, calls, deliveries
  <1>14. ASSUME NEW k \in Closers, CloseReturn(k)
         PROVE  AsyncInv'
    BY <1>14 DEF CloseReturn, TypeOK, WorkersHold, Launched, Requested, workers, calls, deliveries
  <1>15. CASE UNCHANGED vars
    BY <1>15
    DEF vars, TypeOK, WorkersHold, Launched, Requested, workers, calls, closing, deliveries
  <1>16. QED
    BY <1>1, <1>2, <1>3, <1>4, <1>5, <1>6, <1>7, <1>8, <1>9, <1>10, <1>11, <1>12, <1>13,
       <1>14, <1>15
    DEF Next, WorkerStep, CloseStep

LEMMA AlwaysAsyncInv == Spec => []AsyncInv
  BY InitAsyncInv, NextAsyncInv, PTL DEF Spec

(* The queue keeps its types: no queue outgrows its capacity, every call   *)
(* is queued in a partition there is.                                      *)
THEOREM AsyncTyping == Spec => []TypeOK
  <1>1. AsyncInv => TypeOK
    BY DEF AsyncInv
  <1>2. QED
    BY <1>1, AlwaysAsyncInv, PTL

-----------------------------------------------------------------------------
(* The one place of an accepted call.                                      *)

placing == <<built, queues, at, pc, req, part, answer, pending, ended>>

LEMMA InitPlaced == Init => Placed
  <1> SUFFICES ASSUME Init
               PROVE  Placed
    OBVIOUS
  <1>1. \A p \in Parts, c \in Calls : ~Occurs(queues[p], c) /\ Once(queues[p], c)
    BY DEF Init, Occurs, Once
  <1>2. \A p \in Parts : at[p] \notin Calls
    BY QueueAssumption DEF Init
  <1>3. QED
    BY <1>1, <1>2
    DEF Init, Placed, Answered, QueuedPlace, HeldPlace, NoOtherPlace, PendingPlace, Accepted

(* Most steps touch nothing of it.                                         *)
LEMMA PlacedUntouched == Placed /\ UNCHANGED placing => Placed'
  BY DEF placing, Placed, Answered, QueuedPlace, HeldPlace, NoOtherPlace, PendingPlace,
         Accepted

LEMMA InvokePlaced ==
  ASSUME AsyncInv, Placed, NEW c \in Calls, NEW r, Invoke(c, r)
  PROVE  Placed'
  <1>1. answer[c] = "none"
    BY DEF Placed, Answered, Invoke
  <1>2. /\ UNCHANGED <<built, queues, at, pending, ended>>
        /\ \A d \in Calls : d # c => /\ pc'[d] = pc[d] /\ answer'[d] = answer[d]
                                     /\ part'[d] = part[d] /\ req'[d] = req[d]
        /\ answer'[c] # "nil"
        /\ pc'[c] # "returned" <=> answer'[c] = "none"
    BY <1>1 DEF Invoke, workers, AsyncInv, TypeOK
  <1>3. ~Accepted(c) /\ ~Accepted(c)' /\ \A d \in Calls : Accepted(d)' <=> Accepted(d)
    BY <1>1, <1>2 DEF Accepted
  <1>4. Answered'
    BY <1>2 DEF Placed, Answered
  <1>5. QueuedPlace' /\ HeldPlace'
    BY <1>2, <1>3 DEF Placed, QueuedPlace, HeldPlace
  <1>6. NoOtherPlace'
    BY <1>2, <1>3 DEF Placed, NoOtherPlace
  <1>7. PendingPlace'
    <2> SUFFICES ASSUME NEW d \in pending
                 PROVE  /\ Accepted(d)' /\ ended[d] = "ok" /\ req'[d].kind = "event"
                        /\ built.wrapped = "deferred"
      BY <1>2 DEF PendingPlace
    <2>1. /\ d \in Calls /\ Accepted(d) /\ ended[d] = "ok" /\ req[d].kind = "event"
          /\ built.wrapped = "deferred"
      BY DEF Placed, PendingPlace, AsyncInv, TypeOK
    <2>2. QED
      BY <1>2, <1>3, <2>1
  <1>8. QED
    BY <1>4, <1>5, <1>6, <1>7 DEF Placed

LEMMA SendPlaced ==
  ASSUME AsyncInv, Placed, NEW c \in Calls, Send(c)
  PROVE  Placed'
  <1>1. answer[c] = "none" /\ ~Accepted(c)
    BY DEF Placed, Answered, Send, Accepted
  <1>2. /\ ended[c] = "no" /\ c \notin pending
        /\ \A p \in Parts : ~Occurs(queues[p], c) /\ at[p] # c
    BY <1>1 DEF Placed, QueuedPlace, HeldPlace, NoOtherPlace, PendingPlace, AsyncInv, TypeOK
  <1>3. /\ UNCHANGED <<built, at, req, part, pending, ended>>
        /\ \A d \in Calls : d # c => pc'[d] = pc[d] /\ answer'[d] = answer[d]
        /\ pc'[c] = "returned" /\ answer'[c] \in {"nil", "full"}
    BY DEF Send, AsyncInv, TypeOK
  <1>4. \A d \in Calls : d # c => (Accepted(d)' <=> Accepted(d))
    BY <1>3 DEF Accepted
  <1>5. Answered'
    BY <1>3 DEF Placed, Answered
  <1>6. CASE Room(part[c]) /\ answer'[c] = "nil"
             /\ queues' = [queues EXCEPT ![part[c]] = Append(@, c)]
    <2>1. part[c] \in Parts /\ queues[part[c]] \in Seq(Calls)
      BY DEF AsyncInv, TypeOK
    <2>2. \A d : Occurs(Append(queues[part[c]], c), d) <=> Occurs(queues[part[c]], d) \/ c = d
      BY <2>1, AppendOccurs
    <2>3. \A d : Once(queues[part[c]], d) /\ ~(c = d /\ Occurs(queues[part[c]], d))
                   => Once(Append(queues[part[c]], c), d)
      BY <2>1, AppendOccurs
    <2>4. /\ queues'[part[c]] = Append(queues[part[c]], c)
          /\ \A p \in Parts : p # part[c] => queues'[p] = queues[p]
      BY <1>6, <2>1 DEF AsyncInv, TypeOK
    <2>5. /\ \A p \in Parts, d \in Calls :
               Occurs(queues'[p], d) <=> Occurs(queues[p], d) \/ (d = c /\ p = part[c])
          /\ \A p \in Parts, d \in Calls : Once(queues'[p], d)
      <3> SUFFICES ASSUME NEW p \in Parts, NEW d \in Calls
                   PROVE  /\ Occurs(queues'[p], d) <=>
                               Occurs(queues[p], d) \/ (d = c /\ p = part[c])
                          /\ Once(queues'[p], d)
        OBVIOUS
      <3>1. Once(queues[p], d) /\ ~Occurs(queues[p], c)
        BY <1>2 DEF Placed, QueuedPlace
      <3>2. CASE p = part[c]
        BY <2>2, <2>3, <2>4, <3>1, <3>2
      <3>3. CASE p # part[c]
        BY <2>4, <3>1, <3>3
      <3>4. QED
        BY <3>2, <3>3
    <2>6. Accepted(c)'
      BY <1>6 DEF Accepted
    <2>7. QueuedPlace' /\ HeldPlace'
      BY <1>2, <1>3, <1>4, <2>5, <2>6 DEF Placed, QueuedPlace, HeldPlace
    <2>8. NoOtherPlace' /\ PendingPlace'
      <3>1. \A d \in Calls : part[d] \in Parts
        BY DEF AsyncInv, TypeOK
      <3>2. NoOtherPlace'
        BY <1>2, <1>3, <1>4, <2>5, <2>6, <3>1 DEF Placed, NoOtherPlace
      <3>3. PendingPlace'
        BY <1>2, <1>3, <1>4 DEF Placed, PendingPlace, AsyncInv, TypeOK
      <3>4. QED
        BY <3>2, <3>3
    <2>9. QED
      BY <1>5, <2>7, <2>8 DEF Placed
  <1>7. CASE answer'[c] = "full" /\ queues' = queues
    <2>1. ~Accepted(c)'
      BY <1>7 DEF Accepted
    <2>2. QueuedPlace' /\ HeldPlace' /\ NoOtherPlace' /\ PendingPlace'
      BY <1>1, <1>3, <1>4, <1>7, <2>1
      DEF Placed, QueuedPlace, HeldPlace, NoOtherPlace, PendingPlace, AsyncInv, TypeOK
    <2>3. QED
      BY <1>5, <2>2 DEF Placed
  <1>8. QED
    BY <1>6, <1>7 DEF Send, AsyncInv, TypeOK

LEMMA ReceivePlaced ==
  ASSUME AsyncInv, Placed, NEW p \in Parts, Receive(p)
  PROVE  Placed'
  <1> DEFINE c == Head(queues[p])
  <1>1. queues[p] \in Seq(Calls) /\ queues[p] # <<>> /\ at[p] = None
    BY DEF AsyncInv, TypeOK, WorkersHold, Receive
  <1>2. /\ c \in Calls /\ Occurs(queues[p], c)
        /\ \A d : Occurs(queues[p], d) <=> c = d \/ Occurs(Tail(queues[p]), d)
        /\ \A d : Once(queues[p], d) => Once(Tail(queues[p]), d)
                                        /\ (c = d => ~Occurs(Tail(queues[p]), d))
    BY <1>1, TailOccurs
  <1> HIDE DEF c
  <1>3. /\ UNCHANGED <<built, pc, req, part, answer, pending, ended>>
        /\ at' = [at EXCEPT ![p] = c] /\ queues' = [queues EXCEPT ![p] = Tail(@)]
    BY DEF Receive, calls, deliveries, c
  <1>4. /\ at'[p] = c /\ \A q \in Parts : q # p => at'[q] = at[q]
        /\ queues'[p] = Tail(queues[p]) /\ \A q \in Parts : q # p => queues'[q] = queues[q]
    BY <1>3 DEF AsyncInv, TypeOK
  <1>5. /\ Accepted(c) /\ part[c] = p /\ ended[c] = "no" /\ c \notin pending
        /\ Once(queues[p], c)
    BY <1>2 DEF Placed, QueuedPlace
  <1>6. \A d \in Calls : Accepted(d)' <=> Accepted(d)
    BY <1>3 DEF Accepted
  <1>7. Answered' /\ PendingPlace'
    BY <1>3, <1>6 DEF Placed, Answered, PendingPlace, AsyncInv, TypeOK
  <1>8. QueuedPlace'
    <2> SUFFICES ASSUME NEW q \in Parts, NEW d \in Calls
                 PROVE  /\ Once(queues'[q], d)
                        /\ Occurs(queues'[q], d) =>
                             /\ Accepted(d) /\ part[d] = q /\ ended[d] = "no"
                             /\ d \notin pending
      BY <1>3, <1>6 DEF QueuedPlace
    <2>1. CASE q = p
      BY <1>2, <1>4, <2>1 DEF Placed, QueuedPlace
    <2>2. CASE q # p
      BY <1>4, <2>2 DEF Placed, QueuedPlace
    <2>3. QED
      BY <2>1, <2>2
  <1>9. HeldPlace'
    <2> SUFFICES ASSUME NEW q \in Parts, NEW d \in Calls, at'[q] = d
                 PROVE  /\ Accepted(d) /\ part[d] = q /\ ended[d] = "no" /\ d \notin pending
                        /\ ~Occurs(queues'[q], d)
      BY <1>3, <1>6 DEF HeldPlace
    <2>1. CASE q = p
      BY <1>2, <1>4, <1>5, <2>1
    <2>2. CASE q # p
      BY <1>4, <2>2 DEF Placed, HeldPlace
    <2>3. QED
      BY <2>1, <2>2
  <1>10. NoOtherPlace'
    <2> SUFFICES ASSUME NEW d \in Calls, Accepted(d), ended[d] = "no"
                 PROVE  Occurs(queues'[part[d]], d) \/ at'[part[d]] = d
      BY <1>3, <1>6 DEF Placed, NoOtherPlace
    <2>1. part[d] \in Parts /\ (Occurs(queues[part[d]], d) \/ at[part[d]] = d)
      BY DEF Placed, NoOtherPlace, AsyncInv, TypeOK
    <2>2. CASE part[d] = p
      BY <1>1, <1>2, <1>4, <2>1, <2>2, QueueAssumption
    <2>3. CASE part[d] # p
      BY <1>4, <2>1, <2>3
    <2>4. QED
      BY <2>2, <2>3
  <1>11. QED
    BY <1>7, <1>8, <1>9, <1>10 DEF Placed

LEMMA ReceiveTickPlaced ==
  ASSUME AsyncInv, Placed, ReceiveTick
  PROVE  Placed'
  <1>1. at[0] = None /\ Tick \notin Calls /\ None \notin Calls /\ 0 \in Parts
    BY QueueAssumption, NumberTypes DEF AsyncInv, WorkersHold, ReceiveTick
  <1>2. /\ UNCHANGED <<built, queues, pc, req, part, answer, pending, ended>>
        /\ \A q \in Parts, d \in Calls : at'[q] = d <=> at[q] = d
    BY <1>1 DEF ReceiveTick, calls, deliveries, AsyncInv, TypeOK
  <1>3. \A d \in Calls : part[d] \in Parts /\ (Accepted(d)' <=> Accepted(d))
    BY <1>2 DEF Accepted, AsyncInv, TypeOK
  <1>4. QED
    BY <1>2, <1>3
    DEF Placed, Answered, QueuedPlace, HeldPlace, NoOtherPlace, PendingPlace, AsyncInv,
        TypeOK

(* Processing and a panic end the call in hand.                            *)
LEMMA EndPlaced ==
  ASSUME AsyncInv, Placed, NEW p \in Parts, NEW c \in Calls, at[p] = c,
         UNCHANGED <<built, queues, pc, req, part, answer>>,
         at' = [at EXCEPT ![p] = None],
         NEW e \in {"ok", "error", "panic"}, ended' = [ended EXCEPT ![c] = e],
         \/ pending' = pending
         \/ /\ pending' = pending \union {c} /\ e = "ok"
            /\ req[c].kind = "event" /\ built.wrapped = "deferred"
  PROVE  Placed'
  <1>1. /\ Accepted(c) /\ part[c] = p /\ ended[c] = "no" /\ c \notin pending
        /\ ~Occurs(queues[p], c)
    BY DEF Placed, HeldPlace
  <1>2. /\ at'[p] = None /\ \A q \in Parts : q # p => at'[q] = at[q]
        /\ ended'[c] = e /\ \A d \in Calls : d # c => ended'[d] = ended[d]
        /\ None \notin Calls
    BY QueueAssumption DEF AsyncInv, TypeOK
  <1>3. \A d \in Calls : part[d] \in Parts /\ (Accepted(d)' <=> Accepted(d))
    BY DEF Accepted, AsyncInv, TypeOK
  <1>4. \A q \in Parts : ~Occurs(queues[q], c) /\ (q # p => at[q] # c)
    BY <1>1 DEF Placed, QueuedPlace, HeldPlace
  <1>5. Answered' /\ QueuedPlace'
    BY <1>2, <1>3, <1>4 DEF Placed, Answered, QueuedPlace
  <1>6. HeldPlace'
    BY <1>2, <1>3, <1>4 DEF Placed, HeldPlace
  <1>7. NoOtherPlace'
    BY <1>1, <1>2, <1>3 DEF Placed, NoOtherPlace
  <1>8. PendingPlace'
    BY <1>1, <1>2, <1>3 DEF Placed, PendingPlace, AsyncInv, TypeOK
  <1>9. QED
    BY <1>5, <1>6, <1>7, <1>8 DEF Placed

(* A worker that puts a tick down has ended no call.                       *)
LEMMA TickEndPlaced ==
  ASSUME AsyncInv, Placed, NEW p \in Parts, at[p] = Tick, at' = [at EXCEPT ![p] = None],
         UNCHANGED <<built, queues, pc, req, part, answer, ended, pending>>
  PROVE  Placed'
  <1>1. \A q \in Parts, d \in Calls : at'[q] = d <=> at[q] = d
    BY QueueAssumption DEF AsyncInv, TypeOK
  <1>2. \A d \in Calls : part[d] \in Parts /\ (Accepted(d)' <=> Accepted(d))
    BY DEF Accepted, AsyncInv, TypeOK
  <1>3. QED
    BY <1>1, <1>2
    DEF Placed, Answered, QueuedPlace, HeldPlace, NoOtherPlace, PendingPlace, AsyncInv,
        TypeOK

LEMMA ProcessPlaced ==
  ASSUME AsyncInv, Placed, NEW p \in Parts, NEW failed \in BOOLEAN, Process(p, failed)
  PROVE  Placed'
  <1>1. /\ at[p] \in Calls \union {Tick} /\ at' = [at EXCEPT ![p] = None]
        /\ UNCHANGED <<built, queues, pc, req, part, answer>>
    BY DEF Process, AsyncInv, WorkersHold, calls
  <1>2. CASE at[p] = Tick
    BY <1>1, <1>2, TickEndPlaced DEF Process, deliveries
  <1>3. CASE at[p] # Tick
    <2>1. /\ at[p] \in Calls
          /\ ended' = [ended EXCEPT ![at[p]] = IF failed THEN "error" ELSE "ok"]
          /\ \/ pending' = pending
             \/ /\ pending' = pending \union {at[p]} /\ ~failed
                /\ req[at[p]].kind = "event" /\ built.wrapped = "deferred"
      BY <1>1, <1>3 DEF Process
    <2>2. QED
      BY <1>1, <2>1, EndPlaced
  <1>4. QED
    BY <1>2, <1>3

LEMMA PanicPlaced ==
  ASSUME AsyncInv, Placed, NEW p \in Parts, Panic(p)
  PROVE  Placed'
  <1>1. /\ at[p] \in Calls \union {Tick} /\ at' = [at EXCEPT ![p] = None]
        /\ UNCHANGED <<built, queues, pc, req, part, answer, pending>>
    BY DEF Panic, AsyncInv, WorkersHold, calls
  <1>2. CASE at[p] = Tick
    BY <1>1, <1>2, TickEndPlaced DEF Panic
  <1>3. CASE at[p] # Tick
    BY <1>1, <1>3, EndPlaced DEF Panic
  <1>4. QED
    BY <1>2, <1>3

LEMMA CompletePlaced ==
  ASSUME AsyncInv, Placed, NEW c \in Calls, NEW failed \in BOOLEAN, Complete(c, failed)
  PROVE  Placed'
  <1>1. c \in pending /\ Accepted(c) /\ ended[c] = "ok"
    BY DEF Complete, Placed, PendingPlace
  <1>2. /\ UNCHANGED <<built, queues, at, pc, req, part, answer>>
        /\ pending' = pending \ {c} /\ ended'[c] \in {"error", "ok"}
        /\ \A d \in Calls : d # c => ended'[d] = ended[d]
    BY DEF Complete, workers, calls, AsyncInv, TypeOK
  <1>3. \A d \in Calls : Accepted(d)' <=> Accepted(d)
    BY <1>2 DEF Accepted
  <1>4. QED
    BY <1>1, <1>2, <1>3
    DEF Placed, Answered, QueuedPlace, HeldPlace, NoOtherPlace, PendingPlace, AsyncInv,
        TypeOK

LEMMA NextPlaced == AsyncInv /\ Placed /\ [Next]_vars => Placed'
  <1> SUFFICES ASSUME AsyncInv, Placed, [Next]_vars
               PROVE  Placed'
    OBVIOUS
  <1>1. ASSUME \/ Launch \/ TickFires
               \/ \E p \in Parts : SeeDone(p) \/ Drained(p)
               \/ \E k \in Closers : Close(k) \/ CloseStep(k)
               \/ UNCHANGED vars
        PROVE  Placed'
    <2>1. UNCHANGED placing
      BY <1>1
      DEF Launch, TickFires, SeeDone, Drained, Close, CloseStep, Signal, CloseReturn, vars,
          placing, workers, calls, closing, deliveries
    <2>2. QED
      BY <2>1, PlacedUntouched
  <1>2. ASSUME NEW c \in Calls, Send(c) \/ \E r \in MayAsk[c] : Invoke(c, r)
        PROVE  Placed'
    BY <1>2, SendPlaced, InvokePlaced
  <1>3. ASSUME NEW p \in Parts,
               \/ Receive(p) \/ ReceiveTick
               \/ \E failed \in BOOLEAN : Process(p, failed)
               \/ Panic(p)
        PROVE  Placed'
    BY <1>3, ReceivePlaced, ReceiveTickPlaced, ProcessPlaced, PanicPlaced
  <1>4. ASSUME NEW c \in Calls, NEW failed \in BOOLEAN, Complete(c, failed)
        PROVE  Placed'
    BY <1>4, CompletePlaced
  <1>5. QED
    BY <1>1, <1>2, <1>3, <1>4 DEF Next, WorkerStep

LEMMA AlwaysPlaced == Spec => []Placed
  BY InitPlaced, NextPlaced, AlwaysAsyncInv, PTL DEF Spec

-----------------------------------------------------------------------------
(* How deliveries are settled.                                             *)

settling == <<built, outcome, pc, req, answer, pending, ended>>

(* A delivery of which nothing changes stands as it stood.                 *)
LEMMA StandsUntouched ==
  ASSUME NEW d, Stands(d), UNCHANGED built,
         outcome'[d] = outcome[d], pc'[d] = pc[d], req'[d] = req[d],
         answer'[d] = answer[d], ended'[d] = ended[d], d \in pending' <=> d \in pending
  PROVE  Stands(d)'
  BY DEF Stands, Automatic, Accepted

(* A call that has no answer yet, and one whose message has not been run,  *)
(* has no verdict.                                                         *)
LEMMA NoVerdictYet ==
  ASSUME AsyncInv, Placed, Settled, NEW c \in Calls,
         answer[c] \in {"none", "nil"}, ended[c] \in {"no", "ok"},
         ended[c] = "no" \/ c \in pending
  PROVE  outcome[c] = "open"
  <1>1. Stands(c) /\ outcome[c] \in Outcomes
    BY DEF Settled, AsyncInv, TypeOK
  <1>2. QED
    BY <1>1 DEF Stands, Outcomes

LEMMA InitSettled == Init => Settled
  BY DEF Init, Settled, Stands, Automatic

LEMMA InvokeSettled ==
  ASSUME AsyncInv, Placed, Settled, NEW c \in Calls, NEW r, Invoke(c, r)
  PROVE  Settled'
  <1>1. answer[c] = "none" /\ ended[c] = "no" /\ c \notin pending
    BY DEF Invoke, Placed, Answered, NoOtherPlace, PendingPlace, Accepted, AsyncInv, TypeOK
  <1>2. outcome[c] = "open"
    BY <1>1, NoVerdictYet
  <1>3. /\ UNCHANGED <<built, pending, ended>> /\ req'[c] = r
        /\ \A d \in Calls : d # c => /\ pc'[d] = pc[d] /\ answer'[d] = answer[d]
                                     /\ req'[d] = req[d]
    BY DEF Invoke, AsyncInv, TypeOK
  <1>4. \/ pc'[c] = "send" /\ outcome' = outcome
        \/ pc'[c] = "returned" /\ answer'[c] = "closed" /\ CallerSettles(c, r, TRUE)
    BY DEF Invoke, AsyncInv, TypeOK
  <1>5. \A d \in Calls : d # c => outcome'[d] = outcome[d]
    BY <1>4 DEF CallerSettles, AsyncInv, TypeOK
  <1>6. Stands(c)'
    <2>1. CASE pc'[c] = "send" /\ outcome' = outcome
      BY <1>2, <2>1 DEF Stands, Automatic
    <2>2. CASE pc'[c] = "returned" /\ answer'[c] = "closed" /\ CallerSettles(c, r, TRUE)
      <3>1. /\ outcome'[c] # "ack"
            /\ r.kind = "event" /\ r.mode = "auto" => outcome'[c] = "nack"
        BY <1>2, <2>2
        DEF CallerSettles, SettleOnReturn, Settle, DeliveryDisposition, AsyncInv, TypeOK
      <3>2. QED
        BY <1>3, <2>2, <3>1 DEF Stands, Automatic
    <2>3. QED
      BY <1>4, <2>1, <2>2
  <1>7. ASSUME NEW d \in Calls, d # c
        PROVE  Stands(d)'
    BY <1>3, <1>5, <1>7, StandsUntouched DEF Settled
  <1>8. QED
    BY <1>6, <1>7 DEF Settled

LEMMA SendSettled ==
  ASSUME AsyncInv, Placed, Settled, NEW c \in Calls, Send(c)
  PROVE  Settled'
  <1>1. answer[c] = "none" /\ ended[c] = "no" /\ c \notin pending
    BY DEF Send, Placed, Answered, NoOtherPlace, PendingPlace, Accepted, AsyncInv, TypeOK
  <1>2. outcome[c] = "open"
    BY <1>1, NoVerdictYet
  <1>3. /\ UNCHANGED <<built, pending, ended, req>>
        /\ \A d \in Calls : d # c => pc'[d] = pc[d] /\ answer'[d] = answer[d]
    BY DEF Send, AsyncInv, TypeOK
  <1>4. \/ answer'[c] = "nil" /\ CallerSettles(c, req[c], FALSE)
        \/ answer'[c] = "full" /\ CallerSettles(c, req[c], TRUE)
    BY DEF Send, AsyncInv, TypeOK
  <1>5. \A d \in Calls : d # c => outcome'[d] = outcome[d]
    BY <1>4 DEF CallerSettles, AsyncInv, TypeOK
  <1>6. Stands(c)'
    <2>1. CASE answer'[c] = "nil" /\ CallerSettles(c, req[c], FALSE)
      <3>1. outcome'[c] = "open"
        BY <1>2, <2>1
        DEF CallerSettles, SettleOnReturn, Settle, DeliveryDisposition, AsyncInv, TypeOK
      <3>2. QED
        BY <1>1, <1>3, <2>1, <3>1 DEF Stands, Accepted
    <2>2. CASE answer'[c] = "full" /\ CallerSettles(c, req[c], TRUE)
      <3>1. /\ outcome'[c] # "ack"
            /\ req[c].kind = "event" /\ req[c].mode = "auto" => outcome'[c] = "nack"
        BY <1>2, <2>2
        DEF CallerSettles, SettleOnReturn, Settle, DeliveryDisposition, AsyncInv, TypeOK
      <3>2. QED
        BY <1>3, <2>2, <3>1 DEF Stands, Automatic
    <2>3. QED
      BY <1>4, <2>1, <2>2
  <1>7. ASSUME NEW d \in Calls, d # c
        PROVE  Stands(d)'
    BY <1>3, <1>5, <1>7, StandsUntouched DEF Settled
  <1>8. QED
    BY <1>6, <1>7 DEF Settled

LEMMA ProcessSettled ==
  ASSUME AsyncInv, Placed, Settled, NEW p \in Parts, NEW failed \in BOOLEAN,
         Process(p, failed)
  PROVE  Settled'
  <1>1. at[p] \in Calls \union {Tick} /\ UNCHANGED <<built, pc, req, answer>>
    BY DEF Process, AsyncInv, WorkersHold, calls
  <1>2. CASE at[p] = Tick
    <2>1. UNCHANGED settling
      BY <1>1, <1>2, QueueAssumption DEF Process, deliveries, settling
    <2>2. QED
      BY <2>1, StandsUntouched DEF Settled, settling
  <1>3. CASE at[p] # Tick
    <2>1. PICK c \in Calls :
          /\ at[p] = c /\ ended' = [ended EXCEPT ![c] = IF failed THEN "error" ELSE "ok"]
          /\ WorkerSettles(c, failed)
          /\ pending' = IF req[c].kind = "event" /\ built.wrapped = "deferred" /\ ~failed
                        THEN pending \union {c} ELSE pending
      BY <1>1, <1>3 DEF Process
    <2>2. Accepted(c) /\ ended[c] = "no" /\ c \notin pending
      BY <2>1 DEF Placed, HeldPlace
    <2>3. outcome[c] = "open"
      BY <2>1, <2>2, NoVerdictYet DEF Accepted
    <2>4. /\ ended'[c] = IF failed THEN "error" ELSE "ok"
          /\ \A d \in Calls : d # c => /\ ended'[d] = ended[d] /\ outcome'[d] = outcome[d]
                                       /\ d \in pending' <=> d \in pending
      BY <2>1 DEF WorkerSettles, AsyncInv, TypeOK
    <2>5. outcome'[c] = IF req[c].kind = "event"
                        THEN SettleOnReturn(req[c].mode, "open", built.wrapped, failed)
                        ELSE "open"
      BY <2>1, <2>3 DEF WorkerSettles, AsyncInv, TypeOK
    <2>6. built.wrapped \in Dispositions
      BY QueueAssumption DEF AsyncInv, TypeOK
    <2>7. Stands(c)'
      <3>1. outcome'[c] = "ack" => ended'[c] = "ok" /\ c \notin pending'
        BY <2>1, <2>2, <2>4, <2>5 DEF SettleOnReturn, Settle
      <3>2. outcome'[c] = "nack" => ended'[c] = "error"
        BY <2>4, <2>5 DEF SettleOnReturn, Settle
      <3>3. built.wrapped # "observed" /\ Automatic(c) /\ outcome'[c] = "open"
              => c \in pending'
        BY <2>1, <2>5, <2>6 DEF SettleOnReturn, Settle, Automatic, Dispositions
      <3>4. QED
        BY <1>1, <2>2, <3>1, <3>2, <3>3 DEF Stands, Automatic, Accepted
    <2>8. ASSUME NEW d \in Calls, d # c
          PROVE  Stands(d)'
      BY <1>1, <2>4, <2>8, StandsUntouched DEF Settled
    <2>9. QED
      BY <2>7, <2>8 DEF Settled
  <1>4. QED
    BY <1>2, <1>3

LEMMA PanicSettled ==
  ASSUME AsyncInv, Placed, Settled, NEW p \in Parts, Panic(p)
  PROVE  Settled'
  <1>1. at[p] \in Calls \union {Tick} /\ UNCHANGED <<built, pc, req, answer, pending>>
    BY DEF Panic, AsyncInv, WorkersHold, calls
  <1>2. CASE at[p] = Tick
    <2>1. UNCHANGED settling
      BY <1>1, <1>2 DEF Panic, settling
    <2>2. QED
      BY <2>1, StandsUntouched DEF Settled, settling
  <1>3. CASE at[p] # Tick
    <2>1. PICK c \in Calls :
            at[p] = c /\ ended' = [ended EXCEPT ![c] = "panic"] /\ PanicSettles(c)
      BY <1>1, <1>3 DEF Panic
    <2>2. Accepted(c) /\ ended[c] = "no" /\ c \notin pending
      BY <2>1 DEF Placed, HeldPlace
    <2>3. outcome[c] = "open"
      BY <2>1, <2>2, NoVerdictYet DEF Accepted
    <2>4. /\ ended'[c] = "panic"
          /\ \A d \in Calls : d # c => ended'[d] = ended[d] /\ outcome'[d] = outcome[d]
      BY <2>1 DEF PanicSettles, AsyncInv, TypeOK
    <2>5. /\ outcome'[c] # "ack"
          /\ req[c].kind = "event" /\ req[c].mode = "auto" => outcome'[c] = "nack"
      BY <2>1, <2>3 DEF PanicSettles, SettleRefused, Settle, AsyncInv, TypeOK
    <2>6. Stands(c)'
      BY <1>1, <2>4, <2>5 DEF Stands, Automatic
    <2>7. ASSUME NEW d \in Calls, d # c
          PROVE  Stands(d)'
      BY <1>1, <2>4, <2>7, StandsUntouched DEF Settled
    <2>8. QED
      BY <2>6, <2>7 DEF Settled
  <1>4. QED
    BY <1>2, <1>3

LEMMA CompleteSettled ==
  ASSUME AsyncInv, Placed, Settled, NEW c \in Calls, NEW failed \in BOOLEAN,
         Complete(c, failed)
  PROVE  Settled'
  <1>1. c \in pending /\ Accepted(c) /\ ended[c] = "ok"
    BY DEF Complete, Placed, PendingPlace
  <1>2. outcome[c] = "open"
    BY <1>1, NoVerdictYet DEF Accepted
  <1>3. UNCHANGED <<built, pc, req, answer>> /\ pending' = pending \ {c}
    BY DEF Complete, calls
  <1>4. /\ ended'[c] = IF failed THEN "error" ELSE "ok"
        /\ outcome'[c] = SettleOnReturn(req[c].mode, "open", "handled", failed)
        /\ \A d \in Calls : d # c => ended'[d] = ended[d] /\ outcome'[d] = outcome[d]
    BY <1>2 DEF Complete, AsyncInv, TypeOK
  <1>5. /\ outcome'[c] = "ack" => ended'[c] = "ok"
        /\ outcome'[c] = "nack" => ended'[c] = "error"
        /\ req[c].mode = "auto" => outcome'[c] # "open"
    BY <1>4 DEF SettleOnReturn, Settle
  <1>6. Stands(c)'
    BY <1>3, <1>5 DEF Stands, Automatic
  <1>7. ASSUME NEW d \in Calls, d # c
        PROVE  Stands(d)'
    BY <1>3, <1>4, <1>7, StandsUntouched DEF Settled
  <1>8. QED
    BY <1>6, <1>7 DEF Settled

LEMMA NextSettled == AsyncInv /\ Placed /\ Settled /\ [Next]_vars => Settled'
  <1> SUFFICES ASSUME AsyncInv, Placed, Settled, [Next]_vars
               PROVE  Settled'
    OBVIOUS
  <1>1. ASSUME \/ Launch \/ TickFires \/ ReceiveTick
               \/ \E p \in Parts : Receive(p) \/ SeeDone(p) \/ Drained(p)
               \/ \E k \in Closers : Close(k) \/ CloseStep(k)
               \/ UNCHANGED vars
        PROVE  Settled'
    <2>1. UNCHANGED settling
      BY <1>1
      DEF Launch, TickFires, ReceiveTick, Receive, SeeDone, Drained, Close, CloseStep,
          Signal, CloseReturn, vars, settling, workers, calls, closing, deliveries
    <2>2. QED
      BY <2>1, StandsUntouched DEF Settled, settling
  <1>2. ASSUME NEW c \in Calls, Send(c) \/ \E r \in MayAsk[c] : Invoke(c, r)
        PROVE  Settled'
    BY <1>2, SendSettled, InvokeSettled
  <1>3. ASSUME NEW p \in Parts, Panic(p) \/ \E failed \in BOOLEAN : Process(p, failed)
        PROVE  Settled'
    BY <1>3, ProcessSettled, PanicSettled
  <1>4. ASSUME NEW c \in Calls, NEW failed \in BOOLEAN, Complete(c, failed)
        PROVE  Settled'
    BY <1>4, CompleteSettled
  <1>5. QED
    BY <1>1, <1>2, <1>3, <1>4 DEF Next, WorkerStep

LEMMA AlwaysSettled == Spec => []Settled
  BY InitSettled, NextSettled, AlwaysAsyncInv, AlwaysPlaced, PTL DEF Spec

(* A delivery is acknowledged only when its work is done and went well,    *)
(* nacked only on a refusal, an error or a panic.                          *)
THEOREM SettlePointMoved == Spec => []SettledByOutcome
  <1>1. Settled => SettledByOutcome
    BY DEF Settled, Stands, SettledByOutcome
  <1>2. QED
    BY <1>1, AlwaysSettled, PTL

-----------------------------------------------------------------------------
(* The shutdown.                                                           *)

stopping == <<done, once, closer, worker, queues, pc, late>>

LEMMA InitShutdown == Init => Shutdown
  <1> SUFFICES ASSUME Init
               PROVE  Shutdown
    OBVIOUS
  <1>1. OneShutdown
    BY DEF Init, OneShutdown
  <1>2. Leaving /\ LeftBehind
    BY DEF Init, Leaving, LeftBehind
  <1>3. QED
    BY <1>1, <1>2 DEF Shutdown

LEMMA ShutdownUntouched == Shutdown /\ UNCHANGED stopping => Shutdown'
  BY DEF stopping, Shutdown, OneShutdown, Leaving, LeftBehind, WorkersGone

LEMMA InvokeShutdown ==
  ASSUME AsyncInv, Shutdown, NEW c \in Calls, NEW r, Invoke(c, r)
  PROVE  Shutdown'
  <1>1. UNCHANGED <<done, once, closer, worker, queues, late>>
    BY DEF Invoke, workers, closing
  <1>2. \A d \in Calls : done /\ pc'[d] = "send" => pc[d] = "send"
    BY DEF Invoke, AsyncInv, TypeOK
  <1>3. QED
    BY <1>1, <1>2 DEF Shutdown, OneShutdown, Leaving, LeftBehind, WorkersGone

LEMMA SendShutdown ==
  ASSUME AsyncInv, Shutdown, NEW c \in Calls, Send(c)
  PROVE  Shutdown'
  <1>1. UNCHANGED <<done, once, closer, worker, late>>
    BY DEF Send, closing
  <1>2. /\ pc[c] = "send" /\ part[c] \in Parts /\ queues[part[c]] \in Seq(Calls)
        /\ \A d \in Calls : pc'[d] = "send" => pc[d] = "send"
    BY DEF Send, AsyncInv, TypeOK
  <1>3. \A p \in Parts : queues'[p] = queues[p] \/ queues'[p] = Append(queues[p], c)
    <2>1. queues' = queues \/ queues' = [queues EXCEPT ![part[c]] = Append(@, c)]
      BY DEF Send
    <2>2. queues \in [Parts -> Seq(Calls)]
      BY DEF AsyncInv, TypeOK
    <2>3. QED
      BY <2>1, <2>2
  <1>4. ASSUME NEW p \in Parts, NEW d \in Calls, worker[p] = "exited", Occurs(queues'[p], d)
        PROVE  d \in late
    <2>1. queues[p] \in Seq(Calls)
      BY DEF AsyncInv, TypeOK
    <2>2. Occurs(queues[p], d) \/ d = c
      <3>1. Occurs(Append(queues[p], c), d) <=> Occurs(queues[p], d) \/ c = d
        BY <2>1, AppendOccurs
      <3>2. QED
        BY <1>3, <1>4, <3>1
    <2>3. c \in late
      BY <1>2, <1>4 DEF Shutdown, Leaving, LeftBehind
    <2>4. QED
      BY <1>4, <2>2, <2>3 DEF Shutdown, LeftBehind
  <1>5. OneShutdown' /\ Leaving'
    BY <1>1 DEF Shutdown, OneShutdown, Leaving, WorkersGone
  <1>6. LeftBehind'
    BY <1>1, <1>2, <1>4 DEF Shutdown, LeftBehind
  <1>7. QED
    BY <1>5, <1>6 DEF Shutdown

(* A worker that goes on, and takes at most the head of its queue.         *)
LEMMA WorkerShutdown ==
  ASSUME AsyncInv, Shutdown, NEW p \in Parts, NEW l, worker' = [worker EXCEPT ![p] = l],
         UNCHANGED <<done, once, closer, late, pc>>,
         worker[p] # "exited", l # "exited",
         l \in {"drain", "drainwork"} => done,
         \A q \in Parts, d \in Calls : Occurs(queues'[q], d) => Occurs(queues[q], d)
  PROVE  Shutdown'
  <1>1. worker'[p] = l /\ \A q \in Parts : q # p => worker'[q] = worker[q]
    BY DEF AsyncInv, TypeOK
  <1>2. OneShutdown'
    BY DEF Shutdown, OneShutdown
  <1>3. once # "over"
    BY DEF Shutdown, Leaving, WorkersGone
  <1>4. Leaving'
    BY <1>1, <1>3 DEF Shutdown, Leaving
  <1>5. LeftBehind'
    BY <1>1 DEF Shutdown, LeftBehind
  <1>6. QED
    BY <1>2, <1>4, <1>5 DEF Shutdown

LEMMA LaunchShutdown ==
  ASSUME AsyncInv, Shutdown, Launch
  PROVE  Shutdown'
  <1>1. launched \in Parts /\ launched >= launched
    BY NumberTypes DEF Launch, AsyncInv, TypeOK, Parts
  <1>2. worker[launched] = "off"
    BY <1>1 DEF AsyncInv, Launched
  <1>3. /\ worker' = [worker EXCEPT ![launched] = "select"]
        /\ UNCHANGED <<done, once, closer, late, pc, queues>>
    BY DEF Launch, calls, closing
  <1>4. QED
    BY <1>1, <1>2, <1>3, WorkerShutdown

LEMMA ReceiveShutdown ==
  ASSUME AsyncInv, Shutdown, NEW p \in Parts, Receive(p)
  PROVE  Shutdown'
  <1>1. /\ worker' = [worker EXCEPT ![p] = Processing[worker[p]]]
        /\ UNCHANGED <<done, once, closer, late, pc>>
        /\ worker[p] \in {"select", "drain"}
        /\ queues' = [queues EXCEPT ![p] = Tail(@)]
    BY DEF Receive, calls, closing
  <1>2. /\ Processing[worker[p]] \in {"work", "drainwork"}
        /\ Processing[worker[p]] = "drainwork" => worker[p] = "drain"
    BY <1>1 DEF Processing
  <1>3. Processing[worker[p]] \in {"drain", "drainwork"} => done
    BY <1>2 DEF Shutdown, Leaving
  <1>4. \A d : Occurs(Tail(queues[p]), d) => Occurs(queues[p], d)
    <2>1. queues[p] \in Seq(Calls) /\ queues[p] # <<>>
      BY DEF Receive, AsyncInv, TypeOK
    <2>2. QED
      BY <2>1, TailOccurs
  <1>5. \A q \in Parts, d \in Calls : Occurs(queues'[q], d) => Occurs(queues[q], d)
    BY <1>1, <1>4 DEF AsyncInv, TypeOK
  <1>6. QED
    BY <1>1, <1>2, <1>3, <1>5, WorkerShutdown

LEMMA ProcessShutdown ==
  ASSUME AsyncInv, Shutdown, NEW p \in Parts, NEW failed, Process(p, failed)
  PROVE  Shutdown'
  <1>1. /\ worker' = [worker EXCEPT ![p] = BackTo[worker[p]]]
        /\ UNCHANGED <<done, once, closer, late, pc, queues>>
        /\ worker[p] \in {"work", "drainwork"}
    BY DEF Process, calls, closing
  <1>2. /\ BackTo[worker[p]] \in {"select", "drain"}
        /\ BackTo[worker[p]] = "drain" => worker[p] = "drainwork"
    BY <1>1 DEF BackTo
  <1>3. BackTo[worker[p]] \in {"drain", "drainwork"} => done
    BY <1>2 DEF Shutdown, Leaving
  <1>4. QED
    BY <1>1, <1>2, <1>3, WorkerShutdown

LEMMA DrainedShutdown ==
  ASSUME AsyncInv, Shutdown, NEW p \in Parts, Drained(p)
  PROVE  Shutdown'
  <1>1. /\ worker[p] = "drain" /\ queues[p] = <<>>
        /\ UNCHANGED <<done, once, closer, late, pc, queues>>
        /\ worker'[p] = "exited" /\ \A q \in Parts : q # p => worker'[q] = worker[q]
    BY DEF Drained, calls, closing, AsyncInv, TypeOK
  <1>2. done /\ once # "over" /\ \A d : ~Occurs(queues[p], d)
    BY <1>1 DEF Shutdown, Leaving, WorkersGone, Occurs
  <1>3. OneShutdown'
    BY <1>1 DEF Shutdown, OneShutdown
  <1>4. Leaving'
    BY <1>1, <1>2 DEF Shutdown, Leaving
  <1>5. LeftBehind'
    BY <1>1, <1>2 DEF Shutdown, LeftBehind
  <1>6. QED
    BY <1>3, <1>4, <1>5 DEF Shutdown

(* The three steps of a closer.                                            *)
LEMMA CloseShutdown ==
  ASSUME AsyncInv, Shutdown, NEW k \in Closers, Close(k)
  PROVE  Shutdown'
  <1>1. UNCHANGED <<done, worker, queues, pc, late>>
    BY DEF Close, calls
  <1>2. Leaving' /\ LeftBehind'
    BY <1>1 DEF Close, Shutdown, Leaving, LeftBehind, WorkersGone
  <1>3. \A j \in Closers : j # k => closer'[j] = closer[j]
    BY DEF Close, AsyncInv, TypeOK
  <1>4. CASE once = "free" /\ once' = "running" /\ closer'[k] = "signal"
    <2>1. ~done /\ \A j \in Closers : closer[j] \notin {"signal", "wait", "done"}
      BY <1>4 DEF Shutdown, OneShutdown
    <2>2. OneShutdown'
      BY <1>1, <1>3, <1>4, <2>1 DEF OneShutdown
    <2>3. QED
      BY <1>2, <2>2 DEF Shutdown
  <1>5. CASE once # "free" /\ once' = once /\ closer'[k] = "blocked"
    <2>1. OneShutdown'
      BY <1>1, <1>3, <1>5 DEF Shutdown, OneShutdown
    <2>2. QED
      BY <1>2, <2>1 DEF Shutdown
  <1>6. QED
    BY <1>4, <1>5 DEF Close, AsyncInv, TypeOK

LEMMA SignalShutdown ==
  ASSUME AsyncInv, Shutdown, NEW k \in Closers, Signal(k)
  PROVE  Shutdown'
  <1>1. /\ UNCHANGED <<once, worker, queues, pc>> /\ done' = TRUE
        /\ late' = {c \in Calls : pc[c] = "send"}
        /\ closer[k] = "signal" /\ closer'[k] = "wait"
        /\ \A j \in Closers : j # k => closer'[j] = closer[j]
    BY DEF Signal, workers, calls, AsyncInv, TypeOK
  <1>2. /\ once = "running" /\ ~done
        /\ \A j \in Closers : j # k => closer[j] \notin {"signal", "wait"}
        /\ \A p \in Parts : worker[p] # "exited"
    BY <1>1 DEF Shutdown, OneShutdown, Leaving
  <1>3. OneShutdown'
    BY <1>1, <1>2 DEF Shutdown, OneShutdown
  <1>4. Leaving' /\ LeftBehind'
    BY <1>1, <1>2 DEF Leaving, LeftBehind
  <1>5. QED
    BY <1>3, <1>4 DEF Shutdown

LEMMA CloseReturnShutdown ==
  ASSUME AsyncInv, Shutdown, NEW k \in Closers, CloseReturn(k)
  PROVE  Shutdown'
  <1>1. /\ UNCHANGED <<done, worker, queues, pc, late>>
        /\ closer'[k] = "done" /\ \A j \in Closers : j # k => closer'[j] = closer[j]
    BY DEF CloseReturn, workers, calls, AsyncInv, TypeOK
  <1>2. LeftBehind'
    BY <1>1 DEF Shutdown, LeftBehind
  <1>3. CASE closer[k] = "wait" /\ WorkersGone /\ once' = "over"
    <2>1. done /\ \A j \in Closers : j # k => closer[j] \notin {"signal", "wait"}
      BY <1>3 DEF Shutdown, OneShutdown
    <2>2. OneShutdown'
      BY <1>1, <1>3, <2>1 DEF Shutdown, OneShutdown
    <2>3. Leaving'
      BY <1>1, <1>3 DEF Shutdown, Leaving, WorkersGone
    <2>4. QED
      BY <1>2, <2>2, <2>3 DEF Shutdown
  <1>4. CASE closer[k] = "blocked" /\ once = "over" /\ once' = once
    <2>1. OneShutdown' /\ Leaving'
      BY <1>1, <1>4 DEF Shutdown, OneShutdown, Leaving, WorkersGone
    <2>2. QED
      BY <1>2, <2>1 DEF Shutdown
  <1>5. QED
    BY <1>3, <1>4 DEF CloseReturn

LEMMA NextShutdown == AsyncInv /\ Shutdown /\ [Next]_vars => Shutdown'
  <1> SUFFICES ASSUME AsyncInv, Shutdown, [Next]_vars
               PROVE  Shutdown'
    OBVIOUS
  <1>1. ASSUME \/ TickFires
               \/ \E p \in Parts : Panic(p)
               \/ \E c \in Calls, failed \in BOOLEAN : Complete(c, failed)
               \/ UNCHANGED vars
        PROVE  Shutdown'
    <2>1. UNCHANGED stopping
      BY <1>1 DEF TickFires, Panic, Complete, vars, stopping, workers, calls, closing
    <2>2. QED
      BY <2>1, ShutdownUntouched
  <1>2. ASSUME NEW c \in Calls, Send(c) \/ \E r \in MayAsk[c] : Invoke(c, r)
        PROVE  Shutdown'
    BY <1>2, SendShutdown, InvokeShutdown
  <1>3. ASSUME ReceiveTick
        PROVE  Shutdown'
    BY <1>3, NumberTypes, WorkerShutdown DEF ReceiveTick, calls, closing
  <1>4. ASSUME NEW p \in Parts, SeeDone(p)
        PROVE  Shutdown'
    BY <1>4, WorkerShutdown DEF SeeDone, BeginDrain, calls, closing
  <1>5. ASSUME NEW p \in Parts,
               Receive(p) \/ Drained(p) \/ \E failed \in BOOLEAN : Process(p, failed)
        PROVE  Shutdown'
    BY <1>5, ReceiveShutdown, DrainedShutdown, ProcessShutdown
  <1>6. ASSUME NEW k \in Closers, Close(k) \/ CloseStep(k)
        PROVE  Shutdown'
    BY <1>6, CloseShutdown, SignalShutdown, CloseReturnShutdown DEF CloseStep
  <1>7. QED
    BY <1>1, <1>2, <1>3, <1>4, <1>5, <1>6, LaunchShutdown DEF Next, WorkerStep

LEMMA AlwaysShutdown == Spec => []Shutdown
  BY InitShutdown, NextShutdown, AlwaysAsyncInv, PTL DEF Spec

(* An automatic delivery given to the queue is settled, or a worker has    *)
(* it, or a queue still served, or a deferring subscriber; or else Close   *)
(* overtook the call and the worker is gone.                               *)
THEOREM Custody == Spec => []AcceptedInCustody
  <1>1. AsyncInv /\ Placed /\ Settled /\ Shutdown => AcceptedInCustody
    <2> SUFFICES ASSUME AsyncInv, Placed, Settled, Shutdown, NEW c \in Calls,
                        built.wrapped # "observed", Automatic(c), outcome[c] = "open"
                 PROVE  \/ Queued(c) /\ (worker[part[c]] # "exited" \/ c \in late)
                        \/ InHand(c) \/ c \in pending
      BY DEF AcceptedInCustody
    <2>1. Accepted(c) /\ (ended[c] = "no" \/ c \in pending)
      BY DEF Settled, Stands
    <2>2. CASE ended[c] = "no"
      <3>1. part[c] \in Parts /\ (Occurs(queues[part[c]], c) \/ at[part[c]] = c)
        BY <2>1, <2>2 DEF Placed, NoOtherPlace, AsyncInv, TypeOK
      <3>2. Occurs(queues[part[c]], c) => worker[part[c]] # "exited" \/ c \in late
        BY <3>1 DEF Shutdown, LeftBehind
      <3>3. QED
        BY <3>1, <3>2 DEF Queued, InHand, Occurs
    <2>3. QED
      BY <2>1, <2>2
  <1>2. QED
    BY <1>1, AlwaysAsyncInv, AlwaysPlaced, AlwaysSettled, AlwaysShutdown, PTL

(* When a Close has returned, everything that was accepted from a call not *)
(* overtaken by it has been run, and nothing is being run.                 *)
THEOREM CloseDrains == Spec => []ClosedMeansDrained
  <1>1. AsyncInv /\ Placed /\ Shutdown => ClosedMeansDrained
    <2> SUFFICES ASSUME AsyncInv, Placed, Shutdown,
                        NEW k \in Closers, closer[k] = "done", NEW c \in Calls
                 PROVE  (Accepted(c) /\ c \notin late => ended[c] # "no") /\ ~InHand(c)
      BY DEF ClosedMeansDrained
    <2>1. \A p \in Parts : worker[p] = "exited"
      BY DEF Shutdown, OneShutdown, Leaving, WorkersGone
    <2>2. \A p \in Parts : at[p] = None
      BY <2>1 DEF AsyncInv, WorkersHold
    <2>3. ~InHand(c)
      BY <2>2, QueueAssumption DEF InHand
    <2>4. ASSUME Accepted(c), c \notin late, ended[c] = "no"
          PROVE  FALSE
      <3>1. part[c] \in Parts /\ Occurs(queues[part[c]], c)
        BY <2>2, <2>4, QueueAssumption DEF Placed, NoOtherPlace, AsyncInv, TypeOK
      <3>2. QED
        BY <2>1, <2>4, <3>1 DEF Shutdown, LeftBehind
    <2>5. QED
      BY <2>3, <2>4
  <1>2. QED
    BY <1>1, AlwaysAsyncInv, AlwaysPlaced, AlwaysShutdown, PTL

(* When a Close has returned and no call was under way as it closed the    *)
(* queue, the queues are empty: only a call that passed IsClosed before    *)
(* the signal and sends after it leaves its message behind.                *)
THEOREM CloseEmptiesQueues == Spec => [](late = {} => CloseProcessesAll)
  <1>1. AsyncInv /\ Shutdown => (late = {} => CloseProcessesAll)
    <2> SUFFICES ASSUME AsyncInv, Shutdown, late = {},
                        NEW k \in Closers, closer[k] = "done", NEW p \in Parts
                 PROVE  queues[p] = <<>>
      BY DEF CloseProcessesAll
    <2>1. worker[p] = "exited"
      BY DEF Shutdown, OneShutdown, Leaving, WorkersGone
    <2>2. \A c \in Calls : ~Occurs(queues[p], c)
      BY <2>1 DEF Shutdown, LeftBehind
    <2>3. queues[p] \in Seq(Calls)
      BY DEF AsyncInv, TypeOK
    <2>4. QED
      BY <2>2, <2>3 DEF Occurs
  <1>2. QED
    BY <1>1, AlwaysAsyncInv, AlwaysShutdown, PTL

-----------------------------------------------------------------------------
(* Order.                                                                  *)

ordering == <<built, queues, pc, req, part, answer, accepted>>

LEMMA InitInOrder == Init => InOrder
  <1> SUFFICES ASSUME Init
               PROVE  InOrder
    OBVIOUS
  <1>1. Recorded
    BY DEF Init, Recorded, Once, Occurs, Accepted
  <1>2. LanePart
    BY DEF Init, LanePart, Accepted
  <1>3. QueueOrder
    BY DEF Init, QueueOrder, Before
  <1>4. QED
    BY <1>1, <1>2, <1>3 DEF InOrder

LEMMA InOrderUntouched == InOrder /\ UNCHANGED ordering => InOrder'
  BY DEF ordering, InOrder, Recorded, LanePart, QueueOrder, Accepted, Unordered, KeyOf

LEMMA InvokeInOrder ==
  ASSUME AsyncInv, Placed, InOrder, NEW c \in Calls, NEW r, Invoke(c, r)
  PROVE  InOrder'
  <1>1. UNCHANGED <<built, queues, accepted>> /\ answer[c] = "none"
    BY DEF Invoke, workers, Placed, Answered
  <1>2. /\ req'[c] = r /\ answer'[c] # "nil"
        /\ \A d \in Calls : d # c => /\ pc'[d] = pc[d] /\ answer'[d] = answer[d]
                                     /\ part'[d] = part[d] /\ req'[d] = req[d]
        /\ pc'[c] = "send" => part'[c] = PartitionFor(r)
    BY <1>1 DEF Invoke, AsyncInv, TypeOK
  <1>3. \A d \in Calls : Accepted(d)' <=> Accepted(d)
    BY <1>1, <1>2 DEF Accepted
  <1>4. Recorded' /\ QueueOrder'
    BY <1>1, <1>3 DEF InOrder, Recorded, QueueOrder
  <1>5. LanePart'
    <2> SUFFICES ASSUME ~Unordered, NEW d \in Calls, pc'[d] = "send" \/ Accepted(d)'
                 PROVE  part'[d] = Hash[KeyOf(req'[d])] % Partitions
      BY <1>1 DEF LanePart, Unordered, KeyOf
    <2>1. CASE d = c
      BY <1>2, <2>1 DEF PartitionFor, Accepted
    <2>2. CASE d # c
      BY <1>2, <1>3, <2>2 DEF InOrder, LanePart
    <2>3. QED
      BY <2>1, <2>2
  <1>6. QED
    BY <1>4, <1>5 DEF InOrder

LEMMA SendInOrder ==
  ASSUME AsyncInv, Placed, InOrder, NEW c \in Calls, Send(c)
  PROVE  InOrder'
  <1>1. /\ UNCHANGED <<built, req, part>> /\ pc[c] = "send" /\ answer[c] = "none"
        /\ part[c] \in Parts /\ queues[part[c]] \in Seq(Calls) /\ accepted \in Seq(Calls)
    BY DEF Send, Placed, Answered, AsyncInv, TypeOK
  <1>2. \A d \in Calls : d # c => pc'[d] = pc[d] /\ answer'[d] = answer[d]
    BY DEF Send, AsyncInv, TypeOK
  <1>3. ~Accepted(c) /\ \A d \in Calls : d # c => (Accepted(d)' <=> Accepted(d))
    BY <1>1, <1>2 DEF Accepted
  <1>4. LanePart'
    <2> SUFFICES ASSUME ~Unordered, NEW d \in Calls, pc'[d] = "send" \/ Accepted(d)'
                 PROVE  part[d] = Hash[KeyOf(req[d])] % Partitions
      BY <1>1 DEF LanePart, Unordered, KeyOf
    <2>1. pc[d] = "send" \/ Accepted(d)
      BY <1>1, <1>2, <1>3
    <2>2. QED
      BY <2>1 DEF InOrder, LanePart
  <1>5. CASE /\ queues' = [queues EXCEPT ![part[c]] = Append(@, c)]
             /\ accepted' = Append(accepted, c) /\ answer'[c] = "nil"
    <2>1. ~Occurs(accepted, c)
      BY <1>3 DEF InOrder, Recorded
    <2>2. /\ \A d : Occurs(accepted', d) <=> Occurs(accepted, d) \/ c = d
          /\ \A d : Once(accepted, d) /\ ~(c = d /\ Occurs(accepted, d)) => Once(accepted', d)
      BY <1>1, <1>5, AppendOccurs
    <2>3. Recorded'
      <3> SUFFICES ASSUME NEW d \in Calls
                   PROVE  Once(accepted', d) /\ (Accepted(d)' <=> Occurs(accepted', d))
        BY DEF Recorded
      <3>1. Once(accepted, d) /\ (Accepted(d) <=> Occurs(accepted, d))
        BY DEF InOrder, Recorded
      <3>2. Once(accepted', d)
        BY <2>1, <2>2, <3>1
      <3>3. Accepted(d)' <=> Occurs(accepted', d)
        BY <1>3, <1>5, <2>2, <3>1 DEF Accepted
      <3>4. QED
        BY <3>2, <3>3
    <2>4. ASSUME NEW p \in Parts, NEW a \in Calls, NEW b \in Calls, Before(queues'[p], a, b)
          PROVE  Before(accepted', a, b)
      <3>1. Before(accepted', a, b) <=> Before(accepted, a, b) \/ (Occurs(accepted, a) /\ c = b)
        BY <1>1, <1>5, AppendBefore
      <3>2. CASE p = part[c]
        <4>1. queues'[p] = Append(queues[p], c) /\ queues[p] \in Seq(Calls)
          BY <1>1, <1>5, <3>2 DEF AsyncInv, TypeOK
        <4>2. Before(queues[p], a, b) \/ (Occurs(queues[p], a) /\ c = b)
          BY <2>4, <4>1, AppendBefore
        <4>3. Occurs(queues[p], a) => Occurs(accepted, a)
          BY DEF Placed, QueuedPlace, InOrder, Recorded
        <4>4. QED
          BY <3>1, <4>2, <4>3 DEF InOrder, QueueOrder
      <3>3. CASE p # part[c]
        <4>1. queues'[p] = queues[p]
          BY <1>5, <3>3 DEF AsyncInv, TypeOK
        <4>2. QED
          BY <2>4, <3>1, <4>1 DEF InOrder, QueueOrder
      <3>4. QED
        BY <3>2, <3>3
    <2>5. QED
      BY <1>4, <2>3, <2>4 DEF InOrder, QueueOrder
  <1>6. CASE queues' = queues /\ accepted' = accepted /\ answer'[c] = "full"
    <2>1. Recorded' /\ QueueOrder'
      BY <1>3, <1>6 DEF InOrder, Recorded, QueueOrder, Accepted
    <2>2. QED
      BY <1>4, <2>1 DEF InOrder
  <1>7. QED
    BY <1>5, <1>6 DEF Send, AsyncInv, TypeOK

LEMMA ReceiveInOrder ==
  ASSUME AsyncInv, InOrder, NEW p \in Parts, Receive(p)
  PROVE  InOrder'
  <1>1. /\ UNCHANGED <<built, pc, req, part, answer, accepted>>
        /\ queues[p] \in Seq(Calls) /\ queues[p] # <<>>
        /\ queues'[p] = Tail(queues[p]) /\ \A q \in Parts : q # p => queues'[q] = queues[q]
    BY DEF Receive, calls, AsyncInv, TypeOK
  <1>2. \A a, b : Before(Tail(queues[p]), a, b) => Before(queues[p], a, b)
    BY <1>1, TailBefore
  <1>3. QueueOrder'
    BY <1>1, <1>2 DEF InOrder, QueueOrder
  <1>4. Recorded' /\ LanePart'
    BY <1>1 DEF InOrder, Recorded, LanePart, Accepted, Unordered, KeyOf
  <1>5. QED
    BY <1>3, <1>4 DEF InOrder

LEMMA NextInOrder == AsyncInv /\ Placed /\ InOrder /\ [Next]_vars => InOrder'
  <1> SUFFICES ASSUME AsyncInv, Placed, InOrder, [Next]_vars
               PROVE  InOrder'
    OBVIOUS
  <1>1. ASSUME \/ Launch \/ TickFires \/ ReceiveTick
               \/ \E p \in Parts : SeeDone(p) \/ Drained(p) \/ Panic(p)
               \/ \E p \in Parts, failed \in BOOLEAN : Process(p, failed)
               \/ \E c \in Calls, failed \in BOOLEAN : Complete(c, failed)
               \/ \E k \in Closers : Close(k) \/ CloseStep(k)
               \/ UNCHANGED vars
        PROVE  InOrder'
    <2>1. UNCHANGED ordering
      BY <1>1
      DEF Launch, TickFires, ReceiveTick, SeeDone, Drained, Panic, Process, Complete,
          Close, CloseStep, Signal, CloseReturn, vars, ordering, workers, calls
    <2>2. QED
      BY <2>1, InOrderUntouched
  <1>2. ASSUME NEW c \in Calls, Send(c) \/ \E r \in MayAsk[c] : Invoke(c, r)
        PROVE  InOrder'
    BY <1>2, SendInOrder, InvokeInOrder
  <1>3. ASSUME NEW p \in Parts, Receive(p)
        PROVE  InOrder'
    BY <1>3, ReceiveInOrder
  <1>4. QED
    BY <1>1, <1>2, <1>3 DEF Next, WorkerStep

LEMMA AlwaysInOrder == Spec => []InOrder
  BY InitInOrder, NextInOrder, AlwaysAsyncInv, AlwaysPlaced, PTL DEF Spec

-----------------------------------------------------------------------------
(* The refinement of Lanes: what its three variables are here.             *)

History == [i \in DOMAIN accepted |->
              [message |-> accepted[i], lane |-> LaneOf(accepted[i])]]
Working == {c \in Calls : InHand(c)}
Finished == {c \in Calls : ended[c] # "no"}

LaneNames == Calls \union Topics \union Keys

(* The history is a sequence of messages with their lanes.                 *)
LEMMA HistoryType ==
  ASSUME AsyncInv, Placed, InOrder
  PROVE  /\ History \in Seq([message : Calls, lane : LaneNames])
         /\ Len(History) = Len(accepted) /\ DOMAIN History = DOMAIN accepted
         /\ \A i \in DOMAIN accepted :
              History[i] = [message |-> accepted[i], lane |-> LaneOf(accepted[i])]
  <1>1. /\ accepted \in Seq(Calls) /\ Len(accepted) \in Nat
        /\ DOMAIN accepted = 1..Len(accepted)
    BY DEF AsyncInv, TypeOK
  <1>2. ASSUME NEW i \in 1..Len(accepted)
        PROVE  [message |-> accepted[i], lane |-> LaneOf(accepted[i])]
                 \in [message : Calls, lane : LaneNames]
    <2>1. accepted[i] \in Calls /\ Accepted(accepted[i])
      BY <1>1 DEF InOrder, Recorded, Occurs
    <2>2. req[accepted[i]] \in Requests
      BY <2>1 DEF Accepted, Placed, Answered, AsyncInv, Requested
    <2>3. LaneOf(accepted[i]) \in LaneNames
      BY <2>1, <2>2, PartitionType DEF LaneOf, LaneNames, AsyncInv
    <2>4. QED
      BY <2>1, <2>3
  <1>3. History \in [1..Len(accepted) -> [message : Calls, lane : LaneNames]]
    BY <1>1, <1>2 DEF History
  <1>4. QED
    BY <1>1, <1>3 DEF History

LEMMA InitLanes == Init => Order!Init
  <1> SUFFICES ASSUME Init
               PROVE  Order!Init
    OBVIOUS
  <1>1. History = <<>>
    BY DEF Init, History
  <1>2. Working = {} /\ Finished = {}
    BY QueueAssumption DEF Init, Working, Finished, InHand
  <1>3. QED
    BY <1>1, <1>2 DEF Order!Init, History, Working, Finished

(* Steps that neither accept nor run anything stutter.                     *)
LEMMA StutterLanes ==
  ASSUME AsyncInv, Placed, InOrder, UNCHANGED accepted,
         \A c \in Calls : Accepted(c) => LaneOf(c)' = LaneOf(c),
         \A p \in Parts, c \in Calls : at'[p] = c <=> at[p] = c,
         \A c \in Calls : ended'[c] = "no" <=> ended[c] = "no"
  PROVE  UNCHANGED Order!vars
  <1>1. \A i \in DOMAIN accepted : accepted[i] \in Calls /\ Accepted(accepted[i])
    BY DEF AsyncInv, TypeOK, InOrder, Recorded, Occurs
  <1>2. History' = History
    BY <1>1 DEF History
  <1>3. Working' = Working /\ Finished' = Finished
    BY DEF Working, Finished, InHand
  <1>4. QED
    BY <1>2, <1>3 DEF Order!vars, History, Working, Finished

LEMMA SendLanes ==
  ASSUME AsyncInv, AsyncInv', Placed, Placed', InOrder, InOrder', NEW c \in Calls, Send(c)
  PROVE  [Order!Next]_(Order!vars)
  <1>1. /\ UNCHANGED <<built, at, req, ended>> /\ ~Accepted(c)
    BY DEF Send, Placed, Answered, Accepted, AsyncInv, TypeOK
  <1>2. \A d : LaneOf(d)' = LaneOf(d)
    BY <1>1 DEF LaneOf, Unordered, KeyOf
  <1>3. CASE accepted' = accepted
    BY <1>1, <1>2, <1>3, StutterLanes
  <1>4. CASE accepted' = Append(accepted, c)
    <2>1. /\ accepted \in Seq(Calls) /\ Len(accepted) \in Nat
          /\ DOMAIN accepted = 1..Len(accepted) /\ DOMAIN accepted' = 1..(Len(accepted) + 1)
          /\ \A i \in 1..Len(accepted) : accepted'[i] = accepted[i]
          /\ accepted'[Len(accepted) + 1] = c
      BY <1>4 DEF AsyncInv, TypeOK
    <2>2. LaneOf(c) \in LaneNames
      <3>1. req[c] \in Requests
        BY DEF Send, AsyncInv, Requested
      <3>2. QED
        BY <3>1, PartitionType DEF LaneOf, LaneNames, AsyncInv
    <2>3. PICK l \in LaneNames : l = LaneOf(c)
      BY <2>2
    <2> DEFINE e == [message |-> c, lane |-> l]
               E == [message : Calls, lane : LaneNames]
    <2>4. /\ History \in Seq(E) /\ Len(History) = Len(accepted) /\ e \in E
          /\ DOMAIN History = 1..Len(accepted)
      BY <2>1, HistoryType
    <2>5. DOMAIN History' = 1..(Len(accepted) + 1)
      BY <2>1 DEF History
    <2>6. ASSUME NEW i \in 1..Len(accepted)
          PROVE  History'[i] = History[i] /\ History[i] \in E
      <3>1. History'[i] = [message |-> accepted'[i], lane |-> LaneOf(accepted[i])']
        BY <2>1 DEF History
      <3>2. History[i] = [message |-> accepted[i], lane |-> LaneOf(accepted[i])]
        BY <2>1 DEF History
      <3>3. LaneOf(accepted[i])' = LaneOf(accepted[i])
        BY <1>1, <2>1 DEF LaneOf, Unordered, KeyOf
      <3>4. QED
        BY <2>1, <2>4, <3>1, <3>2, <3>3
    <2>7. History'[Len(accepted) + 1] = e
      <3>1. History'[Len(accepted) + 1] = [message |-> c, lane |-> LaneOf(c)']
        BY <2>1 DEF History, LaneOf
      <3>2. QED
        BY <1>2, <2>3, <3>1
    <2>8. History' = Append(History, e)
      <3>1. History' \in Seq(E) /\ Len(History') = Len(accepted) + 1
        <4>1. PICK n \in Nat : n = Len(accepted) + 1
          BY <2>1
        <4>2. \A i \in 1..n : History'[i] \in E
          BY <2>1, <2>4, <2>6, <2>7, <4>1
        <4>3. History' = [i \in 1..n |-> History'[i]]
          BY <2>1, <4>1 DEF History
        <4> HIDE DEF E
        <4>4. History' \in [1..n -> E]
          BY <4>2, <4>3
        <4>5. QED
          BY <4>1, <4>4
      <3>2. /\ Append(History, e) \in Seq(E) /\ Len(Append(History, e)) = Len(accepted) + 1
            /\ \A i \in 1..Len(accepted) : Append(History, e)[i] = History[i]
            /\ Append(History, e)[Len(accepted) + 1] = e
        BY <2>4
      <3>3. \A i \in 1..(Len(accepted) + 1) : History'[i] = Append(History, e)[i]
        BY <2>1, <2>6, <2>7, <3>2
      <3>4. QED
        BY <3>1, <3>2, <3>3, SeqEqual
    <2>9. \A i \in DOMAIN accepted : accepted[i] # c
      BY <1>1 DEF InOrder, Recorded, Occurs
    <2>10. Working' = Working /\ Finished' = Finished
      BY <1>1 DEF Working, Finished, InHand
    <2>11. Order!Accept(c, l)
      BY <2>8, <2>9, <2>10, HistoryType DEF Order!Accept, History, Working, Finished
    <2>12. QED
      BY <2>11 DEF Order!Next, LaneNames
  <1>5. QED
    BY <1>3, <1>4 DEF Send

(* Two accepted calls of one lane are in one partition.                    *)
LEMMA SameLane ==
  ASSUME InOrder, NEW c \in Calls, NEW d \in Calls, Accepted(c), Accepted(d),
         LaneOf(c) = LaneOf(d)
  PROVE  part[c] = part[d]
  <1>1. CASE Unordered
    BY <1>1 DEF LaneOf
  <1>2. CASE ~Unordered
    BY <1>2 DEF LaneOf, InOrder, LanePart
  <1>3. QED
    BY <1>1, <1>2

(* The head of a queue comes first among what its lane has left.           *)
LEMMA HeadsTurn ==
  ASSUME AsyncInv, Placed, InOrder, NEW p \in Parts, at[p] = None,
         queues[p] # <<>>, NEW i \in DOMAIN accepted, accepted[i] = Head(queues[p]),
         NEW j \in 1..(i - 1), LaneOf(accepted[j]) = LaneOf(accepted[i])
  PROVE  ended[accepted[j]] # "no"
  <1>1. queues[p] \in Seq(Calls) /\ accepted \in Seq(Calls)
    BY DEF AsyncInv, TypeOK
  <1>2. /\ i \in 1..Len(accepted) /\ j \in 1..Len(accepted) /\ j < i
        /\ DOMAIN accepted = 1..Len(accepted)
    BY <1>1
  <1>3. PICK c \in Calls : c = accepted[i]
    BY <1>1
  <1>4. PICK d \in Calls : d = accepted[j]
    BY <1>1, <1>2
  <1>5. Accepted(c) /\ Accepted(d) /\ Once(accepted, c) /\ Once(accepted, d)
    BY <1>2, <1>3, <1>4 DEF InOrder, Recorded, Occurs
  <1>6. Occurs(queues[p], c) /\ part[c] = p
    <2>1. Occurs(queues[p], c)
      BY <1>1, <1>3, TailOccurs
    <2>2. QED
      BY <2>1 DEF Placed, QueuedPlace
  <1>7. part[d] = p /\ d # c
    BY <1>2, <1>3, <1>4, <1>5, <1>6, SameLane DEF Once
  <1>8. ASSUME ended[d] = "no"
        PROVE  FALSE
    <2>1. Occurs(queues[p], d)
      BY <1>5, <1>7, <1>8, QueueAssumption DEF Placed, NoOtherPlace
    <2>2. Occurs(Tail(queues[p]), d)
      BY <1>1, <1>3, <1>7, <2>1, TailOccurs
    <2>3. Before(queues[p], c, d)
      BY <1>1, <1>3, <2>2, TailBefore
    <2>4. Before(accepted, c, d)
      BY <2>3 DEF InOrder, QueueOrder
    <2>5. QED
      BY <1>2, <1>3, <1>4, <1>5, <2>4 DEF Before, Once
  <1>9. QED
    BY <1>4, <1>8

LEMMA ReceiveLanes ==
  ASSUME AsyncInv, Placed, InOrder, NEW p \in Parts, Receive(p)
  PROVE  Order!Next
  <1>1. /\ queues[p] \in Seq(Calls) /\ queues[p] # <<>> /\ at[p] = None
        /\ UNCHANGED <<built, req, accepted, ended>>
        /\ at' = [at EXCEPT ![p] = Head(queues[p])]
    BY DEF Receive, calls, deliveries, AsyncInv, TypeOK, WorkersHold
  <1>2. PICK c \in Calls : c = Head(queues[p]) /\ Occurs(queues[p], c)
    BY <1>1, TailOccurs
  <1>3. Accepted(c) /\ part[c] = p /\ ended[c] = "no"
    BY <1>2 DEF Placed, QueuedPlace
  <1>4. PICK i \in DOMAIN accepted : accepted[i] = c
    BY <1>3 DEF InOrder, Recorded, Occurs
  <1>5. c \notin Working /\ c \notin Finished
    BY <1>2, <1>3 DEF Working, Finished, InHand, Placed, HeldPlace
  <1>6. Working' = Working \union {c}
    <2>1. \A d \in Calls : InHand(d)' <=> InHand(d) \/ d = c
      <3>1. at'[p] = c /\ \A q \in Parts : q # p => at'[q] = at[q]
        BY <1>1, <1>2 DEF AsyncInv, TypeOK
      <3>2. QED
        BY <1>1, <3>1, QueueAssumption DEF InHand
    <2>2. QED
      BY <2>1 DEF Working
  <1>7. History' = History /\ Finished' = Finished
    BY <1>1 DEF History, Finished, LaneOf, Unordered, KeyOf
  <1>8. /\ DOMAIN History = DOMAIN accepted /\ History[i].message = c
        /\ \A j \in DOMAIN accepted : /\ History[j].message = accepted[j]
                                      /\ History[j].lane = LaneOf(accepted[j])
    BY <1>4 DEF History
  <1>9. ASSUME NEW j \in 1..(i - 1), History[j].lane = History[i].lane
        PROVE  History[j].message \in Finished
    <2>1. j \in DOMAIN accepted /\ accepted[j] \in Calls
      BY DEF AsyncInv, TypeOK
    <2>2. LaneOf(accepted[j]) = LaneOf(accepted[i])
      BY <1>8, <1>9, <2>1
    <2>3. ended[accepted[j]] # "no"
      BY <1>1, <1>2, <1>4, <2>2, HeadsTurn
    <2>4. QED
      BY <1>8, <2>1, <2>3 DEF Finished
  <1>10. Order!Begin(i)
    BY <1>5, <1>6, <1>7, <1>8, <1>9 DEF Order!Begin, History, Working, Finished
  <1>11. QED
    BY <1>8, <1>10 DEF Order!Next, History

(* The worker that puts a call down ends it.                               *)
LEMMA EndLanes ==
  ASSUME AsyncInv, Placed, InOrder, NEW p \in Parts, NEW c \in Calls, at[p] = c,
         UNCHANGED <<built, req, accepted>>, at' = [at EXCEPT ![p] = None],
         NEW e \in {"ok", "error", "panic"}, ended' = [ended EXCEPT ![c] = e]
  PROVE  Order!Next
  <1>1. History' = History
    BY DEF History, LaneOf, Unordered, KeyOf
  <1>2. c \in Working /\ Working' = Working \ {c}
    <2>1. \A q \in Parts : at[q] = c => q = p
      BY DEF Placed, HeldPlace
    <2>2. at'[p] = None /\ \A q \in Parts : q # p => at'[q] = at[q]
      BY DEF AsyncInv, TypeOK
    <2>3. \A d \in Calls : InHand(d)' <=> InHand(d) /\ d # c
      BY <2>1, <2>2, QueueAssumption DEF InHand
    <2>4. QED
      BY <2>3 DEF Working, InHand
  <1>3. Finished' = Finished \union {c}
    <2>1. \A d \in Calls : ended'[d] # "no" <=> ended[d] # "no" \/ d = c
      BY DEF AsyncInv, TypeOK
    <2>2. QED
      BY <2>1 DEF Finished
  <1>4. Order!End(c)
    BY <1>1, <1>2, <1>3 DEF Order!End, History, Working, Finished
  <1>5. QED
    BY <1>4 DEF Order!Next

LEMMA PutDownLanes ==
  ASSUME AsyncInv, Placed, InOrder, NEW p \in Parts,
         Panic(p) \/ \E failed \in BOOLEAN : Process(p, failed)
  PROVE  [Order!Next]_(Order!vars)
  <1>1. /\ at[p] \in Calls \union {Tick} /\ at' = [at EXCEPT ![p] = None]
        /\ UNCHANGED <<built, req, accepted>>
    BY DEF Process, Panic, AsyncInv, WorkersHold, calls
  <1>2. CASE at[p] = Tick
    <2>1. UNCHANGED ended
      BY <1>1, <1>2, QueueAssumption DEF Process, Panic, deliveries
    <2>2. \A q \in Parts, c \in Calls : at'[q] = c <=> at[q] = c
      BY <1>1, <1>2, QueueAssumption DEF AsyncInv, TypeOK
    <2>3. \A c \in Calls : LaneOf(c)' = LaneOf(c)
      BY <1>1 DEF LaneOf, Unordered, KeyOf
    <2>4. QED
      BY <1>1, <2>1, <2>2, <2>3, StutterLanes
  <1>3. CASE at[p] # Tick
    <2>1. \E e \in {"ok", "error", "panic"} : ended' = [ended EXCEPT ![at[p]] = e]
      BY <1>1, <1>3 DEF Process, Panic
    <2>2. QED
      BY <1>1, <1>3, <2>1, EndLanes
  <1>4. QED
    BY <1>2, <1>3

LEMMA NextLanes ==
  AsyncInv /\ AsyncInv' /\ Placed /\ Placed' /\ InOrder /\ InOrder' /\ [Next]_vars
    => [Order!Next]_(Order!vars)
  <1> SUFFICES ASSUME AsyncInv, AsyncInv', Placed, Placed', InOrder, InOrder', [Next]_vars
               PROVE  [Order!Next]_(Order!vars)
    OBVIOUS
  <1>1. ASSUME \/ Launch \/ TickFires
               \/ \E p \in Parts : SeeDone(p) \/ Drained(p)
               \/ \E k \in Closers : Close(k) \/ CloseStep(k)
               \/ UNCHANGED vars
        PROVE  UNCHANGED Order!vars
    <2>1. UNCHANGED <<built, at, req, accepted, ended>>
      BY <1>1
      DEF Launch, TickFires, SeeDone, Drained, Close, CloseStep, Signal, CloseReturn, vars,
          workers, calls, deliveries
    <2>2. \A c \in Calls : LaneOf(c)' = LaneOf(c)
      BY <2>1 DEF LaneOf, Unordered, KeyOf
    <2>3. QED
      BY <2>1, <2>2, StutterLanes
  <1>2. ASSUME NEW c \in Calls, NEW r \in MayAsk[c], Invoke(c, r)
        PROVE  UNCHANGED Order!vars
    <2>1. UNCHANGED <<built, at, accepted, ended>> /\ ~Accepted(c)
      BY <1>2 DEF Invoke, workers, Placed, Answered, Accepted
    <2>2. \A d \in Calls : Accepted(d) => LaneOf(d)' = LaneOf(d)
      <3>1. \A d \in Calls : d # c => req'[d] = req[d]
        BY <1>2 DEF Invoke, AsyncInv, TypeOK
      <3>2. QED
        BY <2>1, <3>1 DEF LaneOf, Unordered, KeyOf
    <2>3. QED
      BY <2>1, <2>2, StutterLanes
  <1>3. ASSUME ReceiveTick
        PROVE  UNCHANGED Order!vars
    <2>1. UNCHANGED <<built, req, accepted, ended>>
      BY <1>3 DEF ReceiveTick, calls, deliveries
    <2>2. \A q \in Parts, c \in Calls : at'[q] = c <=> at[q] = c
      <3>1. at[0] = None /\ at' = [at EXCEPT ![0] = Tick]
        BY <1>3, NumberTypes DEF ReceiveTick, AsyncInv, WorkersHold
      <3>2. QED
        BY <3>1, QueueAssumption DEF AsyncInv, TypeOK
    <2>3. \A c \in Calls : LaneOf(c)' = LaneOf(c)
      BY <2>1 DEF LaneOf, Unordered, KeyOf
    <2>4. QED
      BY <2>1, <2>2, <2>3, StutterLanes
  <1>4. ASSUME NEW c \in Calls, NEW failed \in BOOLEAN, Complete(c, failed)
        PROVE  UNCHANGED Order!vars
    <2>1. UNCHANGED <<built, at, req, accepted>>
      BY <1>4 DEF Complete, workers, calls
    <2>2. \A d \in Calls : ended'[d] = "no" <=> ended[d] = "no"
      BY <1>4 DEF Complete, Placed, PendingPlace, AsyncInv, TypeOK
    <2>3. \A d \in Calls : LaneOf(d)' = LaneOf(d)
      BY <2>1 DEF LaneOf, Unordered, KeyOf
    <2>4. QED
      BY <2>1, <2>2, <2>3, StutterLanes
  <1>5. QED
    BY <1>1, <1>2, <1>3, <1>4, SendLanes, ReceiveLanes, PutDownLanes DEF Next, WorkerStep

(* The queue implements ordered lanes: within a key messages run one at a  *)
(* time, in the order accepted, each at most once, through partitions,     *)
(* shutdown and panics.                                                    *)
THEOREM LanesKept == Spec => KeepsLanes
  BY InitLanes, NextLanes, AlwaysAsyncInv, AlwaysPlaced, AlwaysInOrder, PTL
  DEF Spec, KeepsLanes, Order!Spec
=============================================================================
