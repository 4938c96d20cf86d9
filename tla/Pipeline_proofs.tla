--------------------------- MODULE Pipeline_proofs ---------------------------
(***************************************************************************)
(* Proofs about Pipeline, for any buses, queues, capacities, chains and    *)
(* deliveries.  The idea is that a delivery still to be dealt with is      *)
(* somewhere: on a line, in the hand of a hop that has not yet called all  *)
(* that count, or with a deferring subscriber.  Every step leaves these    *)
(* places alone (lemma Staying), or moves the delivery on from one of them *)
(* to at most one other (lemma Passing).                                   *)
(***************************************************************************)
EXTENDS Untapped, SharedLemmas, TLAPS

(* What a hop works on and whom it has still to call.                      *)
AtWork(h) ==
    /\ at[h] = None => todo[h] = {} /\ asking[h] = None
    /\ at[h] # None => todo[h] \subseteq Matching(h, at[h])
    /\ asking[h] # None => /\ asking[h] \in Matching(h, at[h]) \ todo[h]
                           /\ End[asking[h]].kind = "ask"

(* A message that carries a settler belongs to a delivery that arrived, in *)
(* the mode it arrived in, and nobody waits for it.                        *)
Tagged(m) == m.mode # "none" => m.mode = mode[m.d] /\ m.d \in arrived /\ m.asker = None

LineInv ==
    /\ line = [h \in Hops |-> line[h]]
    /\ \A h \in Hops : line[h] \in Seq(Messages) /\ Len(line[h]) <= Capacity[h]

HandInv ==
    /\ at \in [Hops -> Messages \union {None}]
    /\ todo \in [Hops -> SUBSET Subscribers]
    /\ asking \in [Hops -> Subscribers \union {None}]
    /\ \A h \in Hops : AtWork(h)

(* The answers, and the errors a bus keeps for them.                       *)
AnswerInv ==
    /\ answered \in [Hops -> Results \union {"none"}]
    /\ publishError \in [Hops -> Results]

VerdictInv ==
    /\ outcome \in [Deliveries -> Outcomes]
    /\ grounds \in [Deliveries -> SUBSET Grounds]
    /\ \A d \in Deliveries : d \notin arrived => outcome[d] = "open"

ArrivalInv ==
    /\ mode \in [Deliveries -> Modes]
    /\ arrived \subseteq Deliveries
    /\ pending \subseteq Subscribers \X Messages

TagInv ==
    /\ \A h \in Hops, m \in Messages : Occurs(line[h], m) => Tagged(m)
    /\ \A h \in Hops : at[h] # None => Tagged(at[h])
    /\ \A w \in pending : Tagged(w[2])

PipeInv == LineInv /\ HandInv /\ VerdictInv /\ ArrivalInv /\ TagInv

(* Verdicts have grounds.                                                  *)
Grounded ==
    \A d \in Deliveries :
        /\ outcome[d] = "ack" =>
              Automatic(d) /\ grounds[d] \intersect {"handled", "filtered", "unwanted"} # {}
        /\ outcome[d] = "nack" => grounds[d] \intersect {"failed", "refused", "unhandled", "tapped"} # {}

(* The places where a delivery is still to be dealt with.  On a bus those  *)
(* that take the message up count; a queue has one subscriber only.        *)
Counted(h, m) == IF h \in Queues THEN Matching(h, m) ELSE Takers(h, m)
Rests(h) ==
    \/ \E s \in Counted(h, at[h]) : s \in todo[h] \/ s = asking[h]
    \/ h \in Buses /\ Takers(h, at[h]) = {}

Carrying(d) == {m \in Messages : Carries(m, d)}
OnceIn(q, S) == \A i, j \in DOMAIN q : q[i] \in S /\ q[j] \in S => i = j
OnceOn(h, d) == OnceIn(line[h], Carrying(d))

Lining(d) == {h \in Hops : \E m \in Carrying(d) : Occurs(line[h], m)}
Handling(d) == {h \in Hops : Carries(at[h], d) /\ Rests(h)}
Working(d) == {w \in pending : Carries(w[2], d)}

LineToken(h) == <<"line", h>>
HandToken(h) == <<"hand", h>>
WorkToken(w) == <<"work", w>>
Spots(L, H, W) ==
    {LineToken(h) : h \in L} \union {HandToken(h) : h \in H} \union {WorkToken(w) : w \in W}
Tokens(d) == Spots(Lining(d), Handling(d), Working(d))

(* A message with two takers counts as fanned out.                         *)
Shared(h) ==
    at[h] # None /\ at[h].mode # "none" /\ (\E s, t \in Takers(h, at[h]) : s # t)
        => "fanned" \in grounds[at[h].d]

(* A delivery nobody shares out is in one place, and once it is settled in *)
(* none.                                                                   *)
SingleOf(d) ==
    "fanned" \notin grounds[d] =>
        /\ \A x, y \in Tokens(d) : x = y
        /\ \A h \in Hops : OnceOn(h, d)
        /\ outcome[d] # "open" => Tokens(d) = {}

SingleInv == (\A h \in Hops : Shared(h)) /\ \A d \in Deliveries : SingleOf(d)

(* An automatic delivery that is open is somewhere, or was abandoned.      *)
CustodyOf(d) ==
    Automatic(d) /\ outcome[d] = "open" /\ "abandoned" \notin grounds[d] => Tokens(d) # {}

CustodyInv == \A d \in Deliveries : CustodyOf(d)

-----------------------------------------------------------------------------
(* Messages and lines.                                                     *)

LEMMA MessageParts ==
  ASSUME NEW m \in Messages
  PROVE  /\ m # None /\ m.d \in Deliveries /\ m.topic \in Topics /\ m.mode \in Modes
         /\ m.asker \in Hops \union {None}
  BY PipelineAssumption DEF Messages

(* What comes out of a chain is the message under another topic.           *)
LEMMA GivenMessage ==
  ASSUME NEW h \in Hops, NEW s \in Subscribers, at[h] \in Messages, Arriving(h, s) # None
  PROVE  /\ Given(h, s) \in Messages /\ Arriving(h, s) \in Topics
         /\ Given(h, s).d = at[h].d /\ Given(h, s).mode = at[h].mode
         /\ Given(h, s).asker = None
         /\ \A g \in Hops : [Given(h, s) EXCEPT !.mode = "none", !.asker = g] \in Messages
  <1>1. Arriving(h, s) \in Topics
    <2>1. at[h].topic \in Topics
      BY MessageParts
    <2>2. QED
      BY <2>1, PipelineAssumption DEF Arriving
  <1>2. QED
    BY <1>1 DEF Given, Messages, Modes

Sends(q, n) == Room(q) /\ line' = [line EXCEPT ![q] = Append(@, n)]

LEMMA SentLine ==
  ASSUME LineInv, NEW q \in Hops, NEW n \in Messages, Sends(q, n)
  PROVE  /\ LineInv'
         /\ \A h \in Hops, m \in Messages :
               Occurs(line'[h], m) <=> Occurs(line[h], m) \/ (h = q /\ m = n)
  <1>1. /\ line[q] \in Seq(Messages) /\ Len(line[q]) < Capacity[q] /\ Capacity[q] \in Nat
        /\ line' = [h \in Hops |-> IF h = q THEN Append(line[q], n) ELSE line[h]]
    BY PipelineAssumption DEF LineInv, Sends, Room
  <1>2. /\ Append(line[q], n) \in Seq(Messages) /\ Len(Append(line[q], n)) = Len(line[q]) + 1
        /\ \A m : Occurs(Append(line[q], n), m) <=> Occurs(line[q], m) \/ n = m
    BY <1>1, AppendOccurs
  <1>3. Len(line[q]) + 1 <= Capacity[q]
    <2>1. Len(line[q]) \in Nat
      BY <1>1
    <2>2. QED
      BY <1>1, <2>1
  <1>4. LineInv'
    BY <1>1, <1>2, <1>3 DEF LineInv
  <1>5. \A h \in Hops, m \in Messages :
           Occurs(line'[h], m) <=> Occurs(line[h], m) \/ (h = q /\ m = n)
    BY <1>1, <1>2
  <1>6. QED
    BY <1>4, <1>5

LEMMA TakenLine ==
  ASSUME LineInv, NEW q \in Hops, line[q] # <<>>, line' = [line EXCEPT ![q] = Tail(@)]
  PROVE  /\ LineInv' /\ Head(line[q]) \in Messages
         /\ Occurs(line[q], Head(line[q]))
         /\ \A h \in Hops, m \in Messages : Occurs(line'[h], m) => Occurs(line[h], m)
         /\ \A h \in Hops, m \in Messages :
               Occurs(line[h], m) => Occurs(line'[h], m) \/ (h = q /\ m = Head(line[q]))
  <1>1. /\ line[q] \in Seq(Messages) /\ Len(line[q]) <= Capacity[q] /\ Capacity[q] \in Nat
        /\ line' = [h \in Hops |-> IF h = q THEN Tail(line[q]) ELSE line[h]]
    BY PipelineAssumption DEF LineInv
  <1>2. /\ Head(line[q]) \in Messages /\ Tail(line[q]) \in Seq(Messages)
        /\ Len(Tail(line[q])) <= Len(line[q]) /\ Occurs(line[q], Head(line[q]))
        /\ \A m : Occurs(line[q], m) <=> Head(line[q]) = m \/ Occurs(Tail(line[q]), m)
    BY <1>1, TailOccurs
  <1>3. Len(Tail(line[q])) <= Capacity[q]
    <2>1. Len(line[q]) \in Nat /\ Len(Tail(line[q])) \in Nat
      BY <1>1, <1>2
    <2>2. QED
      BY <1>1, <1>2, <2>1
  <1>4. LineInv'
    BY <1>1, <1>2, <1>3 DEF LineInv
  <1>5. QED
    BY <1>1, <1>2, <1>4

-----------------------------------------------------------------------------
(* Verdicts.  A step settles at most the delivery of one message, which    *)
(* must carry its settler, and the first verdict stays.                    *)

SettlesAt(m) ==
    \E o \in Outcomes :
        /\ outcome' = [outcome EXCEPT ![m.d] = o]
        /\ m.mode = "none" \/ outcome[m.d] # "open" => o = outcome[m.d]

LEMMA SettlePointOutcome ==
  ASSUME NEW k, NEW o \in Outcomes, NEW d, NEW failed \in BOOLEAN
  PROVE  /\ SettleOnReturn(k, o, d, failed) \in Outcomes /\ SettleRefused(k, o) \in Outcomes
         /\ k = "none" \/ o # "open" =>
               SettleOnReturn(k, o, d, failed) = o /\ SettleRefused(k, o) = o
  BY DEF SettleOnReturn, SettleRefused, Settle, Outcomes

LEMMA NothingSettled ==
  ASSUME VerdictInv, NEW m \in Messages, UNCHANGED outcome
  PROVE  SettlesAt(m)
  <1>1. m.d \in Deliveries /\ outcome \in [Deliveries -> Outcomes]
    BY MessageParts DEF VerdictInv
  <1>2. outcome[m.d] \in Outcomes /\ outcome' = [outcome EXCEPT ![m.d] = outcome[m.d]]
    BY <1>1
  <1>3. QED
    BY <1>2 DEF SettlesAt

LEMMA RefusedAt ==
  ASSUME VerdictInv, NEW m \in Messages, NEW why, Refuses(m, why)
  PROVE  SettlesAt(m)
  <1>1. m.d \in Deliveries /\ outcome[m.d] \in Outcomes
    BY MessageParts DEF VerdictInv
  <1>2. QED
    BY <1>1, SettlePointOutcome DEF Refuses, SettlesAt

LEMMA ReturnedAt ==
  ASSUME VerdictInv, NEW m \in Messages, NEW s, NEW failed \in BOOLEAN, Settles(m, s, failed)
  PROVE  SettlesAt(m)
  <1>1. m.d \in Deliveries /\ outcome[m.d] \in Outcomes
    BY MessageParts DEF VerdictInv
  <1>2. outcome' = [outcome EXCEPT ![m.d] = After(m, s, failed, outcome[m.d])]
    BY DEF Settles
  <1>3. /\ After(m, s, failed, outcome[m.d]) \in Outcomes
        /\ m.mode = "none" \/ outcome[m.d] # "open"
              => After(m, s, failed, outcome[m.d]) = outcome[m.d]
    <2>1. /\ SettleOnReturn(m.mode, outcome[m.d], Disposition[s], failed) \in Outcomes
          /\ m.mode = "none" \/ outcome[m.d] # "open" =>
                SettleOnReturn(m.mode, outcome[m.d], Disposition[s], failed) = outcome[m.d]
      BY <1>1, SettlePointOutcome
    <2>2. QED
      BY <1>1, <2>1 DEF After
  <1>4. QED
    BY <1>2, <1>3 DEF SettlesAt

LEMMA WorkedAt ==
  ASSUME VerdictInv, NEW m \in Messages, NEW failed \in BOOLEAN,
         outcome' = [outcome EXCEPT ![m.d] = SettleOnReturn(m.mode, @, "handled", failed)]
  PROVE  SettlesAt(m)
  <1> DEFINE o == SettleOnReturn(m.mode, outcome[m.d], "handled", failed)
  <1>1. outcome[m.d] \in Outcomes
    BY MessageParts DEF VerdictInv
  <1>2. o \in Outcomes /\ (m.mode = "none" \/ outcome[m.d] # "open" => o = outcome[m.d])
    BY <1>1, SettlePointOutcome, ZenonT(40)
  <1>3. outcome' = [outcome EXCEPT ![m.d] = o]
    OBVIOUS
  <1> HIDE DEF o
  <1>4. QED
    BY <1>2, <1>3 DEF SettlesAt

(* The grounds a step may note.                                            *)
LEMMA NotedGrounds ==
  ASSUME VerdictInv, NEW m \in Messages, NEW g \in SUBSET Grounds, Note(m, g)
  PROVE  /\ grounds' \in [Deliveries -> SUBSET Grounds]
         /\ \A d \in Deliveries :
               grounds'[d] =
                   IF d = m.d /\ m.mode # "none" THEN grounds[d] \union g ELSE grounds[d]
  BY MessageParts DEF VerdictInv, Note

LEMMA VerdictStep ==
  ASSUME VerdictInv, NEW m \in Messages, Tagged(m), SettlesAt(m), UNCHANGED arrived,
         grounds' \in [Deliveries -> SUBSET Grounds]
  PROVE  VerdictInv'
  <1>1. PICK o \in Outcomes : /\ outcome' = [outcome EXCEPT ![m.d] = o]
                              /\ m.mode = "none" => o = outcome[m.d]
    BY DEF SettlesAt
  <1>2. outcome' \in [Deliveries -> Outcomes]
    BY <1>1 DEF VerdictInv
  <1>3. \A d \in Deliveries : d \notin arrived => outcome'[d] = "open"
    BY <1>1 DEF VerdictInv, Tagged
  <1>4. QED
    BY <1>2, <1>3 DEF VerdictInv

-----------------------------------------------------------------------------
(* Every step keeps the types and the tags.                                *)

LEMMA AtHand ==
  ASSUME PipeInv, NEW h \in Hops, at[h] # None
  PROVE  at[h] \in Messages /\ Tagged(at[h])
  BY DEF PipeInv, HandInv, TagInv

LEMMA Called ==
  ASSUME PipeInv, NEW h \in Hops, NEW s \in todo[h], Begins(h, s)
  PROVE  /\ at[h] \in Messages /\ Tagged(at[h])
         /\ s \in Subscribers /\ s \in Matching(h, at[h])
  <1>1. at[h] # None /\ AtWork(h) /\ todo[h] \in SUBSET Subscribers
    BY DEF PipeInv, HandInv, Begins
  <1>2. QED
    BY <1>1, AtHand DEF AtWork

LEMMA HandCall ==
  ASSUME PipeInv, NEW h \in Hops, NEW s \in todo[h], Begins(h, s),
         UNCHANGED <<at, asking, answered>>
  PROVE  HandInv'
  <1>1. todo' = [todo EXCEPT ![h] = @ \ {s}] /\ asking[h] = None /\ at[h] # None
    BY DEF Begins
  <1>2. todo' \in [Hops -> SUBSET Subscribers]
    BY <1>1 DEF PipeInv, HandInv
  <1>3. \A g \in Hops : todo'[g] \subseteq todo[g]
    BY <1>1 DEF PipeInv, HandInv
  <1>4. ASSUME NEW g \in Hops PROVE AtWork(g)'
    <2>1. AtWork(g)
      BY DEF PipeInv, HandInv
    <2>2. QED
      BY <1>3, <2>1 DEF AtWork, Matching
  <1>5. QED
    BY <1>2, <1>4 DEF PipeInv, HandInv

LEMMA TagKept ==
  ASSUME TagInv, UNCHANGED <<mode, arrived>>,
         \A g \in Hops, m \in Messages :
             Occurs(line'[g], m) => Occurs(line[g], m) \/ Tagged(m),
         \A g \in Hops : at'[g] # None => at'[g] = at[g] \/ Tagged(at'[g]),
         \A w \in pending' : w \in pending \/ Tagged(w[2])
  PROVE  TagInv'
  <1>1. \A m : Tagged(m) => (m.mode # "none" =>
            m.mode = mode'[m.d] /\ m.d \in arrived' /\ m.asker = None)
    BY DEF Tagged
  <1>2. \A g \in Hops, m \in Messages : Occurs(line'[g], m) => Tagged(m)
    BY DEF TagInv
  <1>3. \A g \in Hops : at'[g] # None => Tagged(at'[g])
    BY DEF TagInv
  <1>4. \A w \in pending' : Tagged(w[2])
    BY DEF TagInv
  <1>5. QED
    BY <1>1, <1>2, <1>3, <1>4 DEF TagInv, Tagged

(* A call that puts nothing on a line and leaves nothing for later.        *)
LEMMA PlainCallKeeps ==
  ASSUME PipeInv, NEW h \in Hops, NEW s \in todo[h], NEW failed \in BOOLEAN,
         Begins(h, s), Settles(at[h], s, failed), NEW g \in SUBSET Grounds, Note(at[h], g),
         UNCHANGED <<line, at, asking, answered, mode, arrived, pending>>
  PROVE  PipeInv'
  <1>1. at[h] \in Messages /\ Tagged(at[h])
    BY Called
  <1>2. LineInv /\ VerdictInv /\ ArrivalInv /\ TagInv
    BY DEF PipeInv
  <1>3. HandInv'
    BY HandCall
  <1>4. VerdictInv'
    BY <1>1, <1>2, ReturnedAt, NotedGrounds, VerdictStep
  <1>5. LineInv' /\ ArrivalInv'
    BY <1>2 DEF LineInv, ArrivalInv
  <1>6. TagInv'
    BY <1>2, TagKept
  <1>7. QED
    BY <1>3, <1>4, <1>5, <1>6 DEF PipeInv

LEMMA DroppedNotes ==
  ASSUME PipeInv, NEW h \in Hops, NEW s \in Subscribers, CallDropped(h, s)
  PROVE  \E g \in SUBSET {"filtered", "abandoned"} :
            /\ Note(at[h], g)
            /\ Disposition[s] = "handled" => g = {"filtered"}
            /\ Disposition[s] = "deferred" => g = {"abandoned"}
            /\ Disposition[s] = "observed" => g = (IF h \in Queues THEN {"abandoned"} ELSE {})
  <1>1. Disposition[s] \in {"handled", "deferred", "observed"}
    BY PipelineAssumption DEF Dispositions
  <1>2. CASE Disposition[s] = "handled"
    BY <1>2 DEF CallDropped
  <1>3. CASE Disposition[s] = "deferred"
    BY <1>3 DEF CallDropped
  <1>4. CASE Disposition[s] = "observed"
    BY <1>4 DEF CallDropped
  <1>5. QED
    BY <1>1, <1>2, <1>3, <1>4

LEMMA CallDroppedKeeps ==
  ASSUME PipeInv, NEW h \in Hops, NEW s \in todo[h], CallDropped(h, s)
  PROVE  PipeInv'
  <1>1. /\ Begins(h, s) /\ Settles(at[h], s, FALSE)
        /\ UNCHANGED <<line, at, asking, answered, mode, arrived, pending>>
    BY DEF CallDropped
  <1>2. PICK g \in SUBSET {"filtered", "abandoned"} : Note(at[h], g)
    BY <1>1, Called, DroppedNotes
  <1>3. g \in SUBSET Grounds
    BY DEF Grounds
  <1>4. QED
    BY <1>1, <1>2, <1>3, PlainCallKeeps

LEMMA CallObserverKeeps ==
  ASSUME PipeInv, NEW h \in Hops, NEW s \in todo[h], NEW failed \in BOOLEAN,
         CallObserver(h, s, failed)
  PROVE  PipeInv'
  <1>1. /\ Begins(h, s) /\ Settles(at[h], s, failed)
        /\ Note(at[h], IF h \in Queues THEN {"abandoned"} ELSE {})
        /\ UNCHANGED <<line, at, asking, answered, mode, arrived, pending>>
    BY DEF CallObserver
  <1>2. (IF h \in Queues THEN {"abandoned"} ELSE {}) \in SUBSET Grounds
    BY DEF Grounds
  <1>3. QED
    BY <1>1, <1>2, PlainCallKeeps

LEMMA CallHandlerKeeps ==
  ASSUME PipeInv, NEW h \in Hops, NEW s \in todo[h], NEW failed \in BOOLEAN,
         CallHandler(h, s, failed)
  PROVE  PipeInv'
  <1>1. /\ Begins(h, s) /\ Settles(at[h], s, failed)
        /\ Note(at[h], IF failed THEN {"failed"} ELSE {"handled"})
        /\ UNCHANGED <<line, at, asking, answered, mode, arrived, pending>>
    BY DEF CallHandler
  <1>2. (IF failed THEN {"failed"} ELSE {"handled"}) \in SUBSET Grounds
    BY DEF Grounds
  <1>3. QED
    BY <1>1, <1>2, PlainCallKeeps

LEMMA CallDeferrerKeeps ==
  ASSUME PipeInv, NEW h \in Hops, NEW s \in todo[h], NEW failed \in BOOLEAN,
         CallDeferrer(h, s, failed)
  PROVE  PipeInv'
  <1>1. /\ Begins(h, s) /\ Settles(at[h], s, failed) /\ Arriving(h, s) # None
        /\ Note(at[h], IF failed THEN {"failed"} ELSE {})
        /\ pending' = IF failed THEN pending ELSE pending \union {<<s, Given(h, s)>>}
        /\ UNCHANGED <<line, at, asking, answered, mode, arrived>>
    BY DEF CallDeferrer
  <1>2. at[h] \in Messages /\ Tagged(at[h]) /\ s \in Subscribers
    BY <1>1, Called
  <1>3. LineInv /\ VerdictInv /\ ArrivalInv /\ TagInv
    BY DEF PipeInv
  <1>4. HandInv'
    BY <1>1, HandCall
  <1>5. VerdictInv'
    <2>1. (IF failed THEN {"failed"} ELSE {}) \in SUBSET Grounds
      BY DEF Grounds
    <2>2. QED
      BY <1>1, <1>2, <1>3, <2>1, ReturnedAt, NotedGrounds, VerdictStep
  <1>6. Given(h, s) \in Messages /\ Tagged(Given(h, s))
    BY <1>1, <1>2, GivenMessage DEF Tagged
  <1>7. LineInv' /\ ArrivalInv'
    BY <1>1, <1>2, <1>3, <1>6 DEF LineInv, ArrivalInv
  <1>8. TagInv'
    BY <1>1, <1>3, <1>6, TagKept
  <1>9. QED
    BY <1>4, <1>5, <1>7, <1>8 DEF PipeInv

(* A call that hands the message on to another hop, or finds it full.      *)
LEMMA HandsOn ==
  ASSUME PipeInv, NEW h \in Hops, NEW q \in Hops, NEW n \in Messages, Tagged(n),
         line' = IF Room(q) THEN [line EXCEPT ![q] = Append(@, n)] ELSE line,
         UNCHANGED <<at, mode, arrived, pending>>
  PROVE  /\ LineInv' /\ ArrivalInv' /\ TagInv'
         /\ ~Room(q) => line' = line
         /\ Room(q) => Sends(q, n)
  <1>1. LineInv /\ ArrivalInv /\ TagInv
    BY DEF PipeInv
  <1>2. ArrivalInv'
    BY <1>1 DEF ArrivalInv
  <1>3. CASE Room(q)
    <2>1. Sends(q, n)
      BY <1>3 DEF Sends
    <2>2. LineInv' /\ \A g \in Hops, m \in Messages :
               Occurs(line'[g], m) <=> Occurs(line[g], m) \/ (g = q /\ m = n)
      BY <1>1, <2>1, SentLine
    <2>3. TagInv'
      BY <1>1, <2>2, TagKept
    <2>4. QED
      BY <1>2, <1>3, <2>1, <2>2, <2>3
  <1>4. CASE ~Room(q)
    <2>1. line' = line
      BY <1>4
    <2>2. LineInv'
      BY <1>1, <2>1 DEF LineInv
    <2>3. TagInv'
      BY <1>1, <2>1, TagKept
    <2>4. QED
      BY <1>2, <1>4, <2>1, <2>2, <2>3
  <1>5. QED
    BY <1>3, <1>4

LEMMA CallQueueKeeps ==
  ASSUME PipeInv, NEW h \in Hops, NEW s \in todo[h], CallQueue(h, s)
  PROVE  PipeInv'
  <1> DEFINE q == End[s].parts[Arriving(h, s)]
  <1>1. /\ Begins(h, s) /\ Arriving(h, s) # None /\ End[s].kind = "queue"
        /\ Settles(at[h], s, ~Room(q))
        /\ line' = IF Room(q) THEN [line EXCEPT ![q] = Append(@, Given(h, s))] ELSE line
        /\ Note(at[h], IF Room(q) THEN {} ELSE {"refused"})
        /\ UNCHANGED <<at, asking, answered, mode, arrived, pending>>
    BY DEF CallQueue
  <1>2. at[h] \in Messages /\ Tagged(at[h]) /\ s \in Subscribers
    BY <1>1, Called
  <1>3. /\ Given(h, s) \in Messages /\ Tagged(Given(h, s))
        /\ Arriving(h, s) \in Topics
    BY <1>1, <1>2, GivenMessage DEF Tagged
  <1>4. q \in Hops
    BY <1>1, <1>2, <1>3, PipelineAssumption DEF Hops
  <1> HIDE DEF q
  <1>5. LineInv' /\ ArrivalInv' /\ TagInv'
    BY <1>1, <1>3, <1>4, HandsOn
  <1>6. HandInv'
    BY <1>1, HandCall
  <1>7. VerdictInv'
    <2>1. (IF Room(q) THEN {} ELSE {"refused"}) \in SUBSET Grounds /\ (~Room(q)) \in BOOLEAN
      BY DEF Grounds
    <2>2. SettlesAt(at[h])
      BY <1>1, <1>2, <2>1, ReturnedAt DEF PipeInv
    <2>3. QED
      BY <1>1, <1>2, <2>1, <2>2, NotedGrounds, VerdictStep DEF PipeInv
  <1>8. QED
    BY <1>5, <1>6, <1>7 DEF PipeInv

(* A bus that is full settles at once, and its publisher's settle point    *)
(* adds nothing to that, for a bus defers.                                 *)
LEMMA BusSettles ==
  ASSUME PipeInv, NEW h \in Hops, NEW s \in todo[h], CallBus(h, s)
  PROVE  /\ SettlesAt(at[h])
         /\ outcome' = [outcome EXCEPT ![at[h].d] =
                          IF Room(End[s].bus) THEN @ ELSE SettleRefused(at[h].mode, @)]
  <1> DEFINE o == outcome[at[h].d]
             said == IF Room(End[s].bus) THEN o ELSE SettleRefused(at[h].mode, o)
  <1>1. /\ Begins(h, s) /\ End[s].kind = "bus"
        /\ outcome' = [outcome EXCEPT ![at[h].d] = After(at[h], s, FALSE, said)]
    BY DEF CallBus
  <1>2. at[h] \in Messages /\ s \in Subscribers
    BY <1>1, Called
  <1>3. o \in Outcomes
    BY <1>2, MessageParts DEF PipeInv, VerdictInv
  <1>4. Disposition[s] = "deferred"
    BY <1>1, <1>2, PipelineAssumption
  <1>5. After(at[h], s, FALSE, said) = said
    BY <1>4 DEF After, SettleOnReturn
  <1>6. said \in Outcomes /\ (at[h].mode = "none" \/ o # "open" => said = o)
    BY <1>3, SettlePointOutcome
  <1>7. QED
    BY <1>1, <1>5, <1>6 DEF SettlesAt

LEMMA CallBusKeeps ==
  ASSUME PipeInv, NEW h \in Hops, NEW s \in todo[h], CallBus(h, s)
  PROVE  PipeInv'
  <1> DEFINE b == End[s].bus
  <1>1. /\ Begins(h, s) /\ Arriving(h, s) # None /\ End[s].kind = "bus"
        /\ line' = IF Room(b) THEN [line EXCEPT ![b] = Append(@, Given(h, s))] ELSE line
        /\ Note(at[h], IF Room(b) THEN {} ELSE {"refused"})
        /\ UNCHANGED <<at, asking, answered, mode, arrived, pending>>
    BY DEF CallBus
  <1>2. at[h] \in Messages /\ Tagged(at[h]) /\ s \in Subscribers
    BY <1>1, Called
  <1>3. Given(h, s) \in Messages /\ Tagged(Given(h, s))
    BY <1>1, <1>2, GivenMessage DEF Tagged
  <1>4. b \in Hops
    BY <1>1, <1>2, PipelineAssumption DEF Hops
  <1>5. SettlesAt(at[h])
    BY BusSettles
  <1> HIDE DEF b
  <1>6. LineInv' /\ ArrivalInv' /\ TagInv'
    BY <1>1, <1>3, <1>4, HandsOn
  <1>7. HandInv'
    BY <1>1, HandCall
  <1>8. VerdictInv'
    <2>1. (IF Room(b) THEN {} ELSE {"refused"}) \in SUBSET Grounds
      BY DEF Grounds
    <2>2. QED
      BY <1>1, <1>2, <1>5, <2>1, NotedGrounds, VerdictStep DEF PipeInv
  <1>9. QED
    BY <1>6, <1>7, <1>8 DEF PipeInv

LEMMA AskKeeps ==
  ASSUME PipeInv, NEW h \in Hops, NEW s \in todo[h], Ask(h, s)
  PROVE  PipeInv'
  <1> DEFINE b == End[s].bus
             n == [Given(h, s) EXCEPT !.mode = "none", !.asker = h]
  <1>1. /\ Begins(h, s) /\ Arriving(h, s) # None /\ End[s].kind = "ask"
        /\ asking' = [asking EXCEPT ![h] = s]
        /\ \/ Room(b) /\ line' = [line EXCEPT ![b] = Append(@, n)] /\ UNCHANGED answered
           \/ ~Room(b) /\ answered' = [answered EXCEPT ![h] = "error"] /\ UNCHANGED line
        /\ UNCHANGED <<at, mode, arrived, outcome, pending, grounds>>
    BY DEF Ask, deliveries
  <1>2. at[h] \in Messages /\ s \in Subscribers /\ s \in Matching(h, at[h])
    BY <1>1, Called
  <1>3. n \in Messages /\ b \in Hops
    <2>1. n \in Messages
      BY <1>1, <1>2, GivenMessage
    <2>2. QED
      BY <1>1, <1>2, <2>1, PipelineAssumption DEF Hops
  <1>4. Tagged(n)
    <2>1. n.mode = "none"
      BY <1>1, <1>2 DEF Given
    <2>2. QED
      BY <2>1 DEF Tagged
  <1> HIDE DEF n, b
  <1>5. LineInv' /\ ArrivalInv' /\ TagInv'
    BY <1>1, <1>3, <1>4, HandsOn
  <1>6. HandInv'
    <2>1. /\ todo' = [todo EXCEPT ![h] = @ \ {s}] /\ asking[h] = None /\ at[h] # None
      BY <1>1 DEF Begins
    <2>2. todo' \in [Hops -> SUBSET Subscribers]
      BY <2>1 DEF PipeInv, HandInv
    <2>3. asking' \in [Hops -> Subscribers \union {None}]
      BY <1>1, <1>2 DEF PipeInv, HandInv
    <2>4. ASSUME NEW g \in Hops PROVE AtWork(g)'
      <3>1. AtWork(g)
        BY DEF PipeInv, HandInv
      <3>2. CASE g = h
        <4>1. asking'[g] = s /\ todo'[g] = todo[g] \ {s}
          BY <1>1, <2>1, <3>2 DEF PipeInv, HandInv
        <4>2. QED
          BY <1>1, <1>2, <2>1, <3>1, <3>2, <4>1 DEF AtWork, Matching
      <3>3. CASE g # h
        <4>1. asking'[g] = asking[g] /\ todo'[g] = todo[g]
          BY <1>1, <2>1, <3>3 DEF PipeInv, HandInv
        <4>2. QED
          BY <1>1, <3>1, <4>1 DEF AtWork, Matching
      <3>4. QED
        BY <3>2, <3>3
    <2>5. QED
      BY <1>1, <2>2, <2>3, <2>4 DEF PipeInv, HandInv
  <1>7. VerdictInv'
    BY <1>1 DEF PipeInv, VerdictInv
  <1>8. QED
    BY <1>5, <1>6, <1>7 DEF PipeInv

(* What is noted of the handler that asked is what it makes of the answer. *)
LEMMA MadeNotes ==
  ASSUME NEW h \in Hops, NEW failed \in BOOLEAN, AskReturns(h, failed)
  PROVE  \E g \in SUBSET {"handled", "tapped", "failed"} :
            /\ Note(at[h], g)
            /\ ~failed => g = {"handled"}
            /\ failed => g \in {{"tapped"}, {"failed"}}
  <1>1. CASE Makes(h, failed) = "ok"
    BY <1>1 DEF AskReturns, Makes
  <1>2. CASE Makes(h, failed) = "tap"
    BY <1>2 DEF AskReturns, Makes
  <1>3. CASE Makes(h, failed) = "error"
    BY <1>3 DEF AskReturns, Makes
  <1>4. QED
    BY <1>1, <1>2, <1>3 DEF Makes

LEMMA AskReturnsKeeps ==
  ASSUME PipeInv, NEW h \in Hops, NEW failed \in BOOLEAN, AskReturns(h, failed)
  PROVE  PipeInv'
  <1>1. /\ asking[h] # None
        /\ Settles(at[h], asking[h], failed)
        /\ asking' = [asking EXCEPT ![h] = None]
        /\ UNCHANGED <<line, at, todo, mode, arrived, pending>>
    BY DEF AskReturns
  <1>2. at[h] # None
    BY <1>1 DEF PipeInv, HandInv, AtWork
  <1>3. at[h] \in Messages /\ Tagged(at[h])
    BY <1>2, AtHand
  <1>4. HandInv'
    <2>1. asking' \in [Hops -> Subscribers \union {None}]
      BY <1>1 DEF PipeInv, HandInv
    <2>2. ASSUME NEW g \in Hops PROVE AtWork(g)'
      <3>1. AtWork(g) /\ (asking'[g] = None \/ asking'[g] = asking[g])
        BY <1>1 DEF PipeInv, HandInv
      <3>2. QED
        BY <1>1, <3>1 DEF AtWork, Matching
    <2>3. QED
      BY <1>1, <2>1, <2>2 DEF PipeInv, HandInv
  <1>5. VerdictInv'
    <2>1. PICK g \in SUBSET {"handled", "tapped", "failed"} : Note(at[h], g)
      BY MadeNotes
    <2>2. g \in SUBSET Grounds
      BY DEF Grounds
    <2>3. QED
      BY <1>1, <1>3, <2>1, <2>2, ReturnedAt, NotedGrounds, VerdictStep DEF PipeInv
  <1>6. LineInv' /\ ArrivalInv'
    BY <1>1 DEF PipeInv, LineInv, ArrivalInv
  <1>7. TagInv'
    BY <1>1, TagKept DEF PipeInv
  <1>8. QED
    BY <1>4, <1>5, <1>6, <1>7 DEF PipeInv

LEMMA TakeKeeps ==
  ASSUME PipeInv, NEW h \in Hops, Take(h)
  PROVE  PipeInv'
  <1> DEFINE m == Head(line[h])
             shared == \E s, t \in Takers(h, m) : s # t
  <1>1. /\ at[h] = None /\ line[h] # <<>>
        /\ at' = [at EXCEPT ![h] = m]
        /\ todo' = [todo EXCEPT ![h] = Matching(h, m)]
        /\ Note(m, IF shared THEN {"fanned"} ELSE {})
        /\ line' = [line EXCEPT ![h] = Tail(@)]
        /\ UNCHANGED <<asking, answered, mode, arrived, outcome, pending>>
    BY DEF Take
  <1>2. LineInv /\ VerdictInv /\ ArrivalInv /\ TagInv
    BY DEF PipeInv
  <1>3. /\ LineInv' /\ m \in Messages /\ Occurs(line[h], m)
        /\ \A g \in Hops, n \in Messages : Occurs(line'[g], n) => Occurs(line[g], n)
    BY <1>1, <1>2, TakenLine
  <1>4. Tagged(m)
    BY <1>2, <1>3 DEF TagInv
  <1>5. Matching(h, m) \in SUBSET Subscribers
    BY PipelineAssumption DEF Matching, Hops
  <1> HIDE DEF m
  <1>6. HandInv'
    <2>1. at' \in [Hops -> Messages \union {None}] /\ todo' \in [Hops -> SUBSET Subscribers]
      BY <1>1, <1>3, <1>5 DEF PipeInv, HandInv
    <2>2. ASSUME NEW g \in Hops PROVE AtWork(g)'
      <3>1. AtWork(g)
        BY DEF PipeInv, HandInv
      <3>2. CASE g = h
        <4>1. at'[g] = m /\ todo'[g] = Matching(h, m) /\ asking'[g] = None
          BY <1>1, <3>1, <3>2 DEF PipeInv, HandInv, AtWork
        <4>2. m # None
          BY <1>3, MessageParts
        <4>3. QED
          BY <3>2, <4>1, <4>2 DEF AtWork, Matching
      <3>3. CASE g # h
        <4>1. at'[g] = at[g] /\ todo'[g] = todo[g] /\ asking'[g] = asking[g]
          BY <1>1, <3>3 DEF PipeInv, HandInv
        <4>2. QED
          BY <3>1, <4>1 DEF AtWork, Matching
      <3>4. QED
        BY <3>2, <3>3
    <2>3. QED
      BY <1>1, <2>1, <2>2 DEF PipeInv, HandInv
  <1>7. VerdictInv'
    <2>1. (IF shared THEN {"fanned"} ELSE {}) \in SUBSET Grounds
      BY DEF Grounds
    <2>2. QED
      BY <1>1, <1>2, <1>3, <1>4, <2>1, NothingSettled, NotedGrounds, VerdictStep
  <1>8. ArrivalInv'
    BY <1>1, <1>2 DEF ArrivalInv
  <1>9. TagInv'
    <2>1. \A g \in Hops : at'[g] = at[g] \/ at'[g] = m
      BY <1>1 DEF PipeInv, HandInv
    <2>2. QED
      BY <1>1, <1>2, <1>3, <1>4, <2>1, TagKept
  <1>10. QED
    BY <1>3, <1>6, <1>7, <1>8, <1>9 DEF PipeInv

LEMMA CompleteKeeps ==
  ASSUME PipeInv, NEW w \in pending, NEW failed \in BOOLEAN, Complete(w[1], w[2], failed)
  PROVE  PipeInv'
  <1> DEFINE m == w[2]
  <1>1. /\ pending' \subseteq pending
        /\ outcome' = [outcome EXCEPT ![m.d] = SettleOnReturn(m.mode, @, "handled", failed)]
        /\ Note(m, IF failed THEN {"failed"} ELSE {"handled"})
        /\ UNCHANGED <<line, at, todo, asking, answered, mode, arrived>>
    BY DEF Complete, hops
  <1>2. m \in Messages /\ Tagged(m)
    BY DEF PipeInv, ArrivalInv, TagInv
  <1>3. SettlesAt(m)
    BY <1>1, <1>2, WorkedAt DEF PipeInv
  <1>4. VerdictInv'
    <2>1. (IF failed THEN {"failed"} ELSE {"handled"}) \in SUBSET Grounds
      BY DEF Grounds
    <2>2. QED
      BY <1>1, <1>2, <1>3, <2>1, NotedGrounds, VerdictStep DEF PipeInv
  <1>5. LineInv' /\ ArrivalInv'
    BY <1>1 DEF PipeInv, LineInv, ArrivalInv
  <1>6. HandInv'
    BY <1>1 DEF PipeInv, HandInv, AtWork, Matching
  <1>7. TagInv'
    BY <1>1, TagKept DEF PipeInv
  <1>8. QED
    BY <1>4, <1>5, <1>6, <1>7 DEF PipeInv

(* What accept leaves behind, whether there is room or not.                *)
LEMMA Accepted ==
  ASSUME LineInv, VerdictInv, NEW b \in Hops, NEW m \in Messages, Publish(b, m)
  PROVE  /\ LineInv' /\ SettlesAt(m)
         /\ \A g \in Hops, n \in Messages :
               Occurs(line'[g], n) => Occurs(line[g], n) \/ n = m
         /\ grounds' \in [Deliveries -> SUBSET Grounds]
  <1>1. CASE /\ Room(b) /\ line' = [line EXCEPT ![b] = Append(@, m)]
             /\ UNCHANGED <<outcome, grounds>>
    <2>1. Sends(b, m)
      BY <1>1 DEF Sends
    <2>2. LineInv' /\ \A g \in Hops, n \in Messages :
               Occurs(line'[g], n) => Occurs(line[g], n) \/ n = m
      BY <2>1, SentLine
    <2>3. QED
      BY <1>1, <2>2, NothingSettled DEF VerdictInv
  <1>2. CASE ~Room(b) /\ Refuses(m, "refused") /\ UNCHANGED line
    <2>1. LineInv'
      BY <1>2 DEF LineInv
    <2>2. Note(m, {"refused"}) /\ {"refused"} \in SUBSET Grounds
      BY <1>2 DEF Refuses, Grounds
    <2>3. QED
      BY <1>2, <2>1, <2>2, RefusedAt, NotedGrounds
  <1>3. QED
    BY <1>1, <1>2 DEF Publish

LEMMA ArriveKeeps ==
  ASSUME PipeInv, NEW d \in Deliveries, NEW a \in MayArrive[d], Arrive(d, a)
  PROVE  PipeInv'
  <1> DEFINE m == [d |-> d, topic |-> a.topic, mode |-> a.mode, asker |-> None]
  <1>1. /\ d \notin arrived /\ arrived' = arrived \union {d}
        /\ mode' = [mode EXCEPT ![d] = a.mode]
        /\ Publish(a.bus, m)
        /\ UNCHANGED <<at, todo, asking, answered, pending>>
    BY DEF Arrive
  <1>2. a \in Arrivals
    BY PipelineAssumption
  <1>3. m \in Messages /\ a.bus \in Hops /\ a.mode \in Modes
    BY <1>2 DEF Arrivals, Messages, Hops
  <1>4. m.d = d /\ m.mode = a.mode /\ m.asker = None
    OBVIOUS
  <1> HIDE DEF m
  <1>5. LineInv /\ VerdictInv /\ ArrivalInv /\ TagInv
    BY DEF PipeInv
  <1>6. /\ LineInv' /\ SettlesAt(m)
        /\ \A g \in Hops, n \in Messages : Occurs(line'[g], n) => Occurs(line[g], n) \/ n = m
        /\ grounds' \in [Deliveries -> SUBSET Grounds]
    BY <1>1, <1>3, <1>5, Accepted
  <1>7. ArrivalInv'
    BY <1>1, <1>3, <1>5 DEF ArrivalInv
  <1>8. HandInv'
    BY <1>1 DEF PipeInv, HandInv, AtWork, Matching
  <1>9. VerdictInv'
    <2>1. PICK o \in Outcomes : outcome' = [outcome EXCEPT ![d] = o]
      BY <1>4, <1>6 DEF SettlesAt
    <2>2. QED
      BY <1>1, <1>5, <1>6, <2>1 DEF VerdictInv
  <1>10. TagInv'
    <2>1. \A n \in Messages : Tagged(n) => Tagged(n)'
      BY <1>1, <1>5, MessageParts DEF Tagged, ArrivalInv
    <2>2. Tagged(m)'
      BY <1>1, <1>4, <1>5 DEF Tagged, ArrivalInv
    <2>3. \A g \in Hops, n \in Messages : Occurs(line'[g], n) => Tagged(n)'
      BY <1>5, <1>6, <2>1, <2>2 DEF TagInv
    <2>4. \A g \in Hops : at'[g] # None => Tagged(at[g])'
      BY <1>1, <1>5, <2>1 DEF TagInv, PipeInv, HandInv, Tagged
    <2>5. \A w \in pending' : Tagged(w[2])'
      BY <1>1, <1>5, <2>1 DEF TagInv, ArrivalInv
    <2>6. QED
      BY <2>3, <2>4, <2>5 DEF TagInv, Tagged
  <1>11. QED
    BY <1>6, <1>7, <1>8, <1>9, <1>10 DEF PipeInv

(* What a bus makes of a message nobody took up.                           *)
Copy(m) == [m EXCEPT !.topic = UndeliverableTopic, !.asker = None]

LEMMA CopiedMessage ==
  ASSUME NEW m \in Messages
  PROVE  /\ Copy(m) \in Messages /\ Copy(m).d = m.d /\ Copy(m).mode = m.mode
         /\ Copy(m).asker = None /\ (Tagged(m) => Tagged(Copy(m)))
  BY PipelineAssumption DEF Copy, Messages, Tagged

LEMMA Noted ==
  ASSUME LineInv, VerdictInv, NEW b \in Hops, NEW m \in Messages, NoteUndelivered(b, m)
  PROVE  /\ LineInv' /\ SettlesAt(m)
         /\ \A g \in Hops, n \in Messages :
               Occurs(line'[g], n) => Occurs(line[g], n) \/ n = Copy(m)
         /\ grounds' \in [Deliveries -> SUBSET Grounds]
  <1>1. CASE Publish(b, Copy(m))
    <2>1. /\ LineInv' /\ SettlesAt(Copy(m))
          /\ \A g \in Hops, n \in Messages :
                Occurs(line'[g], n) => Occurs(line[g], n) \/ n = Copy(m)
          /\ grounds' \in [Deliveries -> SUBSET Grounds]
      BY <1>1, CopiedMessage, Accepted
    <2>2. SettlesAt(m)
      BY <2>1, CopiedMessage DEF SettlesAt
    <2>3. QED
      BY <2>1, <2>2
  <1>2. CASE Refuses(m, "unhandled") /\ UNCHANGED line
    <2>1. LineInv'
      BY <1>2 DEF LineInv
    <2>2. Note(m, {"unhandled"}) /\ {"unhandled"} \in SUBSET Grounds
      BY <1>2 DEF Refuses, Grounds
    <2>3. QED
      BY <1>2, <2>1, <2>2, RefusedAt, NotedGrounds
  <1>3. CASE /\ outcome' =
                    [outcome EXCEPT ![m.d] = SettleOnReturn(m.mode, @, "handled", FALSE)]
             /\ Note(m, {"unwanted"})
             /\ UNCHANGED line
    <2>1. LineInv'
      BY <1>3 DEF LineInv
    <2>2. SettlesAt(m)
      BY <1>3, WorkedAt
    <2>3. {"unwanted"} \in SUBSET Grounds
      BY DEF Grounds
    <2>4. QED
      BY <1>3, <2>1, <2>2, <2>3, NotedGrounds
  <1>4. QED
    BY <1>1, <1>2, <1>3 DEF NoteUndelivered, Copy

LEMMA FinishKeeps ==
  ASSUME PipeInv, NEW h \in Hops, Finish(h)
  PROVE  PipeInv'
  <1>1. /\ at[h] # None /\ todo[h] = {} /\ asking[h] = None
        /\ at' = [at EXCEPT ![h] = None]
        /\ \/ NoteUndelivered(h, at[h])
           \/ UNCHANGED <<line, outcome, grounds>>
        /\ Answers(h)
        /\ UNCHANGED <<todo, asking, mode, arrived, pending>>
    BY DEF Finish
  <1>2. at[h] \in Messages /\ Tagged(at[h])
    BY <1>1, AtHand
  <1>3. LineInv /\ VerdictInv /\ ArrivalInv /\ TagInv
    BY DEF PipeInv
  <1>4. /\ LineInv' /\ SettlesAt(at[h])
        /\ \A g \in Hops, n \in Messages :
              Occurs(line'[g], n) => Occurs(line[g], n) \/ n = Copy(at[h])
        /\ grounds' \in [Deliveries -> SUBSET Grounds]
    <2>1. CASE NoteUndelivered(h, at[h])
      BY <1>2, <1>3, <2>1, Noted
    <2>2. CASE UNCHANGED <<line, outcome, grounds>>
      BY <1>2, <1>3, <2>2, NothingSettled DEF LineInv, VerdictInv
    <2>3. QED
      BY <1>1, <2>1, <2>2
  <1>5. VerdictInv'
    BY <1>1, <1>2, <1>3, <1>4, VerdictStep
  <1>6. ArrivalInv'
    BY <1>1, <1>3 DEF ArrivalInv
  <1>7. HandInv'
    <2>1. at' \in [Hops -> Messages \union {None}]
      BY <1>1 DEF PipeInv, HandInv, Answers
    <2>2. ASSUME NEW g \in Hops PROVE AtWork(g)'
      <3>1. AtWork(g) /\ at'[g] = IF g = h THEN None ELSE at[g]
        BY <1>1 DEF PipeInv, HandInv
      <3>2. QED
        BY <1>1, <3>1 DEF AtWork, Matching
    <2>3. QED
      BY <1>1, <2>1, <2>2 DEF PipeInv, HandInv
  <1>8. TagInv'
    <2>1. \A g \in Hops : at'[g] # None => at'[g] = at[g]
      BY <1>1 DEF PipeInv, HandInv
    <2>2. Tagged(Copy(at[h]))
      BY <1>2, CopiedMessage
    <2>3. QED
      BY <1>1, <1>3, <1>4, <2>1, <2>2, TagKept
  <1>9. QED
    BY <1>4, <1>5, <1>6, <1>7, <1>8 DEF PipeInv

-----------------------------------------------------------------------------
LEMMA PipeInit == Init => PipeInv
  <1> SUFFICES ASSUME Init PROVE PipeInv
    OBVIOUS
  <1>1. LineInv
    BY PipelineAssumption DEF Init, LineInv
  <1>2. HandInv
    BY DEF Init, HandInv, AtWork
  <1>3. VerdictInv
    BY DEF Init, VerdictInv, Outcomes, Grounds
  <1>4. ArrivalInv
    BY DEF Init, ArrivalInv, Modes
  <1>5. TagInv
    BY DEF Init, TagInv, Occurs
  <1>6. QED
    BY <1>1, <1>2, <1>3, <1>4, <1>5 DEF PipeInv

LEMMA PipeStep == PipeInv /\ [Next]_vars => PipeInv'
  <1> SUFFICES ASSUME PipeInv, [Next]_vars PROVE PipeInv'
    OBVIOUS
  <1>1. ASSUME NEW d \in Deliveries, NEW a \in MayArrive[d], Arrive(d, a) PROVE PipeInv'
    BY <1>1, ArriveKeeps
  <1>2. ASSUME NEW h \in Hops, Take(h) PROVE PipeInv'
    BY <1>2, TakeKeeps
  <1>3. ASSUME NEW h \in Hops, Finish(h) PROVE PipeInv'
    BY <1>3, FinishKeeps
  <1>4. ASSUME NEW h \in Hops, NEW s \in todo[h], Calls(h, s) PROVE PipeInv'
    BY <1>4, CallDroppedKeeps, CallQueueKeeps, CallBusKeeps, AskKeeps, CallObserverKeeps,
       CallHandlerKeeps, CallDeferrerKeeps DEF Calls
  <1>5. ASSUME NEW h \in Hops, NEW failed \in BOOLEAN, AskReturns(h, failed) PROVE PipeInv'
    BY <1>5, AskReturnsKeeps
  <1>6. ASSUME NEW w \in pending, NEW failed \in BOOLEAN, Complete(w[1], w[2], failed)
        PROVE PipeInv'
    BY <1>6, CompleteKeeps
  <1>7. CASE UNCHANGED vars
    BY <1>7 DEF vars, hops, deliveries, PipeInv, LineInv, HandInv, VerdictInv, ArrivalInv,
       TagInv, AtWork, Tagged, Matching
  <1>8. QED
    BY <1>1, <1>2, <1>3, <1>4, <1>5, <1>6, <1>7 DEF Next, Progress, HopStep, WorkStep

LEMMA ReportsTyped ==
  ASSUME AnswerInv, NEW h \in Hops, NEW result \in Results, Reports(h, result)
  PROVE  publishError' \in [Hops -> Results]
  BY DEF AnswerInv, Reports

LEMMA AnswerStep == AnswerInv /\ [Next]_vars => AnswerInv'
  <1> SUFFICES ASSUME AnswerInv, [Next]_vars PROVE AnswerInv'
    OBVIOUS
  <1>1. ASSUME NEW h \in Hops, NEW s \in todo[h], Calls(h, s) PROVE AnswerInv'
    <2>1. CASE CallDropped(h, s) \/ CallBus(h, s)
      BY <2>1 DEF CallDropped, CallBus, AnswerInv
    <2>2. CASE Ask(h, s)
      BY <2>2 DEF Ask, AnswerInv, Results
    <2>3. CASE CallQueue(h, s)
      <3>1. PICK failed \in BOOLEAN : Reports(h, ErrorIf(failed)) /\ UNCHANGED answered
        BY <2>3 DEF CallQueue
      <3>2. QED
        BY <3>1, ReportsTyped DEF ErrorIf, AnswerInv, Results
    <2>4. ASSUME NEW failed \in BOOLEAN,
                 \/ CallObserver(h, s, failed) \/ CallHandler(h, s, failed)
                 \/ CallDeferrer(h, s, failed)
          PROVE  AnswerInv'
      <3>1. PICK r \in Results : Reports(h, r) /\ UNCHANGED answered
        BY <2>4 DEF CallObserver, CallHandler, CallDeferrer, ErrorIf, Results
      <3>2. QED
        BY <3>1, ReportsTyped DEF AnswerInv
    <2>5. QED
      BY <1>1, <2>1, <2>2, <2>3, <2>4 DEF Calls
  <1>2. ASSUME NEW h \in Hops, NEW failed \in BOOLEAN, AskReturns(h, failed) PROVE AnswerInv'
    <2>1. Reports(h, Makes(h, failed)) /\ answered' = [answered EXCEPT ![h] = "none"]
      BY <1>2 DEF AskReturns
    <2>2. Makes(h, failed) \in Results
      BY DEF Makes, Results
    <2>3. QED
      BY <2>1, <2>2, ReportsTyped DEF AnswerInv
  <1>3. ASSUME NEW h \in Hops, Finish(h) PROVE AnswerInv'
    <2>1. Answers(h) /\ publishError' = [publishError EXCEPT ![h] = "ok"]
      BY <1>3 DEF Finish
    <2>2. QED
      BY <2>1 DEF Answers, AnswerInv, Results
  <1>4. ASSUME UNCHANGED <<answered, publishError>> PROVE AnswerInv'
    BY <1>4 DEF AnswerInv
  <1>5. CASE \E h \in Hops : Take(h)
    BY <1>4, <1>5 DEF Take
  <1>6. CASE WorkStep
    BY <1>4, <1>6 DEF WorkStep, Complete, hops
  <1>7. CASE \E d \in Deliveries : \E a \in MayArrive[d] : Arrive(d, a)
    BY <1>4, <1>7 DEF Arrive
  <1>8. CASE UNCHANGED vars
    BY <1>4, <1>8 DEF vars, hops
  <1>9. QED
    BY <1>1, <1>2, <1>3, <1>5, <1>6, <1>7, <1>8 DEF Next, Progress, HopStep

(* Every variable of the pipeline has its type, and no line grows beyond   *)
(* its capacity: the channels of the buses and of the queueing subscribers.*)
THEOREM PipelineTyping == Spec => []TypeOK
  <1>1. PipeInv /\ AnswerInv => TypeOK
    BY DEF PipeInv, LineInv, HandInv, VerdictInv, ArrivalInv, AnswerInv, TypeOK
  <1>2. Init => AnswerInv
    BY DEF Init, AnswerInv, Results
  <1>3. QED
    BY <1>1, <1>2, PipeInit, PipeStep, AnswerStep, PTL DEF Spec

-----------------------------------------------------------------------------
(* What a step does to the verdict and the grounds of the delivery it is   *)
(* about: it leaves the verdict, or settles for a reason it notes.         *)

Justified(m, g, o) ==
    /\ m.mode # "none"
    /\ o = "ack" => m.mode = "auto" /\ g \intersect {"handled", "filtered", "unwanted"} # {}
    /\ o = "nack" => g \intersect {"failed", "refused", "unhandled", "tapped"} # {}

Rules(m, g, o) ==
    /\ o \in Outcomes /\ g \in SUBSET Grounds
    /\ outcome' = [outcome EXCEPT ![m.d] = o]
    /\ Note(m, g)
    /\ o = outcome[m.d] \/ Justified(m, g, o)

LEMMA RulesGrounded ==
  ASSUME VerdictInv, Grounded, NEW m \in Messages, NEW g, NEW o, Rules(m, g, o),
         \A d \in Deliveries : outcome[d] = "ack" /\ Automatic(d) => Automatic(d)',
         m.mode = "auto" => Automatic(m.d)'
  PROVE  Grounded'
  <1>1. \A d \in Deliveries :
           grounds'[d] = IF d = m.d /\ m.mode # "none" THEN grounds[d] \union g ELSE grounds[d]
    BY NotedGrounds DEF Rules
  <1>2. \A d \in Deliveries : outcome'[d] = IF d = m.d THEN o ELSE outcome[d]
    BY DEF Rules, VerdictInv
  <1>3. ASSUME NEW d \in Deliveries, outcome'[d] = outcome[d]
        PROVE  /\ outcome'[d] = "ack" =>
                      /\ Automatic(d)'
                      /\ grounds'[d] \intersect {"handled", "filtered", "unwanted"} # {}
               /\ outcome'[d] = "nack" =>
                      grounds'[d] \intersect {"failed", "refused", "unhandled", "tapped"} # {}
    <2>1. grounds[d] \subseteq grounds'[d]
      BY <1>1
    <2>2. QED
      BY <1>3, <2>1 DEF Grounded
  <1>4. ASSUME Justified(m, g, o)
        PROVE  /\ o = "ack" =>
                      /\ Automatic(m.d)'
                      /\ grounds'[m.d] \intersect {"handled", "filtered", "unwanted"} # {}
               /\ o = "nack" =>
                      grounds'[m.d] \intersect {"failed", "refused", "unhandled", "tapped"} # {}
    <2>1. g \subseteq grounds'[m.d]
      BY <1>1, <1>4, MessageParts DEF Justified
    <2>2. QED
      BY <1>4, <2>1 DEF Justified
  <1>5. QED
    BY <1>2, <1>3, <1>4 DEF Rules, Grounded

(* The outcome a settle point leaves, and why.                             *)
LEMMA ReturnRules ==
  ASSUME VerdictInv, NEW m \in Messages, NEW s \in Subscribers, NEW failed \in BOOLEAN,
         Settles(m, s, failed), NEW g \in SUBSET Grounds, Note(m, g),
         Disposition[s] # "observed" /\ failed =>
             g \intersect {"failed", "refused", "tapped"} # {},
         Disposition[s] = "handled" /\ ~failed => g \intersect {"handled", "filtered"} # {}
  PROVE  /\ Rules(m, g, After(m, s, failed, outcome[m.d]))
         /\ outcome' = [outcome EXCEPT ![m.d] = After(m, s, failed, outcome[m.d])]
  <1> DEFINE b == outcome[m.d]
             o == After(m, s, failed, b)
  <1>1. b \in Outcomes /\ Disposition[s] \in Dispositions
    BY MessageParts, PipelineAssumption DEF VerdictInv
  <1>2. outcome' = [outcome EXCEPT ![m.d] = o]
    BY DEF Settles
  <1>3. o \in Outcomes
    <2>1. SettleOnReturn(m.mode, b, Disposition[s], failed) \in Outcomes
      BY <1>1, SettlePointOutcome
    <2>2. QED
      BY <1>1, <2>1 DEF After
  <1>4. \/ o = b
        \/ /\ m.mode # "none" /\ Disposition[s] # "observed"
           /\ \/ failed /\ o = "nack"
              \/ ~failed /\ o = "ack" /\ m.mode = "auto" /\ Disposition[s] # "deferred"
    BY DEF After, SettleOnReturn, Settle
  <1>5. o = b \/ Justified(m, g, o)
    BY <1>1, <1>4 DEF Justified, Dispositions
  <1>6. QED
    BY <1>2, <1>3, <1>5 DEF Rules

LEMMA RefusalRules ==
  ASSUME VerdictInv, NEW m \in Messages, NEW why \in {"refused", "unhandled"}, Refuses(m, why)
  PROVE  Rules(m, {why}, SettleRefused(m.mode, outcome[m.d]))
  <1> DEFINE b == outcome[m.d]
             o == SettleRefused(m.mode, b)
  <1>1. b \in Outcomes
    BY MessageParts DEF VerdictInv
  <1>2. o \in Outcomes
    BY <1>1, SettlePointOutcome
  <1>3. o = b \/ Justified(m, {why}, o)
    BY DEF SettleRefused, Settle, Justified
  <1>4. {why} \in SUBSET Grounds
    BY DEF Grounds
  <1>5. QED
    BY <1>2, <1>3, <1>4 DEF Refuses, Rules

(* Work done, or wanted by nobody.                                         *)
LEMMA WorkRules ==
  ASSUME VerdictInv, NEW m \in Messages, NEW failed \in BOOLEAN,
         outcome' = [outcome EXCEPT ![m.d] = SettleOnReturn(m.mode, @, "handled", failed)],
         NEW why \in {"failed", "handled", "unwanted"}, failed <=> why = "failed",
         Note(m, {why})
  PROVE  Rules(m, {why}, SettleOnReturn(m.mode, outcome[m.d], "handled", failed))
  <1> DEFINE b == outcome[m.d]
             o == SettleOnReturn(m.mode, b, "handled", failed)
  <1>1. b \in Outcomes
    BY MessageParts DEF VerdictInv
  <1>2. o \in Outcomes
    BY <1>1, SettlePointOutcome
  <1>3. o = b \/ Justified(m, {why}, o)
    BY DEF SettleOnReturn, Settle, Justified
  <1>4. {why} \in SUBSET Grounds
    BY DEF Grounds
  <1>5. outcome' = [outcome EXCEPT ![m.d] = o]
    OBVIOUS
  <1>6. QED
    BY <1>2, <1>3, <1>4, <1>5 DEF Rules

LEMMA NoRules ==
  ASSUME VerdictInv, NEW m \in Messages, UNCHANGED outcome,
         NEW g \in SUBSET Grounds, Note(m, g)
  PROVE  Rules(m, g, outcome[m.d])
  <1>1. m.d \in Deliveries
    BY MessageParts
  <1>2. outcome[m.d] \in Outcomes /\ outcome' = [outcome EXCEPT ![m.d] = outcome[m.d]]
    BY <1>1 DEF VerdictInv
  <1>3. QED
    BY <1>2 DEF Rules

(* An automatic delivery is settled when the settle point asks a callee    *)
(* that has done the work, or has failed.                                  *)
LEMMA ReturnEnds ==
  ASSUME NEW m, Tagged(m), NEW s, NEW failed \in BOOLEAN, m.mode = "auto",
         Disposition[s] # "observed", failed \/ Disposition[s] # "deferred"
  PROVE  After(m, s, failed, outcome[m.d]) # "open"
  BY DEF Tagged, After, SettleOnReturn, Settle

-----------------------------------------------------------------------------
(* Where a delivery is: the three kinds of place, and what moves it.       *)

LEMMA SpotsIn ==
  ASSUME NEW L, NEW H, NEW W
  PROVE  /\ \A h : LineToken(h) \in Spots(L, H, W) <=> h \in L
         /\ \A h : HandToken(h) \in Spots(L, H, W) <=> h \in H
         /\ \A w : WorkToken(w) \in Spots(L, H, W) <=> w \in W
         /\ \A t \in Spots(L, H, W) : \/ \E h \in L : t = LineToken(h)
                                      \/ \E h \in H : t = HandToken(h)
                                      \/ \E w \in W : t = WorkToken(w)
  BY DEF Spots, LineToken, HandToken, WorkToken

LEMMA AppendOnceIn ==
  ASSUME NEW S, NEW q \in Seq(S), NEW e \in S, NEW T, OnceIn(q, T),
         ~(e \in T /\ \E m \in T : Occurs(q, m))
  PROVE  OnceIn(Append(q, e), T)
  <1>1. /\ \A i \in 1..Len(q) : Append(q, e)[i] = q[i]
        /\ Append(q, e)[Len(q) + 1] = e
        /\ DOMAIN q = 1..Len(q) /\ DOMAIN Append(q, e) = 1..(Len(q) + 1) /\ Len(q) \in Nat
    OBVIOUS
  <1>2. SUFFICES ASSUME NEW i \in 1..(Len(q) + 1), NEW j \in 1..(Len(q) + 1),
                        Append(q, e)[i] \in T, Append(q, e)[j] \in T
                 PROVE  i = j
    BY <1>1 DEF OnceIn
  <1>3. i \in 1..Len(q) \/ i = Len(q) + 1
    BY <1>1
  <1>4. j \in 1..Len(q) \/ j = Len(q) + 1
    BY <1>1
  <1>5. QED
    BY <1>1, <1>2, <1>3, <1>4 DEF OnceIn, Occurs

LEMMA TailOnceIn ==
  ASSUME NEW S, NEW q \in Seq(S), q # <<>>, NEW T, OnceIn(q, T)
  PROVE  /\ OnceIn(Tail(q), T)
         /\ Head(q) \in T => \A m \in T : ~Occurs(Tail(q), m)
  <1>1. /\ Head(q) = q[1] /\ Len(q) \in Nat \ {0}
        /\ \A i \in 1..(Len(q) - 1) : Tail(q)[i] = q[i + 1] /\ i + 1 \in 1..Len(q) /\ i + 1 # 1
        /\ DOMAIN q = 1..Len(q) /\ DOMAIN Tail(q) = 1..(Len(q) - 1) /\ 1 \in 1..Len(q)
    OBVIOUS
  <1>2. OnceIn(Tail(q), T)
    <2>1. \A i, j \in 1..(Len(q) - 1) : i + 1 = j + 1 => i = j
      OBVIOUS
    <2>2. QED
      BY <1>1, <2>1 DEF OnceIn
  <1>3. Head(q) \in T => \A m \in T : ~Occurs(Tail(q), m)
    BY <1>1 DEF OnceIn, Occurs
  <1>4. QED
    BY <1>2, <1>3

(* Lines, hands and deferred work, as one step changes them.               *)
SameLines(d) ==
    /\ Lining(d)' = Lining(d)
    /\ \A g \in Hops : OnceOn(g, d) => OnceOn(g, d)'

LEMMA LinesUnchanged ==
  ASSUME NEW d, UNCHANGED line
  PROVE  SameLines(d)
  BY DEF SameLines, Lining, OnceOn, OnceIn, Carrying, Carries

LEMMA SentLines ==
  ASSUME LineInv, NEW q \in Hops, NEW n \in Messages, Sends(q, n), NEW d
  PROVE  /\ ~Carries(n, d) => SameLines(d)
         /\ Carries(n, d) => Lining(d)' = Lining(d) \union {q}
         /\ \A g \in Hops : OnceOn(g, d) /\ q \notin Lining(d) => OnceOn(g, d)'
  <1>1. /\ line[q] \in Seq(Messages)
        /\ line' = [h \in Hops |-> IF h = q THEN Append(line[q], n) ELSE line[h]]
    BY DEF LineInv, Sends
  <1>2. \A h \in Hops, m \in Messages :
           Occurs(line'[h], m) <=> Occurs(line[h], m) \/ (h = q /\ m = n)
    BY SentLine
  <1>3. \A h \in Hops : h \in Lining(d)' <=> h \in Lining(d) \/ (h = q /\ Carries(n, d))
    BY <1>2 DEF Lining, Carrying
  <1>4. ASSUME NEW g \in Hops, OnceOn(g, d), ~(Carries(n, d) /\ q \in Lining(d))
        PROVE  OnceOn(g, d)'
    <2>1. CASE g # q
      BY <1>1, <1>4, <2>1 DEF OnceOn, Carrying
    <2>2. CASE g = q
      <3>1. ~(n \in Carrying(d) /\ \E m \in Carrying(d) : Occurs(line[q], m))
        BY <1>4 DEF Carrying, Lining
      <3>2. OnceIn(Append(line[q], n), Carrying(d))
        BY <1>1, <1>4, <2>2, <3>1, AppendOnceIn DEF OnceOn
      <3>3. QED
        BY <1>1, <2>2, <3>2 DEF OnceOn, Carrying
    <2>3. QED
      BY <2>1, <2>2
  <1>5. Lining(d) \subseteq Hops /\ Lining(d)' \subseteq Hops
    BY DEF Lining
  <1>6. QED
    BY <1>3, <1>4, <1>5 DEF SameLines

LEMMA TakenLines ==
  ASSUME LineInv, NEW q \in Hops, line[q] # <<>>, line' = [line EXCEPT ![q] = Tail(@)], NEW d
  PROVE  /\ ~Carries(Head(line[q]), d) => SameLines(d)
         /\ \A g \in Hops : OnceOn(g, d) => OnceOn(g, d)'
         /\ Lining(d)' \subseteq Lining(d) /\ Lining(d) \subseteq Lining(d)' \union {q}
         /\ Carries(Head(line[q]), d) => /\ q \in Lining(d)
                                         /\ OnceOn(q, d) => q \notin Lining(d)'
  <1>1. /\ line[q] \in Seq(Messages)
        /\ line' = [h \in Hops |-> IF h = q THEN Tail(line[q]) ELSE line[h]]
    BY DEF LineInv
  <1>2. /\ Head(line[q]) \in Messages /\ Occurs(line[q], Head(line[q]))
        /\ \A h \in Hops, m \in Messages : Occurs(line'[h], m) => Occurs(line[h], m)
        /\ \A h \in Hops, m \in Messages :
               Occurs(line[h], m) => Occurs(line'[h], m) \/ (h = q /\ m = Head(line[q]))
    BY TakenLine
  <1>3. ASSUME NEW g \in Hops, OnceOn(g, d) PROVE OnceOn(g, d)'
    <2>1. CASE g # q
      BY <1>1, <1>3, <2>1 DEF OnceOn, Carrying
    <2>2. CASE g = q
      <3>1. OnceIn(Tail(line[q]), Carrying(d))
        BY <1>1, <1>3, <2>2, TailOnceIn DEF OnceOn
      <3>2. QED
        BY <1>1, <2>2, <3>1 DEF OnceOn, Carrying
    <2>3. QED
      BY <2>1, <2>2
  <1>4. Lining(d)' \subseteq Lining(d) /\ Lining(d) \subseteq Lining(d)' \union {q}
    BY <1>2 DEF Lining, Carrying
  <1>5. ~Carries(Head(line[q]), d) => Lining(d) \subseteq Lining(d)'
    BY <1>2 DEF Lining, Carrying
  <1>6. Carries(Head(line[q]), d) => q \in Lining(d)
    BY <1>2 DEF Lining, Carrying
  <1>7. ASSUME Carries(Head(line[q]), d), OnceOn(q, d) PROVE q \notin Lining(d)'
    <2>1. Head(line[q]) \in Carrying(d)
      BY <1>2, <1>7 DEF Carrying
    <2>2. \A m \in Carrying(d) : ~Occurs(Tail(line[q]), m)
      BY <1>1, <1>7, <2>1, TailOnceIn DEF OnceOn
    <2>3. QED
      BY <1>1, <2>2 DEF Lining, Carrying
  <1>8. QED
    BY <1>3, <1>4, <1>5, <1>6, <1>7 DEF SameLines

(* Only one hop's hand changes.                                            *)
OnlyAt(h) ==
    \A g \in Hops \ {h} : at'[g] = at[g] /\ todo'[g] = todo[g] /\ asking'[g] = asking[g]

LEMMA OtherHands ==
  ASSUME NEW h \in Hops, OnlyAt(h), NEW d
  PROVE  /\ \A g \in Hops \ {h} : g \in Handling(d)' <=> g \in Handling(d)
         /\ Handling(d) \subseteq Hops /\ Handling(d)' \subseteq Hops
  BY DEF OnlyAt, Handling, Rests, Carries, Counted, Matching, Takers

(* Nothing happens to a delivery that is elsewhere.                        *)
LEMMA Staying ==
  ASSUME NEW d, SingleOf(d), CustodyOf(d), SameLines(d),
         Handling(d)' = Handling(d), Working(d)' = Working(d),
         outcome'[d] = outcome[d], grounds[d] \subseteq grounds'[d], mode'[d] = mode[d]
  PROVE  SingleOf(d)' /\ CustodyOf(d)'
  <1>1. Tokens(d)' = Tokens(d)
    BY DEF Tokens, SameLines, Spots
  <1>2. SingleOf(d)'
    BY <1>1 DEF SingleOf, SameLines
  <1>3. CustodyOf(d)'
    BY <1>1 DEF CustodyOf, Automatic
  <1>4. QED
    BY <1>2, <1>3

(* A delivery moves from a place x to at most one place Y, or ends.        *)
LEMMA Passing ==
  ASSUME NEW d, SingleOf(d), NEW x \in Tokens(d), NEW Y,
         grounds[d] \subseteq grounds'[d],
         Tokens(d)' \subseteq Tokens(d) \union Y, \A y, z \in Y : y = z,
         "fanned" \notin grounds'[d] /\ Tokens(d) = {x} /\ (\A g \in Hops : OnceOn(g, d))
             => x \notin Tokens(d)' /\ \A g \in Hops : OnceOn(g, d)',
         outcome'[d] = outcome[d] \/ Y = {},
         Automatic(d)' /\ outcome'[d] = "open" /\ "abandoned" \notin grounds'[d]
             => Tokens(d)' # {}
  PROVE  SingleOf(d)' /\ CustodyOf(d)'
  <1>1. SUFFICES ASSUME "fanned" \notin grounds'[d]
                 PROVE  /\ \A y, z \in Tokens(d)' : y = z
                        /\ \A g \in Hops : OnceOn(g, d)'
                        /\ outcome'[d] # "open" => Tokens(d)' = {}
    BY DEF SingleOf, CustodyOf
  <1>2. "fanned" \notin grounds[d]
    BY <1>1
  <1>3. Tokens(d) = {x} /\ outcome[d] = "open" /\ \A g \in Hops : OnceOn(g, d)
    BY <1>2 DEF SingleOf
  <1>4. x \notin Tokens(d)' /\ \A g \in Hops : OnceOn(g, d)'
    BY <1>1, <1>3
  <1>5. Tokens(d)' \subseteq Y
    BY <1>3, <1>4
  <1>6. QED
    BY <1>3, <1>4, <1>5

(* A delivery leaves the place x and goes nowhere.                         *)
LEMMA Leaving ==
  ASSUME NEW d, SingleOf(d), NEW x \in Tokens(d), grounds[d] \subseteq grounds'[d],
         Tokens(d)' \subseteq Tokens(d), "fanned" \notin grounds'[d] => x \notin Tokens(d)',
         \A g \in Hops : OnceOn(g, d) => OnceOn(g, d)',
         Automatic(d)' /\ outcome'[d] = "open" => "abandoned" \in grounds'[d]
  PROVE  SingleOf(d)' /\ CustodyOf(d)'
  <1>1. SUFFICES ASSUME "fanned" \notin grounds'[d]
                 PROVE  Tokens(d)' = {} /\ \A g \in Hops : OnceOn(g, d)'
    BY DEF SingleOf, CustodyOf
  <1>2. "fanned" \notin grounds[d]
    BY <1>1
  <1>3. Tokens(d) = {x} /\ \A g \in Hops : OnceOn(g, d)
    BY <1>2 DEF SingleOf
  <1>4. QED
    BY <1>1, <1>3

Sound == Grounded /\ SingleInv /\ CustodyInv
WorkInv == PipeInv /\ Grounded /\ SingleInv /\ CustodyInv

LEMMA RulesAt ==
  ASSUME VerdictInv, NEW m \in Messages, NEW g, NEW o, Rules(m, g, o), NEW d \in Deliveries
  PROVE  /\ ~Carries(m, d) => outcome'[d] = outcome[d]
         /\ Carries(m, d) => outcome'[d] = o /\ grounds'[d] = grounds[d] \union g
         /\ grounds[d] \subseteq grounds'[d]
  <1>1. grounds'[d] = IF d = m.d /\ m.mode # "none" THEN grounds[d] \union g ELSE grounds[d]
    BY NotedGrounds DEF Rules
  <1>2. outcome'[d] = IF d = m.d THEN o ELSE outcome[d]
    BY DEF Rules, VerdictInv
  <1>3. Carries(m, d) <=> d = m.d /\ m.mode # "none"
    BY MessageParts DEF Carries
  <1>4. m.mode = "none" => o = outcome[m.d]
    BY DEF Rules, Justified
  <1>5. QED
    BY <1>1, <1>2, <1>3, <1>4

(* Verdicts still have grounds after a step that rules about one message.  *)
LEMMA StillGrounded ==
  ASSUME WorkInv, NEW m \in Messages, Tagged(m), NEW g, NEW o, Rules(m, g, o), UNCHANGED mode
  PROVE  Grounded'
  <1>1. m.mode = "auto" => Automatic(m.d)'
    BY DEF Tagged, Automatic
  <1>2. \A d \in Deliveries : outcome[d] = "ack" /\ Automatic(d) => Automatic(d)'
    BY DEF Automatic
  <1>3. QED
    BY <1>1, <1>2, RulesGrounded DEF WorkInv, PipeInv

(* A step about one message leaves the other deliveries where they are.    *)
LEMMA Untouched ==
  ASSUME WorkInv, NEW h \in Hops, OnlyAt(h), NEW d \in Deliveries,
         NEW m \in Messages, ~Carries(m, d), NEW g, NEW o, Rules(m, g, o), mode'[d] = mode[d],
         SameLines(d), Working(d)' = Working(d),
         ~Carries(at[h], d), ~Carries(at'[h], d)
  PROVE  SingleOf(d)' /\ CustodyOf(d)'
  <1>1. outcome'[d] = outcome[d] /\ grounds[d] \subseteq grounds'[d]
    BY RulesAt DEF WorkInv, PipeInv
  <1>2. Handling(d)' = Handling(d)
    <2>1. h \notin Handling(d) /\ h \notin Handling(d)'
      BY DEF Handling
    <2>2. QED
      BY <2>1, OtherHands
  <1>3. SingleOf(d) /\ CustodyOf(d)
    BY DEF WorkInv, SingleInv, CustodyInv
  <1>4. QED
    BY <1>1, <1>2, <1>3, Staying

(* A hop lets go of its message: it was to be dealt with here, and is no   *)
(* longer, unless somebody shares it.                                      *)
LetsGo(h, d) ==
    /\ h \in Handling(d) /\ OnlyAt(h)
    /\ "fanned" \notin grounds'[d] => h \notin Handling(d)'

LEMMA LetGoEnds ==
  ASSUME WorkInv, NEW h \in Hops, NEW d \in Deliveries, LetsGo(h, d),
         UNCHANGED <<line, mode, pending>>,
         NEW m \in Messages, Tagged(m), Carries(m, d), NEW g, NEW o, Rules(m, g, o),
         m.mode = "auto" => o # "open" \/ "abandoned" \in g
  PROVE  SingleOf(d)' /\ CustodyOf(d)'
  <1>1. SingleOf(d) /\ outcome'[d] = o /\ grounds'[d] = grounds[d] \union g
    BY RulesAt DEF WorkInv, SingleInv, PipeInv
  <1>2. Automatic(d)' => m.mode = "auto"
    BY DEF Automatic, Tagged, Carries
  <1>3. SameLines(d) /\ Working(d)' = Working(d)
    BY LinesUnchanged DEF Working
  <1>4. Handling(d)' \subseteq Handling(d)
    BY OtherHands DEF LetsGo
  <1>5. HandToken(h) \in Tokens(d)
    BY SpotsIn DEF Tokens, LetsGo
  <1>6. Tokens(d)' \subseteq Tokens(d)
    BY <1>3, <1>4 DEF Tokens, Spots, SameLines
  <1>7. "fanned" \notin grounds'[d] => HandToken(h) \notin Tokens(d)'
    BY SpotsIn DEF Tokens, LetsGo
  <1>8. Automatic(d)' /\ outcome'[d] = "open" => "abandoned" \in grounds'[d]
    BY <1>1, <1>2
  <1>9. grounds[d] \subseteq grounds'[d] /\ \A f \in Hops : OnceOn(f, d) => OnceOn(f, d)'
    BY <1>1, <1>3 DEF SameLines
  <1>10. QED
    BY <1>1, <1>5, <1>6, <1>7, <1>8, <1>9, Leaving

LEMMA LetGoSends ==
  ASSUME WorkInv, NEW h \in Hops, NEW d \in Deliveries, LetsGo(h, d),
         NEW q \in Hops, NEW n \in Messages, Sends(q, n), Carries(n, d), UNCHANGED pending,
         outcome'[d] = outcome[d], grounds[d] \subseteq grounds'[d]
  PROVE  SingleOf(d)' /\ CustodyOf(d)'
  <1>1. SingleOf(d) /\ LineInv
    BY DEF WorkInv, SingleInv, PipeInv
  <1>2. /\ Lining(d)' = Lining(d) \union {q}
        /\ \A g \in Hops : OnceOn(g, d) /\ q \notin Lining(d) => OnceOn(g, d)'
    BY <1>1, SentLines
  <1>3. Handling(d)' \subseteq Handling(d) /\ Working(d)' = Working(d)
    BY OtherHands DEF LetsGo, Working
  <1>4. HandToken(h) \in Tokens(d)
    BY SpotsIn DEF Tokens, LetsGo
  <1>5. Tokens(d)' \subseteq Tokens(d) \union {LineToken(q)}
    BY <1>2, <1>3 DEF Tokens, Spots
  <1>6. LineToken(q) \in Tokens(d)'
    BY <1>2, SpotsIn DEF Tokens
  <1>7. "fanned" \notin grounds'[d] => HandToken(h) \notin Tokens(d)'
    BY SpotsIn DEF Tokens, LetsGo
  <1>8. Tokens(d) = {HandToken(h)} => q \notin Lining(d)
    <2>1. LineToken(q) # HandToken(h)
      BY DEF LineToken, HandToken
    <2>2. QED
      BY <2>1, SpotsIn DEF Tokens
  <1>9. QED
    BY <1>1, <1>2, <1>4, <1>5, <1>6, <1>7, <1>8, Passing, ZenonT(40)

LEMMA LetGoDefers ==
  ASSUME WorkInv, NEW h \in Hops, NEW d \in Deliveries, LetsGo(h, d),
         NEW w, pending' = pending \union {w}, Carries(w[2], d), UNCHANGED line,
         outcome'[d] = outcome[d], grounds[d] \subseteq grounds'[d]
  PROVE  SingleOf(d)' /\ CustodyOf(d)'
  <1>1. SingleOf(d)
    BY DEF WorkInv, SingleInv
  <1>2. SameLines(d)
    BY LinesUnchanged
  <1>3. Handling(d)' \subseteq Handling(d) /\ Working(d)' = Working(d) \union {w}
    BY OtherHands DEF LetsGo, Working, Carries
  <1>4. HandToken(h) \in Tokens(d)
    BY SpotsIn DEF Tokens, LetsGo
  <1>5. Tokens(d)' \subseteq Tokens(d) \union {WorkToken(w)}
    BY <1>2, <1>3 DEF Tokens, Spots, SameLines
  <1>6. WorkToken(w) \in Tokens(d)'
    BY <1>3, SpotsIn DEF Tokens
  <1>7. "fanned" \notin grounds'[d] => HandToken(h) \notin Tokens(d)'
    BY SpotsIn DEF Tokens, LetsGo
  <1>8. QED
    BY <1>1, <1>2, <1>4, <1>5, <1>6, <1>7, Passing DEF SameLines

(* A call of a subscriber that counts lets the message go; a tap on a bus  *)
(* does not touch it.                                                      *)
LEMMA CallLetsGo ==
  ASSUME WorkInv, NEW h \in Hops, NEW s \in todo[h], Begins(h, s), UNCHANGED <<at, asking>>,
         NEW d \in Deliveries, Carries(at[h], d), grounds[d] \subseteq grounds'[d]
  PROVE  /\ OnlyAt(h)
         /\ s \in Counted(h, at[h]) => LetsGo(h, d)
         /\ s \notin Counted(h, at[h]) => Handling(d)' = Handling(d)
  <1>1. /\ todo' = [todo EXCEPT ![h] = @ \ {s}] /\ asking[h] = None
        /\ s \in todo[h] /\ at[h] # None
    BY DEF Begins
  <1>2. /\ todo \in [Hops -> SUBSET Subscribers] /\ todo'[h] = todo[h] \ {s}
        /\ None \notin Subscribers
    BY <1>1, PipelineAssumption DEF WorkInv, PipeInv, HandInv
  <1>3. OnlyAt(h)
    BY <1>1, <1>2 DEF OnlyAt
  <1>4. Counted(h, at[h]) \subseteq Subscribers
    BY PipelineAssumption DEF Counted, Takers, Matching, Hops
  <1>5. Rests(h) <=> \/ \E t \in Counted(h, at[h]) : t \in todo[h]
                     \/ h \in Buses /\ Takers(h, at[h]) = {}
    BY <1>1, <1>2, <1>4 DEF Rests
  <1>6. Rests(h)' <=> \/ \E t \in Counted(h, at[h]) : t \in todo[h] \ {s}
                      \/ h \in Buses /\ Takers(h, at[h]) = {}
    BY <1>1, <1>2, <1>4 DEF Rests, Counted, Takers, Matching
  <1>7. /\ h \in Handling(d) <=> Rests(h)
        /\ h \in Handling(d)' <=> Rests(h)'
    BY DEF Handling, Carries
  <1>8. ASSUME s \in Counted(h, at[h]) PROVE LetsGo(h, d)
    <2>1. ASSUME Rests(h)' PROVE "fanned" \in grounds[d]
      <3>1. CASE h \in Queues
        <4>1. h \notin Buses /\ Counted(h, at[h]) = {Behind[h]}
          BY <3>1, PipelineAssumption DEF Counted, Matching
        <4>2. QED
          BY <1>6, <1>8, <2>1, <4>1
      <3>2. CASE h \notin Queues
        <4>1. Counted(h, at[h]) = Takers(h, at[h])
          BY <3>2 DEF Counted
        <4>2. \E t \in Takers(h, at[h]) : t # s
          BY <1>6, <1>8, <2>1, <4>1
        <4>3. QED
          BY <1>8, <4>1, <4>2 DEF WorkInv, SingleInv, Shared, Carries
      <3>3. QED
        BY <3>1, <3>2
    <2>2. QED
      BY <1>1, <1>3, <1>5, <1>7, <1>8, <2>1 DEF LetsGo
  <1>9. ASSUME s \notin Counted(h, at[h]) PROVE Handling(d)' = Handling(d)
    <2>1. h \in Handling(d) <=> h \in Handling(d)'
      BY <1>5, <1>6, <1>7, <1>9
    <2>2. QED
      BY <1>3, <2>1, OtherHands
  <1>10. QED
    BY <1>3, <1>8, <1>9

LEMMA SharedKept ==
  ASSUME WorkInv, NEW m \in Messages, NEW g, NEW o, Rules(m, g, o),
         \A h \in Hops : at'[h] = at[h] \/ at'[h] = None
  PROVE  \A h \in Hops : Shared(h)'
  <1>1. \A d \in Deliveries : grounds[d] \subseteq grounds'[d]
    BY RulesAt DEF WorkInv, PipeInv
  <1>2. \A h \in Hops : at[h] # None => at[h].d \in Deliveries
    BY MessageParts DEF WorkInv, PipeInv, HandInv
  <1>3. ASSUME NEW h \in Hops, at'[h] = at[h] PROVE Shared(h)'
    <2>1. Shared(h)
      BY DEF WorkInv, SingleInv
    <2>2. QED
      BY <1>1, <1>2, <1>3, <2>1 DEF Shared, Takers, Matching
  <1>4. QED
    BY <1>3 DEF Shared

-----------------------------------------------------------------------------
(* The calls.                                                              *)

LEMMA CallTouches ==
  ASSUME WorkInv, NEW h \in Hops, NEW s \in todo[h], Begins(h, s), UNCHANGED <<at, asking>>
  PROVE  /\ OnlyAt(h)
         /\ at[h] \in Messages /\ Tagged(at[h]) /\ s \in Subscribers
         /\ s \in Counted(h, at[h]) <=> h \in Queues \/ Disposition[s] # "observed"
  <1>1. todo' = [todo EXCEPT ![h] = @ \ {s}]
    BY DEF Begins
  <1>2. OnlyAt(h)
    BY <1>1 DEF OnlyAt, WorkInv, PipeInv, HandInv
  <1>3. at[h] \in Messages /\ Tagged(at[h]) /\ s \in Subscribers /\ s \in Matching(h, at[h])
    BY Called DEF WorkInv
  <1>4. QED
    BY <1>2, <1>3 DEF Counted, Takers

(* A call that ends it: the subscriber has settled, or nobody will.        *)
LEMMA EndingCall ==
  ASSUME WorkInv, NEW h \in Hops, NEW s \in todo[h], Begins(h, s),
         UNCHANGED <<line, at, asking, mode, pending>>,
         NEW g, NEW o, Rules(at[h], g, o),
         s \in Counted(h, at[h]) /\ at[h].mode = "auto" => o # "open" \/ "abandoned" \in g,
         s \notin Counted(h, at[h]) => o = outcome[at[h].d]
  PROVE  Grounded' /\ SingleInv' /\ CustodyInv'
  <1>1. PICK m \in Messages : m = at[h] /\ Tagged(m)
    BY CallTouches
  <1>2. VerdictInv /\ Grounded /\ SingleInv /\ CustodyInv /\ OnlyAt(h) /\ Rules(m, g, o)
    BY <1>1, CallTouches DEF WorkInv, PipeInv
  <1>3. Grounded'
    BY <1>1, <1>2, StillGrounded
  <1>4. \A f \in Hops : Shared(f)'
    BY <1>1, <1>2, SharedKept
  <1>5. ASSUME NEW d \in Deliveries PROVE SingleOf(d)' /\ CustodyOf(d)'
    <2>1. SameLines(d) /\ Working(d)' = Working(d) /\ mode'[d] = mode[d]
      BY LinesUnchanged DEF Working
    <2>2. CASE ~Carries(m, d)
      BY <1>1, <1>2, <2>1, <2>2, Untouched
    <2>3. CASE Carries(m, d)
      <3>1. /\ outcome'[d] = o /\ grounds[d] \subseteq grounds'[d] /\ m.d = d
            /\ SingleOf(d) /\ CustodyOf(d)
        BY <1>1, <1>2, <2>3, RulesAt DEF Carries, SingleInv, CustodyInv
      <3>2. CASE s \in Counted(h, at[h])
        <4>1. LetsGo(h, d)
          BY <1>1, <2>3, <3>1, <3>2, CallLetsGo
        <4>2. m.mode = "auto" => o # "open" \/ "abandoned" \in g
          BY <1>1, <3>2
        <4>3. QED
          BY <1>1, <1>2, <2>3, <4>1, <4>2, LetGoEnds
      <3>3. CASE s \notin Counted(h, at[h])
        <4>1. Handling(d)' = Handling(d)
          BY <1>1, <2>3, <3>1, <3>3, CallLetsGo
        <4>2. QED
          BY <1>1, <2>1, <3>1, <3>3, <4>1, Staying
      <3>4. QED
        BY <3>2, <3>3
    <2>4. QED
      BY <2>2, <2>3
  <1>6. QED
    BY <1>3, <1>4, <1>5 DEF SingleInv, CustodyInv

LEMMA PlainCall ==
  ASSUME WorkInv, NEW h \in Hops, NEW s \in todo[h], Begins(h, s),
         UNCHANGED <<line, at, asking, mode, pending>>,
         NEW failed \in BOOLEAN, Settles(at[h], s, failed),
         NEW g \in SUBSET Grounds, Note(at[h], g),
         Disposition[s] # "observed" /\ failed =>
             g \intersect {"failed", "refused", "tapped"} # {},
         Disposition[s] = "handled" /\ ~failed => g \intersect {"handled", "filtered"} # {},
         Disposition[s] = "deferred" /\ ~failed => "abandoned" \in g,
         Disposition[s] = "observed" /\ h \in Queues => "abandoned" \in g
  PROVE  Grounded' /\ SingleInv' /\ CustodyInv'
  <1> DEFINE o == After(at[h], s, failed, outcome[at[h].d])
  <1>1. /\ at[h] \in Messages /\ Tagged(at[h]) /\ s \in Subscribers
        /\ s \in Counted(h, at[h]) <=> h \in Queues \/ Disposition[s] # "observed"
    BY CallTouches
  <1>2. Rules(at[h], g, o)
    BY <1>1, ReturnRules DEF WorkInv, PipeInv
  <1>3. s \in Counted(h, at[h]) /\ at[h].mode = "auto" => o # "open" \/ "abandoned" \in g
    BY <1>1, ReturnEnds
  <1>4. s \notin Counted(h, at[h]) => o = outcome[at[h].d]
    BY <1>1 DEF After, SettleOnReturn
  <1> HIDE DEF o
  <1>5. QED
    BY <1>2, <1>3, <1>4, EndingCall

LEMMA CallDroppedWorks ==
  ASSUME WorkInv, NEW h \in Hops, NEW s \in todo[h], CallDropped(h, s)
  PROVE  Grounded' /\ SingleInv' /\ CustodyInv'
  <1>1. /\ Begins(h, s) /\ Settles(at[h], s, FALSE)
        /\ UNCHANGED <<line, at, asking, mode, pending>>
    BY DEF CallDropped
  <1>2. PICK g \in SUBSET {"filtered", "abandoned"} :
            /\ Note(at[h], g)
            /\ Disposition[s] = "handled" => g = {"filtered"}
            /\ Disposition[s] = "deferred" => g = {"abandoned"}
            /\ Disposition[s] = "observed" => g = (IF h \in Queues THEN {"abandoned"} ELSE {})
    BY <1>1, CallTouches, DroppedNotes DEF WorkInv
  <1>3. g \in SUBSET Grounds
    BY DEF Grounds
  <1>4. QED
    BY <1>1, <1>2, <1>3, PlainCall

LEMMA CallObserverWorks ==
  ASSUME WorkInv, NEW h \in Hops, NEW s \in todo[h], NEW failed \in BOOLEAN,
         CallObserver(h, s, failed)
  PROVE  Grounded' /\ SingleInv' /\ CustodyInv'
  <1> DEFINE g == IF h \in Queues THEN {"abandoned"} ELSE {}
  <1>1. /\ Begins(h, s) /\ Settles(at[h], s, failed) /\ Note(at[h], g)
        /\ End[s].kind \in {"observe", "log"}
        /\ UNCHANGED <<line, at, asking, mode, pending>>
    BY DEF CallObserver
  <1>2. Disposition[s] = "observed"
    BY <1>1, CallTouches, PipelineAssumption
  <1>3. g \in SUBSET Grounds /\ (h \in Queues => "abandoned" \in g)
    BY DEF Grounds
  <1> HIDE DEF g
  <1>4. QED
    BY <1>1, <1>2, <1>3, PlainCall, ZenonT(40)

LEMMA CallHandlerWorks ==
  ASSUME WorkInv, NEW h \in Hops, NEW s \in todo[h], NEW failed \in BOOLEAN,
         CallHandler(h, s, failed)
  PROVE  Grounded' /\ SingleInv' /\ CustodyInv'
  <1> DEFINE g == IF failed THEN {"failed"} ELSE {"handled"}
  <1>1. /\ Begins(h, s) /\ Settles(at[h], s, failed) /\ Note(at[h], g)
        /\ End[s].kind = "handle"
        /\ UNCHANGED <<line, at, asking, mode, pending>>
    BY DEF CallHandler
  <1>2. Disposition[s] \notin {"observed", "deferred"}
    BY <1>1, CallTouches, PipelineAssumption
  <1>3. /\ g \in SUBSET Grounds
        /\ failed => g \intersect {"failed", "refused"} # {}
        /\ ~failed => g \intersect {"handled", "filtered"} # {}
    BY DEF Grounds
  <1> HIDE DEF g
  <1>4. QED
    BY <1>1, <1>2, <1>3, PlainCall

(* A call that hands the message on.                                       *)
LEMMA SendingCall ==
  ASSUME WorkInv, NEW h \in Hops, NEW s \in todo[h], Begins(h, s), s \in Counted(h, at[h]),
         UNCHANGED <<at, asking, mode, pending, outcome>>, Note(at[h], {}),
         NEW q \in Hops, NEW n \in Messages, Sends(q, n), n.d = at[h].d, n.mode = at[h].mode
  PROVE  Grounded' /\ SingleInv' /\ CustodyInv'
  <1>1. PICK m \in Messages : m = at[h] /\ Tagged(m)
    BY CallTouches
  <1>2. /\ VerdictInv /\ LineInv /\ Grounded /\ SingleInv /\ CustodyInv /\ OnlyAt(h)
        /\ {} \in SUBSET Grounds
    BY CallTouches DEF WorkInv, PipeInv
  <1>3. Rules(m, {}, outcome[m.d])
    BY <1>1, <1>2, NoRules
  <1>4. Grounded'
    BY <1>1, <1>3, StillGrounded
  <1>5. \A f \in Hops : Shared(f)'
    BY <1>1, <1>3, SharedKept
  <1>6. ASSUME NEW d \in Deliveries PROVE SingleOf(d)' /\ CustodyOf(d)'
    <2>1. Carries(n, d) <=> Carries(m, d)
      BY <1>1, MessageParts DEF Carries
    <2>2. CASE ~Carries(m, d)
      <3>1. SameLines(d) /\ Working(d)' = Working(d) /\ mode'[d] = mode[d]
        BY <1>2, <2>1, <2>2, SentLines DEF Working
      <3>2. QED
        BY <1>1, <1>2, <1>3, <2>2, <3>1, Untouched
    <2>3. CASE Carries(m, d)
      <3>1. grounds[d] \subseteq grounds'[d] /\ outcome'[d] = outcome[d]
        BY <1>1, <1>2, <1>3, RulesAt
      <3>2. LetsGo(h, d)
        BY <1>1, <2>3, <3>1, CallLetsGo
      <3>3. QED
        BY <2>1, <2>3, <3>1, <3>2, LetGoSends
    <2>4. QED
      BY <2>2, <2>3
  <1>7. QED
    BY <1>4, <1>5, <1>6 DEF SingleInv, CustodyInv

LEMMA CallDeferrerWorks ==
  ASSUME WorkInv, NEW h \in Hops, NEW s \in todo[h], NEW failed \in BOOLEAN,
         CallDeferrer(h, s, failed)
  PROVE  Grounded' /\ SingleInv' /\ CustodyInv'
  <1>1. /\ Begins(h, s) /\ Settles(at[h], s, failed) /\ Arriving(h, s) # None
        /\ Note(at[h], IF failed THEN {"failed"} ELSE {})
        /\ pending' = IF failed THEN pending ELSE pending \union {<<s, Given(h, s)>>}
        /\ End[s].kind = "defer"
        /\ UNCHANGED <<line, at, asking, mode>>
    BY DEF CallDeferrer
  <1>2. /\ at[h] \in Messages /\ Tagged(at[h]) /\ s \in Subscribers /\ OnlyAt(h)
        /\ s \in Counted(h, at[h]) <=> h \in Queues \/ Disposition[s] # "observed"
    BY <1>1, CallTouches
  <1>3. Disposition[s] = "deferred"
    BY <1>1, <1>2, PipelineAssumption
  <1>4. {"failed"} \in SUBSET Grounds /\ {} \in SUBSET Grounds
    BY DEF Grounds
  <1>5. CASE failed
    BY <1>1, <1>3, <1>4, <1>5, PlainCall
  <1>6. CASE ~failed
    <2> PICK m \in Messages : m = at[h]
      BY <1>2
    <2>1. UNCHANGED outcome
      <3>1. /\ m.d \in Deliveries /\ outcome \in [Deliveries -> Outcomes]
            /\ outcome' = [outcome EXCEPT ![m.d] = After(m, s, failed, outcome[m.d])]
        BY <1>1, <1>2, MessageParts DEF Settles, WorkInv, PipeInv, VerdictInv
      <3>2. After(m, s, failed, outcome[m.d]) = outcome[m.d]
        BY <1>3, <1>6 DEF After, SettleOnReturn
      <3>3. QED
        BY <3>1, <3>2
    <2>2. Note(m, {})
      BY <1>1, <1>6
    <2>3. Rules(m, {}, outcome[m.d])
      BY <1>2, <1>4, <2>1, <2>2, NoRules DEF WorkInv, PipeInv
    <2>4. Grounded'
      BY <1>1, <1>2, <2>3, StillGrounded
    <2>5. \A f \in Hops : Shared(f)'
      BY <1>1, <1>2, <2>3, SharedKept
    <2>6. ASSUME NEW d \in Deliveries PROVE SingleOf(d)' /\ CustodyOf(d)'
      <3>1. PICK w : /\ pending' = pending \union {w}
                     /\ Carries(w[2], d) <=> Carries(m, d)
        <4>1. pending' = pending \union {<<s, Given(h, s)>>}
          BY <1>1, <1>6
        <4>2. Carries(Given(h, s), d) <=> Carries(m, d)
          <5>1. Given(h, s) # None /\ m # None
            BY <1>1, <1>2, GivenMessage, MessageParts
          <5>2. QED
            BY <1>1, <1>2, <5>1, GivenMessage DEF Carries
        <4>3. <<s, Given(h, s)>>[2] = Given(h, s)
          OBVIOUS
        <4>4. QED
          BY <4>1, <4>2, <4>3
      <3>2. CASE ~Carries(m, d)
        <4>1. Working(d)' = Working(d)
          BY <3>1, <3>2 DEF Working, Carries
        <4>2. SameLines(d) /\ mode'[d] = mode[d]
          BY <1>1, LinesUnchanged
        <4>3. QED
          BY <1>1, <1>2, <2>3, <3>2, <4>1, <4>2, Untouched
      <3>3. CASE Carries(m, d)
        <4>1. grounds[d] \subseteq grounds'[d] /\ outcome'[d] = outcome[d]
          BY <1>2, <2>1, <2>3, RulesAt DEF WorkInv, PipeInv
        <4>2. LetsGo(h, d)
          BY <1>1, <1>2, <1>3, <3>3, <4>1, CallLetsGo
        <4>3. QED
          BY <1>1, <3>1, <3>3, <4>1, <4>2, LetGoDefers
      <3>4. QED
        BY <3>2, <3>3
    <2>7. QED
      BY <2>4, <2>5, <2>6 DEF SingleInv, CustodyInv
  <1>7. QED
    BY <1>5, <1>6

LEMMA CallQueueWorks ==
  ASSUME WorkInv, NEW h \in Hops, NEW s \in todo[h], CallQueue(h, s)
  PROVE  Grounded' /\ SingleInv' /\ CustodyInv'
  <1> DEFINE q == End[s].parts[Arriving(h, s)]
             m == at[h]
  <1>1. /\ Begins(h, s) /\ Arriving(h, s) # None /\ End[s].kind = "queue"
        /\ Settles(m, s, ~Room(q))
        /\ line' = IF Room(q) THEN [line EXCEPT ![q] = Append(@, Given(h, s))] ELSE line
        /\ Note(m, IF Room(q) THEN {} ELSE {"refused"})
        /\ UNCHANGED <<at, asking, mode, pending>>
    BY DEF CallQueue
  <1>2. /\ m \in Messages /\ Tagged(m) /\ s \in Subscribers
        /\ s \in Counted(h, m) <=> h \in Queues \/ Disposition[s] # "observed"
    BY <1>1, CallTouches
  <1>3. Disposition[s] = "deferred"
    BY <1>1, <1>2, PipelineAssumption
  <1>4. /\ Given(h, s) \in Messages /\ Given(h, s).d = m.d /\ Given(h, s).mode = m.mode
        /\ Arriving(h, s) \in Topics
    BY <1>1, <1>2, GivenMessage
  <1>5. q \in Hops
    BY <1>1, <1>2, <1>4, PipelineAssumption DEF Hops
  <1> HIDE DEF q
  <1>6. CASE Room(q)
    <2>1. Sends(q, Given(h, s)) /\ Note(m, {})
      BY <1>1, <1>6 DEF Sends
    <2>2. UNCHANGED outcome
      <3>1. /\ m.d \in Deliveries /\ outcome \in [Deliveries -> Outcomes]
            /\ outcome' = [outcome EXCEPT ![m.d] = After(m, s, ~Room(q), outcome[m.d])]
        BY <1>1, <1>2, MessageParts DEF Settles, WorkInv, PipeInv, VerdictInv
      <3>2. After(m, s, ~Room(q), outcome[m.d]) = outcome[m.d]
        BY <1>3, <1>6 DEF After, SettleOnReturn
      <3>3. QED
        BY <3>1, <3>2
    <2>3. QED
      BY <1>1, <1>2, <1>3, <1>4, <1>5, <2>1, <2>2, SendingCall
  <1>7. CASE ~Room(q)
    <2>1. /\ UNCHANGED <<line, at, asking, mode, pending>>
          /\ Settles(m, s, TRUE) /\ Note(m, {"refused"})
      BY <1>1, <1>7
    <2>2. {"refused"} \in SUBSET Grounds
      BY DEF Grounds
    <2>3. QED
      BY <1>1, <1>3, <2>1, <2>2, PlainCall
  <1>8. QED
    BY <1>6, <1>7

LEMMA CallBusWorks ==
  ASSUME WorkInv, NEW h \in Hops, NEW s \in todo[h], CallBus(h, s)
  PROVE  Grounded' /\ SingleInv' /\ CustodyInv'
  <1> DEFINE b == End[s].bus
             m == at[h]
             o == SettleRefused(m.mode, outcome[m.d])
  <1>1. /\ Begins(h, s) /\ Arriving(h, s) # None /\ End[s].kind = "bus"
        /\ line' = IF Room(b) THEN [line EXCEPT ![b] = Append(@, Given(h, s))] ELSE line
        /\ Note(m, IF Room(b) THEN {} ELSE {"refused"})
        /\ UNCHANGED <<at, asking, mode, pending>>
    BY DEF CallBus
  <1>2. /\ m \in Messages /\ Tagged(m) /\ s \in Subscribers
        /\ s \in Counted(h, m) <=> h \in Queues \/ Disposition[s] # "observed"
    BY <1>1, CallTouches
  <1>3. s \in Counted(h, m)
    BY <1>1, <1>2, PipelineAssumption
  <1>4. /\ Given(h, s) \in Messages /\ Given(h, s).d = m.d /\ Given(h, s).mode = m.mode
        /\ b \in Hops
    BY <1>1, <1>2, GivenMessage, PipelineAssumption DEF Hops
  <1>5. outcome' = [outcome EXCEPT ![m.d] = IF Room(b) THEN @ ELSE SettleRefused(m.mode, @)]
    BY BusSettles DEF WorkInv
  <1>6. m.d \in Deliveries /\ outcome \in [Deliveries -> Outcomes] /\ VerdictInv
    BY <1>2, MessageParts DEF WorkInv, PipeInv, VerdictInv
  <1> HIDE DEF b
  <1>7. CASE Room(b)
    <2>1. Sends(b, Given(h, s)) /\ Note(m, {}) /\ UNCHANGED outcome
      BY <1>1, <1>5, <1>6, <1>7 DEF Sends
    <2>2. QED
      BY <1>1, <1>3, <1>4, <2>1, SendingCall
  <1>8. CASE ~Room(b)
    <2>1. Refuses(m, "refused") /\ UNCHANGED line
      BY <1>1, <1>5, <1>8 DEF Refuses
    <2>2. Rules(m, {"refused"}, o)
      BY <1>2, <1>6, <2>1, RefusalRules
    <2>3. m.mode = "auto" => o # "open"
      BY DEF SettleRefused, Settle
    <2> HIDE DEF o
    <2>4. QED
      BY <1>1, <1>3, <2>1, <2>2, <2>3, EndingCall
  <1>9. QED
    BY <1>7, <1>8

(* While a subscriber asks, the delivery stays in the hand of its hop: the *)
(* message it sends carries no settler.                                    *)
LEMMA AskWorks ==
  ASSUME WorkInv, NEW h \in Hops, NEW s \in todo[h], Ask(h, s)
  PROVE  Grounded' /\ SingleInv' /\ CustodyInv'
  <1> DEFINE b == End[s].bus
             n == [Given(h, s) EXCEPT !.mode = "none", !.asker = h]
  <1>1. /\ Begins(h, s) /\ Arriving(h, s) # None /\ End[s].kind = "ask"
        /\ asking' = [asking EXCEPT ![h] = s]
        /\ \/ Room(b) /\ line' = [line EXCEPT ![b] = Append(@, n)]
           \/ UNCHANGED line
        /\ UNCHANGED <<at, mode, outcome, pending, grounds>>
    BY DEF Ask, deliveries
  <1>2. at[h] \in Messages /\ s \in Subscribers
    BY <1>1, Called DEF WorkInv
  <1>3. n \in Messages /\ b \in Hops /\ n.mode = "none"
    <2>1. n \in Messages
      BY <1>1, <1>2, GivenMessage
    <2>2. n.mode = "none"
      BY <1>2 DEF Given, Messages
    <2>3. QED
      BY <1>1, <1>2, <2>1, <2>2, PipelineAssumption DEF Hops
  <1> HIDE DEF n, b
  <1>4. /\ todo' = [todo EXCEPT ![h] = @ \ {s}] /\ asking[h] = None /\ s \in todo[h]
        /\ todo \in [Hops -> SUBSET Subscribers]
        /\ asking \in [Hops -> Subscribers \union {None}]
        /\ None \notin Subscribers
    BY <1>1, PipelineAssumption DEF Begins, WorkInv, PipeInv, HandInv
  <1>5. todo'[h] = todo[h] \ {s} /\ asking'[h] = s
    BY <1>1, <1>4
  <1>6. OnlyAt(h)
    BY <1>1, <1>4 DEF OnlyAt
  <1>7. Counted(h, at[h]) \subseteq Subscribers
    BY PipelineAssumption DEF Counted, Takers, Matching, Hops
  <1>8. Rests(h)' <=> Rests(h)
    <2>1. \A t \in Counted(h, at[h]) :
             t \in todo'[h] \/ t = asking'[h] <=> t \in todo[h] \/ t = asking[h]
      BY <1>4, <1>5, <1>7
    <2>2. QED
      BY <1>1, <2>1 DEF Rests, Counted, Takers, Matching
  <1>9. Grounded'
    BY <1>1 DEF WorkInv, Grounded, Automatic
  <1>10. \A f \in Hops : Shared(f)'
    BY <1>1 DEF WorkInv, SingleInv, Shared, Takers, Matching
  <1>11. ASSUME NEW d \in Deliveries PROVE SingleOf(d)' /\ CustodyOf(d)'
    <2>1. SameLines(d)
      <3>1. CASE Room(b) /\ line' = [line EXCEPT ![b] = Append(@, n)]
        <4>1. Sends(b, n) /\ ~Carries(n, d)
          BY <1>3, <3>1 DEF Sends, Carries
        <4>2. QED
          BY <1>3, <4>1, SentLines DEF WorkInv, PipeInv
      <3>2. CASE UNCHANGED line
        BY <3>2, LinesUnchanged
      <3>3. QED
        BY <1>1, <3>1, <3>2
    <2>2. Handling(d)' = Handling(d)
      <3>1. h \in Handling(d)' <=> h \in Handling(d)
        BY <1>1, <1>8 DEF Handling, Carries
      <3>2. QED
        BY <1>6, <3>1, OtherHands
    <2>3. Working(d)' = Working(d)
      BY <1>1 DEF Working
    <2>4. SingleOf(d) /\ CustodyOf(d)
      BY DEF WorkInv, SingleInv, CustodyInv
    <2>5. QED
      BY <1>1, <2>1, <2>2, <2>3, <2>4, Staying
  <1>12. QED
    BY <1>9, <1>10, <1>11 DEF SingleInv, CustodyInv

-----------------------------------------------------------------------------
(* The other steps.                                                        *)

(* Whoever has the message besides s makes it a shared one.                *)
LEMMA OtherTaker ==
  ASSUME WorkInv, NEW h \in Hops, NEW d \in Deliveries, Carries(at[h], d),
         NEW s \in Counted(h, at[h]), NEW t \in Counted(h, at[h]), s # t
  PROVE  "fanned" \in grounds[d]
  <1>1. CASE h \in Queues
    BY <1>1 DEF Counted, Matching
  <1>2. CASE h \notin Queues
    <2>1. s \in Takers(h, at[h]) /\ t \in Takers(h, at[h])
      BY <1>2 DEF Counted
    <2>2. QED
      BY <2>1 DEF WorkInv, SingleInv, Shared, Carries
  <1>3. QED
    BY <1>1, <1>2

(* The hop lets go, and that settles an automatic delivery.                *)
LEMMA Ending ==
  ASSUME WorkInv, NEW h \in Hops, OnlyAt(h), NEW m \in Messages, at[h] = m, Tagged(m),
         NEW g, NEW o, Rules(m, g, o), UNCHANGED <<line, pending, mode>>,
         \A f \in Hops : at'[f] = at[f] \/ at'[f] = None,
         \A d \in Deliveries : Carries(m, d) => LetsGo(h, d),
         m.mode = "auto" => o # "open" \/ "abandoned" \in g
  PROVE  Grounded' /\ SingleInv' /\ CustodyInv'
  <1>1. Grounded'
    BY StillGrounded
  <1>2. \A f \in Hops : Shared(f)'
    BY SharedKept
  <1>3. ASSUME NEW d \in Deliveries PROVE SingleOf(d)' /\ CustodyOf(d)'
    <2>1. CASE ~Carries(m, d)
      <3>1. SameLines(d) /\ Working(d)' = Working(d) /\ mode'[d] = mode[d]
        BY LinesUnchanged DEF Working
      <3>2. ~Carries(at'[h], d)
        BY <2>1 DEF Carries
      <3>3. QED
        BY <2>1, <3>1, <3>2, Untouched
    <2>2. CASE Carries(m, d)
      <3>1. LetsGo(h, d)
        BY <2>2
      <3>2. QED
        BY <2>2, <3>1, LetGoEnds
    <2>3. QED
      BY <2>1, <2>2
  <1>4. QED
    BY <1>1, <1>2, <1>3 DEF SingleInv, CustodyInv

LEMMA AskReturnsWorks ==
  ASSUME WorkInv, NEW h \in Hops, NEW failed \in BOOLEAN, AskReturns(h, failed)
  PROVE  Grounded' /\ SingleInv' /\ CustodyInv'
  <1>0. PICK g \in SUBSET {"handled", "tapped", "failed"} :
           /\ Note(at[h], g)
           /\ ~failed => g = {"handled"}
           /\ failed => g \in {{"tapped"}, {"failed"}}
    BY MadeNotes
  <1>1. /\ asking[h] # None /\ Settles(at[h], asking[h], failed) /\ Note(at[h], g)
        /\ asking' = [asking EXCEPT ![h] = None]
        /\ UNCHANGED <<line, at, todo, mode, pending>>
    BY <1>0 DEF AskReturns
  <1>2. /\ g \in SUBSET Grounds
        /\ failed => g \intersect {"failed", "refused", "tapped"} # {}
        /\ ~failed => g \intersect {"handled", "filtered"} # {}
    BY <1>0 DEF Grounds
  <1>3. /\ AtWork(h) /\ asking \in [Hops -> Subscribers \union {None}]
        /\ None \notin Subscribers
    BY PipelineAssumption DEF WorkInv, PipeInv, HandInv
  <1>4. PICK s \in Subscribers : s = asking[h]
    BY <1>1, <1>3
  <1>5. /\ at[h] # None /\ s \in Matching(h, at[h]) /\ s \notin todo[h]
        /\ End[s].kind = "ask"
    BY <1>1, <1>3, <1>4 DEF AtWork
  <1>6. PICK m \in Messages : at[h] = m /\ Tagged(m)
    BY <1>5, AtHand DEF WorkInv
  <1>7. Disposition[s] \notin {"deferred", "observed"}
    BY <1>5, PipelineAssumption
  <1>8. s \in Counted(h, m) /\ Counted(h, m) \subseteq Subscribers
    BY <1>5, <1>6, <1>7, PipelineAssumption DEF Counted, Takers, Matching, Hops
  <1>9. Rules(m, g, After(m, s, failed, outcome[m.d]))
    BY <1>1, <1>2, <1>4, <1>6, <1>7, ReturnRules DEF WorkInv, PipeInv
  <1>10. m.mode = "auto" => After(m, s, failed, outcome[m.d]) # "open"
    BY <1>6, <1>7, ReturnEnds
  <1>11. OnlyAt(h)
    BY <1>1, <1>3 DEF OnlyAt
  <1>12. ASSUME NEW d \in Deliveries, Carries(m, d) PROVE LetsGo(h, d)
    <2>1. h \in Handling(d)
      BY <1>4, <1>6, <1>8, <1>12 DEF Handling, Rests
    <2>2. ASSUME h \in Handling(d)' PROVE "fanned" \in grounds[d]
      <3>1. \/ \E t \in Counted(h, m) : t \in todo[h]
            \/ h \in Buses /\ Takers(h, m) = {}
        <4>1. Rests(h)' /\ asking'[h] = None
          BY <1>1, <1>3, <2>2 DEF Handling
        <4>2. QED
          BY <1>1, <1>3, <1>6, <1>8, <4>1 DEF Rests, Counted, Takers, Matching
      <3>2. ~(h \in Buses /\ Takers(h, m) = {})
        BY <1>8, PipelineAssumption DEF Counted
      <3>3. PICK t \in Counted(h, m) : t # s
        BY <1>5, <3>1, <3>2
      <3>4. QED
        BY <1>6, <1>8, <1>12, <3>3, OtherTaker
    <2>3. grounds[d] \subseteq grounds'[d]
      BY <1>9, RulesAt DEF WorkInv, PipeInv
    <2>4. QED
      BY <1>11, <2>1, <2>2, <2>3 DEF LetsGo
  <1>13. QED
    BY <1>1, <1>6, <1>9, <1>10, <1>11, <1>12, Ending

LEMMA FinishWorks ==
  ASSUME WorkInv, NEW h \in Hops, Finish(h)
  PROVE  Grounded' /\ SingleInv' /\ CustodyInv'
  <1>1. /\ at[h] # None /\ todo[h] = {} /\ asking[h] = None
        /\ at' = [at EXCEPT ![h] = None]
        /\ \/ h \in Buses /\ ~TakenUp(h, at[h]) /\ NoteUndelivered(h, at[h])
           \/ (h \in Queues \/ TakenUp(h, at[h])) /\ UNCHANGED <<line, outcome, grounds>>
        /\ UNCHANGED <<todo, asking, mode, pending>>
    BY DEF Finish
  <1>2. PICK m \in Messages : at[h] = m /\ Tagged(m)
    BY <1>1, AtHand DEF WorkInv
  <1>3. /\ LineInv /\ VerdictInv /\ at \in [Hops -> Messages \union {None}]
        /\ None \notin Subscribers
    BY PipelineAssumption DEF WorkInv, PipeInv, HandInv
  <1>4. /\ OnlyAt(h) /\ at'[h] = None
        /\ \A f \in Hops : at'[f] = at[f] \/ at'[f] = None
    BY <1>1, <1>3 DEF OnlyAt
  <1>5. \A d : h \notin Handling(d)'
    BY <1>4 DEF Handling, Carries
  <1>6. CASE h \in Buses /\ ~TakenUp(h, m) /\ NoteUndelivered(h, m)
    <2>1. ASSUME NEW d \in Deliveries, Carries(m, d) PROVE LetsGo(h, d)
      BY <1>2, <1>4, <1>5, <1>6, <2>1 DEF LetsGo, Handling, Rests, TakenUp
    <2>2. ASSUME NEW why \in {"refused", "unhandled"}, Refuses(m, why), UNCHANGED line
          PROVE  Grounded' /\ SingleInv' /\ CustodyInv'
      <3>1. Rules(m, {why}, SettleRefused(m.mode, outcome[m.d]))
        BY <1>3, <2>2, RefusalRules
      <3>2. m.mode = "auto" => SettleRefused(m.mode, outcome[m.d]) # "open"
        BY DEF SettleRefused, Settle
      <3>3. QED
        BY <1>1, <1>2, <1>4, <2>1, <2>2, <3>1, <3>2, Ending
    <2>3. CASE /\ outcome' =
                      [outcome EXCEPT ![m.d] = SettleOnReturn(m.mode, @, "handled", FALSE)]
               /\ Note(m, {"unwanted"})
               /\ UNCHANGED line
      <3>1. Rules(m, {"unwanted"}, SettleOnReturn(m.mode, outcome[m.d], "handled", FALSE))
        BY <1>3, <2>3, WorkRules
      <3>2. m.mode = "auto" => SettleOnReturn(m.mode, outcome[m.d], "handled", FALSE) # "open"
        BY DEF SettleOnReturn, Settle
      <3>3. QED
        BY <1>1, <1>2, <1>4, <2>1, <2>3, <3>1, <3>2, Ending
    <2>4. CASE Sends(h, Copy(m)) /\ UNCHANGED <<outcome, grounds>>
      <3>1. Grounded'
        BY <1>1, <2>4 DEF WorkInv, Grounded, Automatic
      <3>2. \A f \in Hops : Shared(f)'
        BY <1>4, <2>4 DEF WorkInv, SingleInv, Shared, Takers, Matching
      <3>3. ASSUME NEW d \in Deliveries PROVE SingleOf(d)' /\ CustodyOf(d)'
        <4>1. Copy(m) \in Messages /\ (Carries(Copy(m), d) <=> Carries(m, d))
          BY CopiedMessage, MessageParts DEF Carries
        <4>2. Working(d)' = Working(d)
          BY <1>1 DEF Working
        <4>3. CASE ~Carries(m, d)
          <5>1. SameLines(d)
            BY <1>3, <2>4, <4>1, <4>3, SentLines
          <5>2. h \notin Handling(d)
            BY <1>2, <4>3 DEF Handling
          <5>3. Handling(d)' = Handling(d)
            BY <1>4, <1>5, <5>2, OtherHands
          <5>4. SingleOf(d) /\ CustodyOf(d)
            BY DEF WorkInv, SingleInv, CustodyInv
          <5>5. QED
            BY <1>1, <2>4, <4>2, <5>1, <5>3, <5>4, Staying
        <4>4. CASE Carries(m, d)
          BY <1>1, <2>1, <2>4, <4>1, <4>4, LetGoSends
        <4>5. QED
          BY <4>3, <4>4
      <3>4. QED
        BY <3>1, <3>2, <3>3 DEF SingleInv, CustodyInv
    <2>5. Publish(h, Copy(m)) => \/ Sends(h, Copy(m)) /\ UNCHANGED <<outcome, grounds>>
                                 \/ Refuses(m, "refused") /\ UNCHANGED line
      BY CopiedMessage DEF Publish, Sends, Refuses, Note
    <2>6. QED
      BY <1>6, <2>2, <2>3, <2>4, <2>5 DEF NoteUndelivered, Copy
  <1>7. CASE (h \in Queues \/ TakenUp(h, m)) /\ UNCHANGED <<line, outcome, grounds>>
    <2>1. Grounded'
      BY <1>1, <1>7 DEF WorkInv, Grounded, Automatic
    <2>2. \A f \in Hops : Shared(f)'
      BY <1>4, <1>7 DEF WorkInv, SingleInv, Shared, Takers, Matching
    <2>3. ASSUME NEW d \in Deliveries PROVE SingleOf(d)' /\ CustodyOf(d)'
      <3>1. ~Rests(h)
        <4>1. Counted(h, m) \subseteq Subscribers
          BY PipelineAssumption DEF Counted, Takers, Matching, Hops
        <4>2. ~(h \in Buses /\ Takers(h, m) = {})
          BY <1>7, PipelineAssumption DEF TakenUp
        <4>3. QED
          BY <1>1, <1>2, <1>3, <4>1, <4>2 DEF Rests
      <3>2. Handling(d)' = Handling(d)
        <4>1. h \notin Handling(d)
          BY <3>1 DEF Handling
        <4>2. QED
          BY <1>4, <1>5, <4>1, OtherHands
      <3>3. SameLines(d) /\ Working(d)' = Working(d) /\ SingleOf(d) /\ CustodyOf(d)
        BY <1>1, <1>7, LinesUnchanged DEF Working, WorkInv, SingleInv, CustodyInv
      <3>4. QED
        BY <1>1, <1>7, <3>2, <3>3, Staying
    <2>4. QED
      BY <2>1, <2>2, <2>3 DEF SingleInv, CustodyInv
  <1>8. QED
    BY <1>1, <1>2, <1>6, <1>7

LEMMA TakeWorks ==
  ASSUME WorkInv, NEW h \in Hops, Take(h)
  PROVE  Grounded' /\ SingleInv' /\ CustodyInv'
  <1> DEFINE hd == Head(line[h])
             g == IF \E s, t \in Takers(h, hd) : s # t THEN {"fanned"} ELSE {}
  <1>1. /\ at[h] = None /\ line[h] # <<>>
        /\ at' = [at EXCEPT ![h] = hd]
        /\ todo' = [todo EXCEPT ![h] = Matching(h, hd)]
        /\ Note(hd, g)
        /\ line' = [line EXCEPT ![h] = Tail(@)]
        /\ UNCHANGED <<asking, mode, outcome, pending>>
    BY DEF Take
  <1>2. LineInv /\ VerdictInv /\ TagInv /\ g \in SUBSET Grounds
    BY DEF WorkInv, PipeInv, Grounds
  <1>3. hd \in Messages /\ Occurs(line[h], hd)
    BY <1>1, <1>2, TakenLine
  <1>4. PICK m \in Messages : m = hd /\ Tagged(m)
    BY <1>2, <1>3 DEF TagInv
  <1>5. Rules(m, g, outcome[m.d])
    BY <1>1, <1>2, <1>4, NoRules
  <1>6. /\ at'[h] = m /\ todo'[h] = Matching(h, m) /\ asking'[h] = None /\ OnlyAt(h)
        /\ \A f \in Hops \ {h} : at'[f] = at[f]
    BY <1>1, <1>4 DEF OnlyAt, WorkInv, PipeInv, HandInv, AtWork
  <1>7. Grounded'
    BY <1>1, <1>4, <1>5, StillGrounded
  <1>8. \A d \in Deliveries : grounds[d] \subseteq grounds'[d]
    BY <1>2, <1>5, RulesAt
  <1>9. \A f \in Hops : Shared(f)'
    <2>1. Shared(h)'
      <3>1. Carries(m, m.d) /\ (\E s, t \in Takers(h, m) : s # t) => "fanned" \in grounds'[m.d]
        BY <1>2, <1>4, <1>5, MessageParts, RulesAt
      <3>2. QED
        BY <1>6, <3>1 DEF Shared, Carries, Takers, Matching
    <2>2. ASSUME NEW f \in Hops \ {h} PROVE Shared(f)'
      <3>1. Shared(f) /\ (at[f] # None => at[f].d \in Deliveries)
        BY MessageParts DEF WorkInv, SingleInv, PipeInv, HandInv
      <3>2. QED
        BY <1>6, <1>8, <3>1 DEF Shared, Takers, Matching
    <2>3. QED
      BY <2>1, <2>2
  <1>10. Rests(h)'
    <2>1. CASE h \in Queues
      <3>1. Behind[h] \in Counted(h, m) /\ Behind[h] \in Matching(h, m)
        BY <2>1 DEF Counted, Matching
      <3>2. QED
        BY <1>6, <3>1 DEF Rests, Counted, Matching
    <2>2. CASE h \notin Queues
      <3>1. /\ h \in Buses /\ Counted(h, m) = Takers(h, m)
            /\ Takers(h, m) \subseteq Matching(h, m)
        BY <2>2 DEF Hops, Counted, Takers
      <3>2. QED
        BY <1>6, <3>1 DEF Rests, Counted, Takers, Matching
    <2>3. QED
      BY <2>1, <2>2
  <1>11. ASSUME NEW d \in Deliveries PROVE SingleOf(d)' /\ CustodyOf(d)'
    <2>1. /\ SingleOf(d) /\ CustodyOf(d) /\ Working(d)' = Working(d) /\ mode'[d] = mode[d]
          /\ outcome'[d] = outcome[d]
      BY <1>1 DEF WorkInv, SingleInv, CustodyInv, Working
    <2>2. /\ ~Carries(m, d) => SameLines(d)
          /\ \A f \in Hops : OnceOn(f, d) => OnceOn(f, d)'
          /\ Lining(d)' \subseteq Lining(d)
          /\ Carries(m, d) => h \in Lining(d) /\ (OnceOn(h, d) => h \notin Lining(d)')
      BY <1>1, <1>2, <1>4, TakenLines
    <2>3. CASE ~Carries(m, d)
      <3>1. ~Carries(at[h], d) /\ ~Carries(at'[h], d)
        BY <1>1, <1>6, <2>3 DEF Carries
      <3>2. QED
        BY <1>5, <1>6, <2>1, <2>2, <2>3, <3>1, Untouched
    <2>4. CASE Carries(m, d)
      <3>1. Handling(d)' = Handling(d) \union {h}
        <4>1. h \in Handling(d)'
          BY <1>6, <1>10, <2>4 DEF Handling
        <4>2. QED
          BY <1>6, <4>1, OtherHands
      <3>2. LineToken(h) \in Tokens(d)
        BY <2>2, <2>4, SpotsIn DEF Tokens
      <3>3. Tokens(d)' \subseteq Tokens(d) \union {HandToken(h)}
        BY <2>1, <2>2, <3>1 DEF Tokens, Spots
      <3>4. HandToken(h) \in Tokens(d)'
        BY <3>1, SpotsIn DEF Tokens
      <3>5. OnceOn(h, d) => LineToken(h) \notin Tokens(d)'
        BY <2>2, <2>4, SpotsIn DEF Tokens
      <3>6. QED
        BY <1>8, <2>1, <2>2, <3>2, <3>3, <3>4, <3>5, Passing
    <2>5. QED
      BY <2>3, <2>4
  <1>12. QED
    BY <1>7, <1>9, <1>11 DEF SingleInv, CustodyInv

LEMMA CompleteWorks ==
  ASSUME WorkInv, NEW w \in pending, NEW failed \in BOOLEAN, Complete(w[1], w[2], failed)
  PROVE  Grounded' /\ SingleInv' /\ CustodyInv'
  <1> DEFINE o == SettleOnReturn(w[2].mode, outcome[w[2].d], "handled", failed)
             g == {IF failed THEN "failed" ELSE "handled"}
  <1>1. /\ pending' = pending \ {<<w[1], w[2]>>}
        /\ outcome' = [outcome EXCEPT ![w[2].d] =
                          SettleOnReturn(w[2].mode, @, "handled", failed)]
        /\ Note(w[2], g)
        /\ UNCHANGED <<line, at, todo, asking, mode>>
    BY DEF Complete, hops
  <1>2. w[2] \in Messages /\ Tagged(w[2]) /\ w = <<w[1], w[2]>> /\ VerdictInv
    BY DEF WorkInv, PipeInv, ArrivalInv, TagInv
  <1>3. PICK m \in Messages : m = w[2] /\ Tagged(m)
    BY <1>2
  <1>4. Rules(m, g, o)
    BY <1>1, <1>2, <1>3, WorkRules
  <1>5. m.mode = "auto" => o # "open"
    BY <1>3 DEF SettleOnReturn, Settle
  <1> HIDE DEF g, o
  <1>6. Grounded'
    BY <1>1, <1>3, <1>4, StillGrounded
  <1>7. \A f \in Hops : Shared(f)'
    BY <1>1, <1>4, SharedKept
  <1>8. ASSUME NEW d \in Deliveries PROVE SingleOf(d)' /\ CustodyOf(d)'
    <2>1. SameLines(d)
      BY <1>1, LinesUnchanged
    <2>2. Handling(d)' = Handling(d)
      BY <1>1 DEF Handling, Carries, Rests, Counted, Takers, Matching
    <2>3. Working(d)' = Working(d) \ {w}
      BY <1>1, <1>2 DEF Working, Carries
    <2>4. SingleOf(d) /\ CustodyOf(d) /\ mode'[d] = mode[d]
      BY <1>1 DEF WorkInv, SingleInv, CustodyInv
    <2>5. CASE ~Carries(m, d)
      <3>1. Working(d)' = Working(d)
        BY <1>3, <2>3, <2>5 DEF Working
      <3>2. outcome'[d] = outcome[d] /\ grounds[d] \subseteq grounds'[d]
        BY <1>2, <1>4, <2>5, RulesAt
      <3>3. QED
        BY <2>1, <2>2, <2>4, <3>1, <3>2, Staying
    <2>6. CASE Carries(m, d)
      <3>1. outcome'[d] = o /\ grounds[d] \subseteq grounds'[d]
        BY <1>2, <1>4, <2>6, RulesAt
      <3>2. Automatic(d)' => o # "open"
        BY <1>1, <1>3, <1>5, <2>6 DEF Automatic, Tagged, Carries
      <3>3. WorkToken(w) \in Tokens(d)
        <4>1. w \in Working(d)
          BY <1>3, <2>6 DEF Working
        <4>2. QED
          BY <4>1, SpotsIn DEF Tokens
      <3>4. WorkToken(w) \notin Tokens(d)'
        BY <2>3, SpotsIn DEF Tokens
      <3>5. Tokens(d)' \subseteq Tokens(d)
        BY <2>1, <2>2, <2>3 DEF Tokens, Spots, SameLines
      <3>6. \A f \in Hops : OnceOn(f, d) => OnceOn(f, d)'
        BY <2>1 DEF SameLines
      <3>7. Automatic(d)' /\ outcome'[d] = "open" => "abandoned" \in grounds'[d]
        BY <3>1, <3>2
      <3>8. QED
        BY <2>4, <3>1, <3>3, <3>4, <3>5, <3>6, <3>7, Leaving
    <2>7. QED
      BY <2>5, <2>6
  <1>9. QED
    BY <1>6, <1>7, <1>8 DEF SingleInv, CustodyInv

LEMMA ArriveWorks ==
  ASSUME WorkInv, NEW d \in Deliveries, NEW a \in MayArrive[d], Arrive(d, a)
  PROVE  Grounded' /\ SingleInv' /\ CustodyInv'
  <1> DEFINE new == [d |-> d, topic |-> a.topic, mode |-> a.mode, asker |-> None]
  <1>1. /\ d \notin arrived /\ mode' = [mode EXCEPT ![d] = a.mode]
        /\ Publish(a.bus, new)
        /\ UNCHANGED <<at, todo, asking, pending>>
    BY DEF Arrive
  <1>2. /\ LineInv /\ VerdictInv /\ mode \in [Deliveries -> Modes] /\ a \in Arrivals
        /\ outcome[d] = "open" /\ {} \in SUBSET Grounds
    BY <1>1, PipelineAssumption DEF WorkInv, PipeInv, ArrivalInv, VerdictInv
  <1>3. /\ new \in Messages /\ new.d = d /\ new.mode = a.mode /\ a.bus \in Hops
    BY <1>2 DEF Arrivals, Messages, Hops
  <1>4. PICK m \in Messages : m = new /\ m.d = d /\ m.mode = a.mode
    BY <1>3
  <1> HIDE DEF new
  <1>5. \A e \in Deliveries : Carries(m, e) <=> e = d /\ m.mode # "none"
    BY <1>4, MessageParts DEF Carries
  <1>6. /\ Automatic(d)' <=> m.mode = "auto"
        /\ \A e \in Deliveries : e # d => mode'[e] = mode[e]
    BY <1>1, <1>2, <1>4 DEF Automatic
  <1>7. PICK g, o : /\ Rules(m, g, o)
                    /\ \/ Sends(a.bus, m) /\ o = outcome[d]
                       \/ line' = line /\ (m.mode = "auto" => o # "open")
                          /\ (m.mode # "none" => o # "open")
    <2>1. CASE Sends(a.bus, m) /\ UNCHANGED <<outcome, grounds>>
      <3>1. Note(m, {})
        BY <1>4, <2>1, <1>2 DEF Note, VerdictInv
      <3>2. QED
        BY <1>2, <1>4, <2>1, <3>1, NoRules
    <2>2. CASE Refuses(m, "refused") /\ UNCHANGED line
      <3>1. Rules(m, {"refused"}, SettleRefused(m.mode, outcome[m.d]))
        BY <1>2, <2>2, RefusalRules
      <3>2. m.mode # "none" => SettleRefused(m.mode, outcome[m.d]) # "open"
        BY DEF SettleRefused, Settle
      <3>3. QED
        BY <2>2, <3>1, <3>2
    <2>3. QED
      BY <1>1, <1>4, <2>1, <2>2 DEF Publish, Sends
  <1>8. Grounded'
    <2>1. m.mode = "auto" => Automatic(m.d)'
      BY <1>4, <1>6
    <2>2. \A e \in Deliveries : outcome[e] = "ack" /\ Automatic(e) => Automatic(e)'
      BY <1>2, <1>6 DEF Automatic
    <2>3. QED
      BY <1>2, <1>7, <2>1, <2>2, RulesGrounded DEF WorkInv
  <1>9. \A f \in Hops : Shared(f)'
    BY <1>1, <1>7, SharedKept
  <1>10. ASSUME NEW e \in Deliveries PROVE SingleOf(e)' /\ CustodyOf(e)'
    <2>1. /\ Handling(e)' = Handling(e) /\ Working(e)' = Working(e)
          /\ SingleOf(e) /\ CustodyOf(e)
      BY <1>1 DEF Handling, Carries, Rests, Counted, Takers, Matching, Working, WorkInv,
         SingleInv, CustodyInv
    <2>2. CASE e # d
      <3>1. outcome'[e] = outcome[e] /\ grounds[e] \subseteq grounds'[e]
        BY <1>2, <1>5, <1>7, <2>2, RulesAt
      <3>2. SameLines(e)
        BY <1>2, <1>3, <1>5, <1>7, <2>2, SentLines, LinesUnchanged
      <3>3. QED
        BY <1>6, <2>1, <2>2, <3>1, <3>2, Staying
    <2>3. CASE e = d
      <3>1. Lining(d) = {} /\ Handling(d) = {} /\ Working(d) = {}
        BY <1>1 DEF WorkInv, PipeInv, TagInv, Tagged, Lining, Carrying, Handling, Working,
           Carries
      <3>2. \A f \in Hops : OnceOn(f, d)
        BY <3>1 DEF OnceOn, OnceIn, Lining, Occurs
      <3>3. \A t \in Tokens(d)' : \E f \in Lining(d)' : t = LineToken(f)
        BY <2>1, <2>3, <3>1, SpotsIn DEF Tokens
      <3>4. CASE Sends(a.bus, m) /\ o = outcome[d]
        <4>1. /\ ~Carries(m, d) => SameLines(d)
              /\ Carries(m, d) => Lining(d)' = {a.bus}
              /\ \A f \in Hops : OnceOn(f, d)'
          BY <1>2, <1>3, <3>1, <3>2, <3>4, SentLines
        <4>2. \A x, y \in Tokens(d)' : x = y
          BY <3>1, <3>3, <4>1 DEF SameLines
        <4>3. outcome'[d] = "open"
          BY <1>2, <1>7, <3>4, RulesAt
        <4>4. Automatic(d)' => Tokens(d)' # {}
          <5>1. Carries(m, d) => LineToken(a.bus) \in Tokens(d)'
            BY <4>1, SpotsIn DEF Tokens
          <5>2. QED
            BY <1>5, <1>6, <5>1
        <4>5. QED
          BY <2>3, <4>1, <4>2, <4>3, <4>4 DEF SingleOf, CustodyOf
      <3>5. CASE line' = line /\ (m.mode # "none" => o # "open")
        <4>1. Lining(d)' = {} /\ \A f \in Hops : OnceOn(f, d)'
          BY <3>1, <3>2, <3>5, LinesUnchanged DEF SameLines
        <4>2. Tokens(d)' = {}
          BY <3>3, <4>1
        <4>3. Automatic(d)' => outcome'[d] # "open"
          BY <1>2, <1>5, <1>6, <1>7, <3>5, RulesAt
        <4>4. QED
          BY <2>3, <4>1, <4>2, <4>3 DEF SingleOf, CustodyOf
      <3>6. QED
        BY <1>7, <3>4, <3>5
    <2>4. QED
      BY <2>2, <2>3
  <1>11. QED
    BY <1>8, <1>9, <1>10 DEF SingleInv, CustodyInv

-----------------------------------------------------------------------------
LEMMA WorkInit == Init => WorkInv
  <1> SUFFICES ASSUME Init PROVE WorkInv
    OBVIOUS
  <1>1. PipeInv
    BY PipeInit
  <1>2. Grounded
    BY DEF Init, Grounded
  <1>3. ASSUME NEW d \in Deliveries PROVE SingleOf(d) /\ CustodyOf(d)
    <2>1. Lining(d) = {} /\ Handling(d) = {} /\ Working(d) = {}
      BY DEF Init, Lining, Occurs, Handling, Carries, Working
    <2>2. Tokens(d) = {}
      BY <2>1 DEF Tokens, Spots
    <2>3. \A h \in Hops : OnceOn(h, d)
      BY DEF Init, OnceOn, OnceIn
    <2>4. QED
      BY <2>2, <2>3 DEF Init, SingleOf, CustodyOf, Automatic
  <1>4. \A h \in Hops : Shared(h)
    BY DEF Init, Shared
  <1>5. QED
    BY <1>1, <1>2, <1>3, <1>4 DEF WorkInv, SingleInv, CustodyInv

LEMMA WorkStepKeeps == WorkInv /\ [Next]_vars => WorkInv'
  <1> SUFFICES ASSUME WorkInv, [Next]_vars PROVE WorkInv'
    OBVIOUS
  <1>1. ASSUME NEW d \in Deliveries, NEW a \in MayArrive[d], Arrive(d, a) PROVE Sound'
    BY <1>1, ArriveWorks DEF Sound
  <1>2. ASSUME NEW h \in Hops, Take(h) PROVE Sound'
    BY <1>2, TakeWorks DEF Sound
  <1>3. ASSUME NEW h \in Hops, Finish(h) PROVE Sound'
    BY <1>3, FinishWorks DEF Sound
  <1>4. ASSUME NEW h \in Hops, NEW s \in todo[h], Calls(h, s) PROVE Sound'
    BY <1>4, CallDroppedWorks, CallQueueWorks, CallBusWorks, AskWorks, CallObserverWorks,
       CallHandlerWorks, CallDeferrerWorks DEF Calls, Sound
  <1>5. ASSUME NEW h \in Hops, NEW failed \in BOOLEAN, AskReturns(h, failed) PROVE Sound'
    BY <1>5, AskReturnsWorks DEF Sound
  <1>6. ASSUME NEW w \in pending, NEW failed \in BOOLEAN, Complete(w[1], w[2], failed)
        PROVE Sound'
    BY <1>6, CompleteWorks DEF Sound
  <1>7. ASSUME UNCHANGED vars PROVE Sound'
    <2>1. Grounded'
      BY <1>7 DEF vars, deliveries, WorkInv, Grounded, Automatic
    <2>2. ASSUME NEW d \in Deliveries PROVE SingleOf(d)' /\ CustodyOf(d)'
      <3>1. SameLines(d)
        BY <1>7, LinesUnchanged DEF vars, hops
      <3>2. Handling(d)' = Handling(d) /\ Working(d)' = Working(d)
        BY <1>7 DEF vars, hops, deliveries, Handling, Carries, Rests, Counted, Takers,
           Matching, Working
      <3>3. QED
        BY <1>7, <3>1, <3>2, Staying DEF vars, deliveries, WorkInv, SingleInv, CustodyInv
    <2>3. \A h \in Hops : Shared(h)'
      BY <1>7 DEF vars, hops, deliveries, WorkInv, SingleInv, Shared, Takers, Matching
    <2>4. SingleInv' /\ CustodyInv'
      BY <2>2, <2>3 DEF SingleInv, CustodyInv
    <2>5. QED
      BY <2>1, <2>4 DEF Sound
  <1>8. Sound'
    BY <1>1, <1>2, <1>3, <1>4, <1>5, <1>6, <1>7 DEF Next, Progress, HopStep, WorkStep
  <1>9. QED
    BY <1>8, PipeStep DEF WorkInv, Sound

(* A verdict on a delivery follows the work, over any number of buses,     *)
(* queues and wrappers: an acknowledgement needs work done, left out by a  *)
(* transform or wanted by nobody, a refusal needs a failure or a refusal,  *)
(* and when nobody shares the delivery out nothing is left to do.          *)
THEOREM VerdictFollows == Spec => []FollowsTheWork
  <1>1. WorkInv => FollowsTheWork
    <2> SUFFICES ASSUME WorkInv, NEW d \in Deliveries,
                        outcome[d] # "open", "fanned" \notin grounds[d]
                 PROVE  ~Waits(d) /\ ~Deferred(d)
      BY DEF WorkInv, Grounded, FollowsTheWork
    <2>1. Tokens(d) = {}
      BY DEF WorkInv, SingleInv, SingleOf
    <2>2. Lining(d) = {} /\ Working(d) = {}
      BY <2>1, SpotsIn DEF Tokens
    <2>3. ~Waits(d)
      <3>1. \A h \in Hops : \A i \in DOMAIN line[h] : line[h][i] \in Messages
        BY DEF WorkInv, PipeInv, LineInv
      <3>2. QED
        BY <2>2, <3>1 DEF Waits, Lining, Carrying, Occurs
    <2>4. ~Deferred(d)
      BY <2>2 DEF Deferred, Working
    <2>5. QED
      BY <2>3, <2>4
  <1>2. QED
    BY <1>1, WorkInit, WorkStepKeeps, PTL DEF Spec

(* Until an automatic delivery is settled it is on a line, in the hand of  *)
(* a hop or with a deferring subscriber, unless a transform or an observer *)
(* behind a deferring wrapper has swallowed it.                            *)
THEOREM DeliveryInCustody == Spec => []SomebodyHasIt
  <1>1. WorkInv => SomebodyHasIt
    <2> SUFFICES ASSUME WorkInv, NEW d \in Deliveries, Automatic(d), outcome[d] = "open",
                        "abandoned" \notin grounds[d]
                 PROVE  Held(d)
      BY DEF SomebodyHasIt
    <2>1. PICK t \in Tokens(d) : TRUE
      BY DEF WorkInv, CustodyInv, CustodyOf
    <2>2. \/ \E h \in Lining(d) : TRUE
          \/ \E h \in Handling(d) : TRUE
          \/ \E w \in Working(d) : TRUE
      BY <2>1, SpotsIn DEF Tokens
    <2>3. Lining(d) # {} => Waits(d)
      BY DEF Lining, Carrying, Waits, Occurs
    <2>4. Handling(d) # {} => InHand(d)
      BY DEF Handling, InHand
    <2>5. Working(d) # {} => Deferred(d)
      BY DEF Working, Deferred
    <2>6. QED
      BY <2>2, <2>3, <2>4, <2>5 DEF Held
  <1>2. QED
    BY <1>1, WorkInit, WorkStepKeeps, PTL DEF Spec

-----------------------------------------------------------------------------
(* When "the subscriber settles at its own completion point" is true: no   *)
(* transform drops a message in front of a subscriber that defers, and no  *)
(* queue is put around an observer.                                        *)

NothingSwallowed ==
    /\ \A s \in Subscribers, t \in Topics : Disposition[s] = "deferred" => Passage[s][t] # None
    /\ \A q \in Queues : Disposition[Behind[q]] # "observed"

NeverAbandoned == \A d \in Deliveries : "abandoned" \notin grounds[d]

LEMMA HarmlessNote ==
  ASSUME VerdictInv, NeverAbandoned, NEW m \in Messages, NEW g \in SUBSET Grounds,
         Note(m, g), "abandoned" \notin g
  PROVE  NeverAbandoned'
  <1>1. \A d \in Deliveries :
           grounds'[d] = IF d = m.d /\ m.mode # "none" THEN grounds[d] \union g ELSE grounds[d]
    BY NotedGrounds
  <1>2. QED
    BY <1>1, Zenon DEF NeverAbandoned

(* A call notes no abandonment.                                            *)
LEMMA CallsSwallowNothing ==
  ASSUME NothingSwallowed, PipeInv, NeverAbandoned,
         NEW h \in Hops, NEW s \in todo[h], Calls(h, s)
  PROVE  NeverAbandoned'
  <1> USE DEF Grounds
  <1>1. VerdictInv /\ Begins(h, s)
    BY DEF PipeInv, Calls, CallDropped, CallQueue, CallBus, Ask, CallObserver, CallHandler,
           CallDeferrer
  <1>2. at[h] \in Messages /\ s \in Subscribers /\ s \in Matching(h, at[h])
    BY <1>1, Called
  <1>3. h \in Queues => Disposition[s] # "observed"
    BY <1>2 DEF NothingSwallowed, Matching
  <1>4. ASSUME CallDropped(h, s) PROVE NeverAbandoned'
    <2>1. Disposition[s] # "deferred"
      BY <1>2, <1>4, MessageParts DEF CallDropped, Arriving, NothingSwallowed
    <2>2. Disposition[s] \in {"handled", "observed"}
      BY <1>2, <2>1, PipelineAssumption DEF Dispositions
    <2>3. PICK g \in SUBSET {"filtered", "abandoned"} :
             /\ Note(at[h], g)
             /\ Disposition[s] = "handled" => g = {"filtered"}
             /\ Disposition[s] = "observed" => g = (IF h \in Queues THEN {"abandoned"} ELSE {})
      BY <1>2, <1>4, DroppedNotes
    <2>4. g \in SUBSET Grounds /\ "abandoned" \notin g
      BY <1>3, <2>2, <2>3
    <2>5. QED
      BY <1>1, <1>2, <2>3, <2>4, HarmlessNote
  <1>5. ASSUME NEW failed \in BOOLEAN, CallObserver(h, s, failed) PROVE NeverAbandoned'
    <2>1. Disposition[s] = "observed"
      BY <1>2, <1>5, PipelineAssumption DEF CallObserver
    <2>2. Note(at[h], {})
      BY <1>3, <1>5, <2>1 DEF CallObserver
    <2>3. QED
      BY <1>1, <1>2, <2>2, HarmlessNote
  <1>6. ASSUME \/ CallQueue(h, s) \/ CallBus(h, s)
               \/ \E failed \in BOOLEAN : CallHandler(h, s, failed) \/ CallDeferrer(h, s, failed)
        PROVE  NeverAbandoned'
    <2>1. PICK g \in {{}, {"refused"}, {"failed"}, {"handled"}} : Note(at[h], g)
      BY <1>6 DEF CallQueue, CallBus, CallHandler, CallDeferrer
    <2>2. g \in SUBSET Grounds /\ "abandoned" \notin g
      OBVIOUS
    <2>3. QED
      BY <1>1, <1>2, <2>1, <2>2, HarmlessNote
  <1>7. ASSUME Ask(h, s) PROVE NeverAbandoned'
    BY <1>7 DEF Ask, deliveries, NeverAbandoned
  <1>8. QED
    BY <1>4, <1>5, <1>6, <1>7 DEF Calls

(* Nor does anything else: a publication, what a hop does between calls,   *)
(* or the end of deferred work.                                            *)
LEMMA OthersSwallowNothing ==
  ASSUME PipeInv, NeverAbandoned,
         \/ \E h \in Hops : Take(h) \/ Finish(h) \/ \E failed \in BOOLEAN : AskReturns(h, failed)
         \/ WorkStep
         \/ \E d \in Deliveries : \E a \in MayArrive[d] : Arrive(d, a)
  PROVE  NeverAbandoned'
  <1>1. VerdictInv /\ LineInv
    BY DEF PipeInv
  <1>2. ASSUME NEW m \in Messages, NEW g \in {{}, {"fanned"}, {"failed"}, {"handled"},
                                              {"tapped"}, {"refused"}, {"unhandled"},
                                              {"unwanted"}},
               Note(m, g)
        PROVE  NeverAbandoned'
    BY <1>1, <1>2, HarmlessNote DEF Grounds
  <1>3. ASSUME NEW h \in Hops, Take(h) PROVE NeverAbandoned'
    <2>1. Head(line[h]) \in Messages
      BY <1>1, <1>3, TakenLine DEF Take
    <2>2. PICK g \in {{}, {"fanned"}} : Note(Head(line[h]), g)
      BY <1>3 DEF Take
    <2>3. QED
      BY <1>2, <2>1, <2>2
  <1>4. ASSUME NEW h \in Hops, Finish(h) PROVE NeverAbandoned'
    <2>1. at[h] \in Messages
      BY <1>4, AtHand DEF Finish
    <2>2. CASE UNCHANGED grounds
      BY <2>2 DEF NeverAbandoned
    <2>3. CASE NoteUndelivered(h, at[h])
      <3>1. CASE Publish(h, Copy(at[h]))
        <4>1. Copy(at[h]) \in Messages
          BY <2>1, CopiedMessage
        <4>2. UNCHANGED grounds \/ Note(Copy(at[h]), {"refused"})
          BY <3>1 DEF Publish, Refuses
        <4>3. QED
          BY <1>2, <2>2, <4>1, <4>2
      <3>2. CASE Note(at[h], {"unhandled"}) \/ Note(at[h], {"unwanted"})
        BY <1>2, <2>1, <3>2
      <3>3. QED
        BY <2>3, <3>1, <3>2 DEF NoteUndelivered, Refuses, Copy
    <2>4. QED
      BY <1>4, <2>2, <2>3 DEF Finish
  <1>5. ASSUME NEW h \in Hops, NEW failed \in BOOLEAN, AskReturns(h, failed)
        PROVE  NeverAbandoned'
    <2>1. at[h] \in Messages
      BY <1>5, AtHand DEF AskReturns, PipeInv, HandInv, AtWork
    <2>2. PICK g \in {{"failed"}, {"handled"}, {"tapped"}} : Note(at[h], g)
      BY <1>5, MadeNotes
    <2>3. QED
      BY <1>2, <2>1, <2>2
  <1>6. ASSUME WorkStep PROVE NeverAbandoned'
    <2>1. PICK w \in pending, failed \in BOOLEAN : Complete(w[1], w[2], failed)
      BY <1>6 DEF WorkStep
    <2>2. w[2] \in Messages
      BY DEF PipeInv, ArrivalInv
    <2>3. PICK g \in {{"failed"}, {"handled"}} : Note(w[2], g)
      BY <2>1 DEF Complete
    <2>4. QED
      BY <1>2, <2>2, <2>3
  <1>7. ASSUME NEW d \in Deliveries, NEW a \in MayArrive[d], Arrive(d, a) PROVE NeverAbandoned'
    <2> DEFINE n == [d |-> d, topic |-> a.topic, mode |-> a.mode, asker |-> None]
    <2>1. n \in Messages
      BY PipelineAssumption DEF Messages, Arrivals
    <2>2. UNCHANGED grounds \/ Note(n, {"refused"})
      BY <1>7 DEF Arrive, Publish, Refuses
    <2> HIDE DEF n
    <2>3. QED
      BY <1>2, <2>1, <2>2 DEF NeverAbandoned
  <1>8. QED
    BY <1>3, <1>4, <1>5, <1>6, <1>7

LEMMA SwallowsNothing ==
  NothingSwallowed /\ PipeInv /\ NeverAbandoned /\ [Next]_vars => NeverAbandoned'
  <1> SUFFICES ASSUME NothingSwallowed, PipeInv, NeverAbandoned, [Next]_vars
               PROVE  NeverAbandoned'
    OBVIOUS
  <1>1. ASSUME NEW h \in Hops, NEW s \in todo[h], Calls(h, s) PROVE NeverAbandoned'
    BY <1>1, CallsSwallowNothing
  <1>2. CASE UNCHANGED vars
    BY <1>2 DEF vars, deliveries, NeverAbandoned
  <1>3. QED
    BY <1>1, <1>2, OthersSwallowNothing DEF Next, Progress, HopStep

(* Where nothing is dropped in front of a subscriber that defers, and no   *)
(* queue is put around an observer, an automatic delivery is in somebody's *)
(* hands until it is settled: these two cases are all.                     *)
THEOREM DeferralKept == NothingSwallowed => (Spec => []DeferralHonoured)
  <1> SUFFICES ASSUME NothingSwallowed PROVE Spec => []DeferralHonoured
    OBVIOUS
  <1>1. Init => NeverAbandoned
    BY DEF Init, NeverAbandoned
  <1>2. PipeInv /\ NeverAbandoned /\ [Next]_vars => NeverAbandoned'
    BY SwallowsNothing
  <1>3. SomebodyHasIt /\ NeverAbandoned => DeferralHonoured
    BY DEF SomebodyHasIt, NeverAbandoned, DeferralHonoured
  <1>4. QED
    BY <1>1, <1>2, <1>3, PipeInit, PipeStep, DeliveryInCustody, PTL DEF Spec

-----------------------------------------------------------------------------
(* The pipeline without the taps of its buses.                             *)

PlainTodo == [h \in Hops |-> IF h \in Buses THEN todo[h] \ Taps ELSE todo[h]]

(* A message finds the same takers, and the other subscribers but the taps.*)
LEMMA PlainMatching ==
  ASSUME NEW h \in Hops, NEW m
  PROVE  /\ Plain!Matching(h, m) =
               IF h \in Buses THEN Matching(h, m) \ Taps ELSE Matching(h, m)
         /\ Plain!TakenUp(h, m) <=> TakenUp(h, m)
         /\ (\E s, t \in Plain!Takers(h, m) : s # t) <=> (\E s, t \in Takers(h, m) : s # t)
  <1>1. Plain!Matching(h, m) = IF h \in Buses THEN Matching(h, m) \ Taps ELSE Matching(h, m)
    BY PipelineAssumption DEF Plain!Matching, Matching, Hops
  <1>2. \A s \in Matching(h, m) : s \in Subscribers
    BY PipelineAssumption DEF Matching, Hops
  <1>3. Plain!Takers(h, m) = Takers(h, m)
    BY <1>1, <1>2 DEF Plain!Takers, Takers, Taps
  <1>4. QED
    BY <1>1, <1>3 DEF Plain!TakenUp, TakenUp

(* A call of a subscriber that is not a tap of a bus.                      *)
LEMMA PlainBegins ==
  ASSUME PipeInv, NEW h \in Hops, NEW s \in todo[h], Begins(h, s),
         h \notin Buses \/ s \notin Taps
  PROVE  Plain!Begins(h, s) /\ s \in PlainTodo[h]
  <1>1. /\ todo \in [Hops -> SUBSET Subscribers]
        /\ todo' = [g \in Hops |-> IF g = h THEN todo[g] \ {s} ELSE todo[g]]
        /\ at[h] # None /\ asking[h] = None
    BY DEF PipeInv, HandInv, Begins
  <1>2. PlainTodo' = [PlainTodo EXCEPT ![h] = @ \ {s}]
    BY <1>1 DEF PlainTodo
  <1>3. s \in PlainTodo[h]
    BY DEF PlainTodo
  <1>4. QED
    BY <1>1, <1>2, <1>3 DEF Plain!Begins, PlainTodo

LEMMA TapBegins ==
  ASSUME PipeInv, NEW h \in Buses, NEW s \in todo[h] \intersect Taps, Begins(h, s)
  PROVE  PlainTodo' = PlainTodo
  <1>1. /\ todo \in [Hops -> SUBSET Subscribers] /\ h \in Hops
        /\ todo' = [g \in Hops |-> IF g = h THEN todo[g] \ {s} ELSE todo[g]]
    BY DEF PipeInv, HandInv, Begins, Hops
  <1>2. QED
    BY <1>1 DEF PlainTodo

(* What a step is made of does not depend on the taps.                     *)
LEMMA PlainSettling ==
  ASSUME NEW k, NEW o
  PROVE  /\ \A d, failed :
               Plain!SettleOnReturn(k, o, d, failed) = SettleOnReturn(k, o, d, failed)
         /\ Plain!SettleRefused(k, o) = SettleRefused(k, o)
  BY DEF Plain!SettleOnReturn, SettleOnReturn, Plain!SettleRefused, SettleRefused,
     Plain!Settle, Settle

LEMMA PlainAfter ==
  ASSUME NEW m, NEW s, NEW failed, NEW o
  PROVE  Plain!After(m, s, failed, o) = After(m, s, failed, o)
  BY PlainSettling DEF Plain!After, After

LEMMA PlainNote ==
  ASSUME NEW m, NEW g
  PROVE  Plain!Note(m, g) <=> Note(m, g)
  BY DEF Plain!Note, Note

LEMMA PlainSettles ==
  ASSUME NEW m, NEW s, NEW failed
  PROVE  Plain!Settles(m, s, failed) <=> Settles(m, s, failed)
  BY PlainAfter DEF Plain!Settles, Settles

LEMMA PlainPassage ==
  ASSUME NEW h, NEW s
  PROVE  /\ Plain!Arriving(h, s) = Arriving(h, s)
         /\ Plain!Given(h, s) = Given(h, s)
         /\ Plain!Room(h) <=> Room(h)
  BY DEF Plain!Arriving, Arriving, Plain!Given, Given, Plain!Room, Room

LEMMA PlainReports ==
  ASSUME NEW h, NEW failed
  PROVE  /\ \A result : Plain!Reports(h, result) <=> Reports(h, result)
         /\ Plain!ErrorIf(failed) = ErrorIf(failed)
         /\ Plain!Heeds(h) <=> Heeds(h)
         /\ Plain!Makes(h, failed) = Makes(h, failed)
  BY DEF Plain!Reports, Reports, Plain!ErrorIf, ErrorIf, Plain!Heeds, Heeds, Plain!Makes, Makes

LEMMA PlainCalls ==
  ASSUME PipeInv, NEW h \in Hops, NEW s \in todo[h], Calls(h, s),
         h \notin Buses \/ s \notin Taps
  PROVE  Plain!Next
  <1>1. Begins(h, s)
    BY DEF Calls, CallDropped, CallQueue, CallBus, Ask, CallObserver, CallHandler, CallDeferrer
  <1>2. Plain!Begins(h, s) /\ s \in PlainTodo[h]
    BY <1>1, PlainBegins
  <1>3. CallDropped(h, s) => Plain!CallDropped(h, s)
    BY <1>2, PlainNote, PlainSettles, PlainPassage DEF CallDropped, Plain!CallDropped
  <1>4. CallQueue(h, s) => Plain!CallQueue(h, s)
    BY <1>2, PlainNote, PlainSettles, PlainPassage, PlainReports DEF CallQueue, Plain!CallQueue
  <1>5. CallBus(h, s) => Plain!CallBus(h, s)
    <2> DEFINE b == End[s].bus
               o == outcome[at[h].d]
               said == IF Room(b) THEN o ELSE SettleRefused(at[h].mode, o)
               plain == IF Plain!Room(b) THEN o ELSE Plain!SettleRefused(at[h].mode, o)
    <2> SUFFICES ASSUME CallBus(h, s) PROVE Plain!CallBus(h, s)
      OBVIOUS
    <2>1. /\ Arriving(h, s) # None /\ End[s].kind = "bus"
          /\ line' = IF Room(b) THEN [line EXCEPT ![b] = Append(@, Given(h, s))] ELSE line
          /\ outcome' = [outcome EXCEPT ![at[h].d] = After(at[h], s, FALSE, said)]
          /\ Note(at[h], IF Room(b) THEN {} ELSE {"refused"})
          /\ UNCHANGED <<at, asking, answered, publishError, mode, arrived, pending>>
      BY DEF CallBus
    <2>2. After(at[h], s, FALSE, said) = Plain!After(at[h], s, FALSE, plain)
      BY PlainPassage, PlainSettling, PlainAfter
    <2>3. outcome' = [outcome EXCEPT ![at[h].d] = Plain!After(at[h], s, FALSE, plain)]
      BY <2>1, <2>2
    <2>4. /\ Plain!Arriving(h, s) # None
          /\ line' = IF Plain!Room(b) THEN [line EXCEPT ![b] = Append(@, Plain!Given(h, s))]
                                      ELSE line
          /\ Plain!Note(at[h], IF Plain!Room(b) THEN {} ELSE {"refused"})
      BY <2>1, PlainNote, PlainPassage
    <2>5. QED
      BY <1>2, <2>1, <2>3, <2>4 DEF Plain!CallBus
  <1>6. Ask(h, s) => Plain!Ask(h, s)
    BY <1>2, PlainPassage DEF Ask, Plain!Ask, deliveries, Plain!deliveries
  <1>7. ASSUME NEW failed \in BOOLEAN, CallObserver(h, s, failed)
        PROVE  Plain!CallObserver(h, s, failed)
    BY <1>2, <1>7, PlainNote, PlainSettles, PlainPassage, PlainReports
    DEF CallObserver, Plain!CallObserver
  <1>8. ASSUME NEW failed \in BOOLEAN, CallHandler(h, s, failed)
        PROVE  Plain!CallHandler(h, s, failed)
    BY <1>2, <1>8, PlainNote, PlainSettles, PlainPassage, PlainReports
    DEF CallHandler, Plain!CallHandler
  <1>9. ASSUME NEW failed \in BOOLEAN, CallDeferrer(h, s, failed)
        PROVE  Plain!CallDeferrer(h, s, failed)
    BY <1>2, <1>9, PlainNote, PlainSettles, PlainPassage, PlainReports
    DEF CallDeferrer, Plain!CallDeferrer
  <1>10. Plain!Calls(h, s)
    BY <1>3, <1>4, <1>5, <1>6, <1>7, <1>8, <1>9 DEF Calls, Plain!Calls
  <1>11. Plain!HopStep(h)
    BY <1>2, <1>10 DEF Plain!HopStep, PlainTodo
  <1>12. QED
    BY <1>11 DEF Plain!Next, Plain!Progress, Plain!Hops, Hops

(* Where a publisher waits for the answer, the bus is one that is asked.   *)
AskedOn(h) == \E s \in Subscribers : End[s].kind = "ask" /\ End[s].bus = h
AskedInv ==
    \A h \in Hops :
        /\ at[h] # None /\ at[h].asker # None => AskedOn(h)
        /\ \A m \in Messages : Occurs(line[h], m) /\ m.asker # None => AskedOn(h)

LEMMA AskedInit == Init => AskedInv
  BY DEF Init, AskedInv, Occurs

\* A step that puts at most one message on a line and takes up none.
LEMMA AskedKept ==
  ASSUME LineInv, AskedInv, \A g \in Hops : at'[g] # None => at'[g] = at[g],
         \/ UNCHANGED line
         \/ \E q \in Hops, n \in Messages : Sends(q, n) /\ (n.asker = None \/ AskedOn(q))
  PROVE  AskedInv'
  <1>1. CASE UNCHANGED line
    BY <1>1 DEF AskedInv, AskedOn
  <1>2. ASSUME NEW q \in Hops, NEW n \in Messages, Sends(q, n), n.asker = None \/ AskedOn(q)
        PROVE  AskedInv'
    <2>1. \A h \in Hops, m \in Messages :
             Occurs(line'[h], m) <=> Occurs(line[h], m) \/ (h = q /\ m = n)
      BY <1>2, SentLine
    <2>2. QED
      BY <1>2, <2>1 DEF AskedInv, AskedOn
  <1>3. QED
    BY <1>1, <1>2

LEMMA AskedPublish ==
  ASSUME NEW b \in Hops, NEW m \in Messages, m.asker = None, Publish(b, m)
  PROVE  \/ UNCHANGED line
         \/ \E q \in Hops, n \in Messages : Sends(q, n) /\ (n.asker = None \/ AskedOn(q))
  BY DEF Publish, Sends

LEMMA AskedCalls ==
  ASSUME PipeInv, AskedInv, NEW h \in Hops, NEW s \in todo[h], Calls(h, s)
  PROVE  AskedInv'
  <1>1. Begins(h, s)
    BY DEF Calls, CallDropped, CallQueue, CallBus, Ask, CallObserver, CallHandler, CallDeferrer
  <1>2. at[h] \in Messages /\ s \in Subscribers
    BY <1>1, Called
  <1>3. LineInv /\ UNCHANGED at
    BY DEF PipeInv, Calls, CallDropped, CallQueue, CallBus, Ask, CallObserver, CallHandler,
       CallDeferrer
  <1>4. ASSUME \/ CallDropped(h, s)
               \/ \E failed \in BOOLEAN : \/ CallObserver(h, s, failed)
                                          \/ CallHandler(h, s, failed)
                                          \/ CallDeferrer(h, s, failed)
        PROVE  UNCHANGED line
    BY <1>4 DEF CallDropped, CallObserver, CallHandler, CallDeferrer
  <1>5. ASSUME CallQueue(h, s) \/ CallBus(h, s)
        PROVE  \/ UNCHANGED line
               \/ \E q \in Hops, n \in Messages : Sends(q, n) /\ n.asker = None
    <2>1. Arriving(h, s) # None
      BY <1>5 DEF CallQueue, CallBus
    <2>2. Given(h, s) \in Messages /\ Given(h, s).asker = None /\ Arriving(h, s) \in Topics
      BY <1>2, <2>1, GivenMessage
    <2>3. PICK q \in Hops :
             line' = IF Room(q) THEN [line EXCEPT ![q] = Append(@, Given(h, s))] ELSE line
      <3>1. CASE CallQueue(h, s)
        <4>1. /\ End[s].kind = "queue"
              /\ line' = IF Room(End[s].parts[Arriving(h, s)])
                         THEN [line EXCEPT ![End[s].parts[Arriving(h, s)]] =
                                  Append(@, Given(h, s))]
                         ELSE line
          BY <3>1 DEF CallQueue
        <4>2. End[s].parts[Arriving(h, s)] \in Hops
          BY <1>2, <2>2, <4>1, PipelineAssumption DEF Hops
        <4>3. QED
          BY <4>1, <4>2
      <3>2. CASE CallBus(h, s)
        BY <1>2, <3>2, PipelineAssumption DEF CallBus, Hops
      <3>3. QED
        BY <1>5, <3>1, <3>2
    <2>4. QED
      BY <2>2, <2>3 DEF Sends
  <1>6. ASSUME Ask(h, s)
        PROVE  \/ UNCHANGED line
               \/ \E q \in Hops, n \in Messages : Sends(q, n) /\ AskedOn(q)
    <2> DEFINE b == End[s].bus
               n == [Given(h, s) EXCEPT !.mode = "none", !.asker = h]
    <2>1. /\ Arriving(h, s) # None /\ End[s].kind = "ask"
          /\ UNCHANGED line \/ Sends(b, n)
      BY <1>6 DEF Ask, Sends
    <2>2. n \in Messages
      BY <1>2, <2>1, GivenMessage
    <2>3. b \in Hops /\ AskedOn(b)
      BY <1>2, <2>1, PipelineAssumption DEF Hops, AskedOn
    <2> HIDE DEF b, n
    <2>4. QED
      BY <2>1, <2>2, <2>3
  <1>7. \/ UNCHANGED line
        \/ \E q \in Hops, n \in Messages : Sends(q, n) /\ (n.asker = None \/ AskedOn(q))
    BY <1>4, <1>5, <1>6 DEF Calls
  <1>8. QED
    BY <1>3, <1>7, AskedKept

LEMMA AskedStep == PipeInv /\ AskedInv /\ [Next]_vars => AskedInv'
  <1> SUFFICES ASSUME PipeInv, AskedInv, [Next]_vars PROVE AskedInv'
    OBVIOUS
  <1>1. LineInv
    BY DEF PipeInv
  <1>2. ASSUME NEW h \in Hops, Take(h) PROVE AskedInv'
    <2>1. /\ Occurs(line[h], Head(line[h])) /\ Head(line[h]) \in Messages
          /\ \A g \in Hops, m \in Messages : Occurs(line'[g], m) => Occurs(line[g], m)
      BY <1>1, <1>2, TakenLine DEF Take
    <2>2. \A g \in Hops : at'[g] = IF g = h THEN Head(line[h]) ELSE at[g]
      BY <1>2 DEF Take, PipeInv, HandInv
    <2>3. QED
      BY <2>1, <2>2 DEF AskedInv, AskedOn
  <1>3. ASSUME NEW h \in Hops, Finish(h) PROVE AskedInv'
    <2>1. at[h] \in Messages /\ \A g \in Hops : at'[g] # None => at'[g] = at[g]
      BY <1>3, AtHand DEF Finish, PipeInv, HandInv
    <2>2. UNCHANGED line \/ Publish(h, Copy(at[h]))
      BY <1>3 DEF Finish, NoteUndelivered, Copy
    <2>3. Copy(at[h]) \in Messages /\ Copy(at[h]).asker = None
      BY <2>1, CopiedMessage
    <2>4. QED
      BY <1>1, <2>1, <2>2, <2>3, AskedPublish, AskedKept
  <1>4. ASSUME NEW d \in Deliveries, NEW a \in MayArrive[d], Arrive(d, a) PROVE AskedInv'
    <2> DEFINE n == [d |-> d, topic |-> a.topic, mode |-> a.mode, asker |-> None]
    <2>1. n \in Messages /\ n.asker = None /\ a.bus \in Hops
      BY PipelineAssumption DEF Messages, Arrivals, Hops
    <2>2. Publish(a.bus, n) /\ UNCHANGED at
      BY <1>4 DEF Arrive
    <2> HIDE DEF n
    <2>3. QED
      BY <1>1, <2>1, <2>2, AskedPublish, AskedKept
  <1>5. ASSUME UNCHANGED <<line, at>> PROVE AskedInv'
    BY <1>5 DEF AskedInv, AskedOn
  <1>6. CASE \E h \in Hops, failed \in BOOLEAN : AskReturns(h, failed)
    BY <1>5, <1>6 DEF AskReturns
  <1>7. CASE WorkStep
    BY <1>5, <1>7 DEF WorkStep, Complete, hops
  <1>8. CASE UNCHANGED vars
    BY <1>5, <1>8 DEF vars, hops
  <1>9. QED
    BY <1>2, <1>3, <1>4, <1>6, <1>7, <1>8, AskedCalls DEF Next, Progress, HopStep

\* So a tap that may fail is not asked about.
LEMMA TapUnasked ==
  ASSUME NoFailingTapIsAsked, PipeInv, AskedInv, NEW h \in Buses, NEW s \in todo[h],
         Begins(h, s)
  PROVE  at[h].asker = None \/ End[s].kind # "observe"
  <1>1. h \in Hops /\ h \notin Queues
    BY PipelineAssumption DEF Hops
  <1>2. s \in Feeds[h] /\ at[h] # None
    BY <1>1, Called, MessageParts DEF Matching
  <1>3. QED
    BY <1>1, <1>2 DEF AskedInv, AskedOn, NoFailingTapIsAsked

(* Calling a tap of a bus changes nothing the pipeline has without it.     *)
LEMMA TapCalls ==
  ASSUME NoFailingTapIsAsked, PipeInv, AskedInv, NEW h \in Buses, NEW s \in todo[h] \intersect Taps, Calls(h, s)
  PROVE  UNCHANGED Plain!vars
  <1>1. Begins(h, s) /\ h \in Hops /\ h \notin Queues
    BY PipelineAssumption DEF Calls, CallDropped, CallQueue, CallBus, Ask, CallObserver,
       CallHandler, CallDeferrer, Hops
  <1>2. Disposition[s] = "observed" /\ End[s].kind \in {"observe", "log"}
    BY PipelineAssumption DEF Taps
  <1>3. /\ \E failed \in BOOLEAN : Settles(at[h], s, failed)
        /\ Note(at[h], {})
        /\ UNCHANGED <<line, at, asking, answered, publishError, mode, arrived, pending>>
    <2>1. CASE CallDropped(h, s)
      BY <1>1, <1>2, <2>1 DEF CallDropped
    <2>2. ASSUME NEW failed \in BOOLEAN, CallObserver(h, s, failed)
          PROVE  /\ Settles(at[h], s, failed) /\ Note(at[h], {})
                 /\ UNCHANGED <<line, at, asking, answered, publishError, mode, arrived, pending>>
      <3>1. at[h].asker = None \/ End[s].kind # "observe"
        BY <1>1, TapUnasked
      <3>2. UNCHANGED publishError
        BY <2>2, <3>1 DEF CallObserver, Reports
      <3>3. QED
        BY <1>1, <2>2, <3>2 DEF CallObserver
    <2>3. QED
      BY <1>2, <2>1, <2>2 DEF Calls, CallQueue, CallBus, Ask, CallHandler, CallDeferrer
  <1>4. PICK m \in Messages : m = at[h]
    BY <1>1, Called
  <1>5. m.d \in Deliveries
    BY MessageParts
  <1>6. UNCHANGED outcome
    <2>1. outcome' = [outcome EXCEPT ![m.d] = outcome[m.d]]
      BY <1>2, <1>3, <1>4 DEF Settles, After, SettleOnReturn
    <2>2. QED
      BY <1>5, <2>1 DEF PipeInv, VerdictInv
  <1>7. UNCHANGED grounds
    <2>1. grounds' = [grounds EXCEPT ![m.d] = grounds[m.d]]
      BY <1>3, <1>4, <1>5 DEF Note, PipeInv, VerdictInv
    <2>2. QED
      BY <1>5, <2>1 DEF PipeInv, VerdictInv
  <1>8. PlainTodo' = PlainTodo
    BY <1>1, TapBegins
  <1>9. QED
    BY <1>3, <1>6, <1>7, <1>8 DEF Plain!vars, Plain!hops, Plain!deliveries, PlainTodo

LEMMA PlainPublish ==
  ASSUME NEW b, NEW m
  PROVE  /\ Plain!Publish(b, m) <=> Publish(b, m)
         /\ \A why : Plain!Refuses(m, why) <=> Refuses(m, why)
  <1>1. \A why : Plain!Refuses(m, why) <=> Refuses(m, why)
    BY PlainSettling, PlainNote DEF Plain!Refuses, Refuses
  <1>2. QED
    BY <1>1, PlainPassage DEF Plain!Publish, Publish

LEMMA PlainWork ==
  ASSUME NEW m, NEW failed,
         outcome' = [outcome EXCEPT ![m.d] = SettleOnReturn(m.mode, @, "handled", failed)]
  PROVE  outcome' =
             [outcome EXCEPT ![m.d] = Plain!SettleOnReturn(m.mode, @, "handled", failed)]
  <1>1. Plain!SettleOnReturn(m.mode, outcome[m.d], "handled", failed)
            = SettleOnReturn(m.mode, outcome[m.d], "handled", failed)
    BY PlainSettling
  <1>2. QED
    BY <1>1

LEMMA PlainNoted ==
  ASSUME NEW b, NEW m, NoteUndelivered(b, m)
  PROVE  Plain!NoteUndelivered(b, m)
  <1>1. Plain!UndeliverableTopic = UndeliverableTopic
    BY DEF Plain!UndeliverableTopic, UndeliverableTopic
  <1>2. CASE /\ b \in Undeliverable /\ m.topic # UndeliverableTopic
             /\ Publish(b, [m EXCEPT !.topic = UndeliverableTopic, !.asker = None])
    BY <1>1, <1>2, PlainPublish DEF Plain!NoteUndelivered
  <1>3. CASE /\ b \in Undeliverable /\ m.topic = UndeliverableTopic
             /\ Refuses(m, "unhandled") /\ UNCHANGED line
    BY <1>1, <1>3, PlainPublish DEF Plain!NoteUndelivered
  <1>4. CASE /\ b \notin Undeliverable
             /\ outcome' =
                    [outcome EXCEPT ![m.d] = SettleOnReturn(m.mode, @, "handled", FALSE)]
             /\ Note(m, {"unwanted"})
             /\ UNCHANGED line
    BY <1>4, PlainWork, PlainNote DEF Plain!NoteUndelivered
  <1>5. QED
    BY <1>2, <1>3, <1>4 DEF NoteUndelivered

LEMMA PlainTake ==
  ASSUME PipeInv, NEW h \in Hops, Take(h)
  PROVE  Plain!Take(h)
  <1> DEFINE m == Head(line[h])
  <1>1. /\ todo' = [g \in Hops |-> IF g = h THEN Matching(h, m) ELSE todo[g]]
        /\ at[h] = None /\ line[h] # <<>>
        /\ at' = [at EXCEPT ![h] = m]
        /\ Note(m, IF \E s, t \in Takers(h, m) : s # t THEN {"fanned"} ELSE {})
        /\ line' = [line EXCEPT ![h] = Tail(@)]
        /\ UNCHANGED <<asking, answered, publishError, mode, arrived, outcome, pending>>
    BY DEF Take, PipeInv, HandInv
  <1>2. PlainTodo' = [PlainTodo EXCEPT ![h] = Plain!Matching(h, m)]
    BY <1>1, PlainMatching DEF PlainTodo
  <1>3. Plain!Note(m, IF \E s, t \in Plain!Takers(h, m) : s # t THEN {"fanned"} ELSE {})
    BY <1>1, PlainMatching, PlainNote
  <1> HIDE DEF m
  <1>4. QED
    BY <1>1, <1>2, <1>3 DEF Plain!Take, PlainTodo, m

LEMMA PlainFinish ==
  ASSUME PipeInv, NEW h \in Hops, Finish(h)
  PROVE  Plain!Finish(h)
  <1>1. /\ at[h] # None /\ todo[h] = {} /\ asking[h] = None
        /\ at' = [at EXCEPT ![h] = None]
        /\ \/ h \in Buses /\ ~TakenUp(h, at[h]) /\ NoteUndelivered(h, at[h])
           \/ (h \in Queues \/ TakenUp(h, at[h])) /\ UNCHANGED <<line, outcome, grounds>>
        /\ Answers(h)
        /\ publishError' = [publishError EXCEPT ![h] = "ok"]
        /\ UNCHANGED <<todo, asking, mode, arrived, pending>>
    BY DEF Finish
  <1>2. PlainTodo[h] = {} /\ PlainTodo' = PlainTodo
    BY <1>1 DEF PlainTodo
  <1>3. Plain!TakenUp(h, at[h]) <=> TakenUp(h, at[h])
    BY PlainMatching
  <1>4. NoteUndelivered(h, at[h]) => Plain!NoteUndelivered(h, at[h])
    BY PlainNoted
  <1>5. Plain!Answers(h)
    BY <1>1 DEF Answers, Plain!Answers
  <1>6. QED
    BY <1>1, <1>2, <1>3, <1>4, <1>5 DEF Plain!Finish, PlainTodo

LEMMA PlainStep ==
  NoFailingTapIsAsked /\ PipeInv /\ AskedInv /\ [Next]_vars => [Plain!Next]_(Plain!vars)
  <1> SUFFICES ASSUME NoFailingTapIsAsked, PipeInv, AskedInv, [Next]_vars
               PROVE  [Plain!Next]_(Plain!vars)
    OBVIOUS
  <1>1. ASSUME NEW h \in Hops, Plain!HopStep(h) PROVE Plain!Next
    BY <1>1 DEF Plain!Next, Plain!Progress, Plain!Hops, Hops
  <1>2. ASSUME NEW d \in Deliveries, NEW a \in MayArrive[d], Arrive(d, a) PROVE Plain!Next
    <2>1. PlainTodo' = PlainTodo
      BY <1>2 DEF Arrive, PlainTodo
    <2>2. Plain!Arrive(d, a)
      BY <1>2, <2>1, PlainPublish DEF Arrive, Plain!Arrive, PlainTodo
    <2>3. QED
      BY <2>2 DEF Plain!Next
  <1>3. ASSUME NEW h \in Hops, Take(h) PROVE Plain!Next
    BY <1>1, <1>3, PlainTake DEF Plain!HopStep
  <1>4. ASSUME NEW h \in Hops, Finish(h) PROVE Plain!Next
    BY <1>1, <1>4, PlainFinish DEF Plain!HopStep
  <1>5. ASSUME NEW h \in Hops, NEW s \in todo[h], Calls(h, s)
        PROVE  [Plain!Next]_(Plain!vars)
    <2>1. CASE h \in Buses /\ s \in Taps
      BY <1>5, <2>1, TapCalls
    <2>2. CASE h \notin Buses \/ s \notin Taps
      BY <1>5, <2>2, PlainCalls
    <2>3. QED
      BY <2>1, <2>2
  <1>6. ASSUME NEW h \in Hops, NEW failed \in BOOLEAN, AskReturns(h, failed) PROVE Plain!Next
    <2>1. PlainTodo' = PlainTodo
      BY <1>6 DEF AskReturns, PlainTodo
    <2>2. Plain!AskReturns(h, failed)
      BY <1>6, <2>1, PlainSettles, PlainNote, PlainReports
      DEF AskReturns, Plain!AskReturns, PlainTodo
    <2>3. QED
      BY <1>1, <2>2 DEF Plain!HopStep
  <1>7. ASSUME NEW w \in pending, NEW failed \in BOOLEAN, Complete(w[1], w[2], failed)
        PROVE  Plain!Next
    <2>1. PlainTodo' = PlainTodo
      BY <1>7 DEF Complete, hops, PlainTodo
    <2>2. Plain!Complete(w[1], w[2], failed)
      BY <1>7, <2>1, PlainWork, PlainNote DEF Complete, Plain!Complete, hops, Plain!hops,
         PlainTodo
    <2>3. QED
      BY <2>2 DEF Plain!Next, Plain!Progress, Plain!WorkStep
  <1>8. CASE UNCHANGED vars
    BY <1>8 DEF vars, hops, deliveries, Plain!vars, Plain!hops, Plain!deliveries
  <1>9. QED
    BY <1>2, <1>3, <1>4, <1>5, <1>6, <1>7, <1>8 DEF Next, Progress, HopStep, WorkStep

(* "Observation must not change delivery": as long as no bus that is asked *)
(* has a tap that may fail, whatever the taps of the buses do and return,  *)
(* every step is one the same pipeline can take without them, with the     *)
(* same messages, calls, answers and verdicts, or no step at all.          *)
THEOREM TapsOnlyObserve == NoFailingTapIsAsked => (Spec => TapsChangeNothing)
  <1> SUFFICES ASSUME NoFailingTapIsAsked PROVE Spec => TapsChangeNothing
    OBVIOUS
  <1>1. Init => Plain!Init
    <2> SUFFICES ASSUME Init PROVE Plain!Init
      OBVIOUS
    <2>1. PlainTodo = [h \in Hops |-> {}]
      BY DEF Init, PlainTodo
    <2>2. QED
      BY <2>1 DEF Init, Plain!Init, Plain!Hops, Hops, PlainTodo
  <1>2. PipeInv /\ AskedInv /\ [Next]_vars => [Plain!Next]_(Plain!vars)
    BY PlainStep
  <1>3. QED
    BY <1>1, <1>2, PipeInit, PipeStep, AskedInit, AskedStep, PTL
    DEF Spec, TapsChangeNothing, Plain!Spec

(* No error for which a tap alone is to blame is kept, or answers anybody. *)
NoTapBlamed ==
    /\ \A h \in Hops : publishError[h] # "tap" /\ answered[h] # "tap"
    /\ \A d \in Deliveries : "tapped" \notin grounds[d]

LEMMA BlamelessReport ==
  ASSUME AnswerInv, \A g \in Hops : publishError[g] # "tap", NEW h \in Hops,
         NEW result \in {"ok", "error"}, Reports(h, result)
  PROVE  \A g \in Hops : publishError'[g] # "tap"
  BY DEF AnswerInv, Reports

LEMMA BlamelessNote ==
  ASSUME VerdictInv, \A d \in Deliveries : "tapped" \notin grounds[d], NEW m \in Messages,
         NEW g \in SUBSET (Grounds \ {"tapped"}), Note(m, g)
  PROVE  \A d \in Deliveries : "tapped" \notin grounds'[d]
  <1>1. \A d \in Deliveries :
           grounds'[d] = IF d = m.d /\ m.mode # "none" THEN grounds[d] \union g ELSE grounds[d]
    <2>1. g \in SUBSET Grounds
      OBVIOUS
    <2>2. QED
      BY <2>1, NotedGrounds
  <1>2. QED
    BY <1>1

LEMMA BlamelessCalls ==
  ASSUME NoFailingTapIsAsked, PipeInv, AskedInv, AnswerInv, NoTapBlamed,
         NEW h \in Hops, NEW s \in todo[h], Calls(h, s)
  PROVE  NoTapBlamed'
  <1>1. Begins(h, s) /\ VerdictInv
    BY DEF Calls, CallDropped, CallQueue, CallBus, Ask, CallObserver, CallHandler, CallDeferrer,
       PipeInv
  <1>2. at[h] \in Messages /\ s \in Subscribers
    BY <1>1, Called
  <1>3. CASE Ask(h, s)
    <2>1. UNCHANGED <<publishError, grounds>>
      BY <1>3 DEF Ask, deliveries
    <2>2. UNCHANGED answered \/ answered' = [answered EXCEPT ![h] = "error"]
      BY <1>3 DEF Ask
    <2>3. \A g \in Hops : answered'[g] # "tap"
      BY <2>2 DEF NoTapBlamed, AnswerInv
    <2>4. QED
      BY <2>1, <2>3 DEF NoTapBlamed
  <1>4. ASSUME ~Ask(h, s)
        PROVE  /\ UNCHANGED answered
               /\ \E g \in SUBSET (Grounds \ {"tapped"}) : Note(at[h], g)
               /\ UNCHANGED publishError \/ \E r \in {"ok", "error"} : Reports(h, r)
    <2>1. CASE CallDropped(h, s)
      <3>1. PICK g \in SUBSET {"filtered", "abandoned"} : Note(at[h], g)
        BY <1>2, <2>1, DroppedNotes
      <3>2. g \in SUBSET (Grounds \ {"tapped"})
        BY DEF Grounds
      <3>3. QED
        BY <2>1, <3>1, <3>2 DEF CallDropped
    <2>2. ASSUME NEW failed \in BOOLEAN, CallObserver(h, s, failed)
          PROVE  /\ UNCHANGED answered /\ \E g \in {{}, {"abandoned"}} : Note(at[h], g)
                 /\ UNCHANGED publishError \/ Reports(h, "ok")
      <3>1. at[h].asker = None \/ End[s].kind # "observe"
        <4>1. CASE h \in Buses
          BY <1>1, <4>1, TapUnasked
        <4>2. CASE h \in Queues
          <5>1. h \notin Buses
            BY <4>2, PipelineAssumption
          <5>2. ~AskedOn(h)
            BY <5>1, PipelineAssumption DEF AskedOn
          <5>3. QED
            BY <1>2, <5>2, MessageParts DEF AskedInv
        <4>3. QED
          BY <4>1, <4>2 DEF Hops
      <3>2. UNCHANGED publishError \/ Reports(h, "ok")
        BY <2>2, <3>1 DEF CallObserver, Reports
      <3>3. QED
        BY <2>2, <3>2 DEF CallObserver
    <2>3. ASSUME \/ CallQueue(h, s)
                 \/ \E failed \in BOOLEAN : CallHandler(h, s, failed) \/ CallDeferrer(h, s, failed)
          PROVE  /\ UNCHANGED answered
                 /\ \E g \in {{}, {"refused"}, {"failed"}, {"handled"}} : Note(at[h], g)
                 /\ \E r \in {"ok", "error"} : Reports(h, r)
      BY <2>3 DEF CallQueue, CallHandler, CallDeferrer, ErrorIf
    <2>4. ASSUME CallBus(h, s)
          PROVE  /\ UNCHANGED <<answered, publishError>>
                 /\ \E g \in {{}, {"refused"}} : Note(at[h], g)
      BY <2>4 DEF CallBus
    <2>5. {{}, {"abandoned"}, {"refused"}, {"failed"}, {"handled"}}
              \subseteq SUBSET (Grounds \ {"tapped"})
      BY DEF Grounds
    <2>6. QED
      BY <1>4, <2>1, <2>2, <2>3, <2>4, <2>5 DEF Calls
  <1>5. CASE ~Ask(h, s)
    BY <1>1, <1>2, <1>4, <1>5, BlamelessReport, BlamelessNote DEF NoTapBlamed
  <1>6. QED
    BY <1>3, <1>5

LEMMA BlamelessStep ==
  /\ NoFailingTapIsAsked /\ PipeInv /\ AskedInv /\ AnswerInv /\ NoTapBlamed
  /\ [Next]_vars
  => NoTapBlamed'
  <1> SUFFICES ASSUME NoFailingTapIsAsked, PipeInv, AskedInv, AnswerInv, NoTapBlamed,
                      [Next]_vars
               PROVE  NoTapBlamed'
    OBVIOUS
  <1>1. VerdictInv /\ LineInv
    BY DEF PipeInv
  <1>2. ASSUME NEW m \in Messages,
               \E g \in {{}, {"fanned"}, {"failed"}, {"handled"}, {"refused"}, {"unhandled"},
                         {"unwanted"}} : Note(m, g)
        PROVE  \A d \in Deliveries : "tapped" \notin grounds'[d]
    BY <1>1, <1>2, BlamelessNote DEF NoTapBlamed, Grounds
  <1>3. ASSUME UNCHANGED <<answered, publishError>>,
               \A d \in Deliveries : "tapped" \notin grounds'[d]
        PROVE  NoTapBlamed'
    BY <1>3 DEF NoTapBlamed
  <1>4. ASSUME NEW h \in Hops, Take(h) PROVE NoTapBlamed'
    <2>1. Head(line[h]) \in Messages
      BY <1>1, <1>4, TakenLine DEF Take
    <2>2. \E g \in {{}, {"fanned"}} : Note(Head(line[h]), g)
      BY <1>4 DEF Take
    <2>3. QED
      BY <1>2, <1>3, <1>4, <2>1, <2>2 DEF Take
  <1>5. ASSUME NEW h \in Hops, Finish(h) PROVE NoTapBlamed'
    <2>1. at[h] \in Messages
      BY <1>5, AtHand DEF Finish
    <2>2. Answers(h) /\ publishError' = [publishError EXCEPT ![h] = "ok"]
      BY <1>5 DEF Finish
    <2>3. \A g \in Hops : publishError'[g] # "tap" /\ answered'[g] # "tap"
      BY <2>2 DEF Answers, NoTapBlamed, AnswerInv
    <2>4. \A d \in Deliveries : "tapped" \notin grounds'[d]
      <3>1. CASE UNCHANGED grounds
        BY <3>1 DEF NoTapBlamed
      <3>2. CASE Publish(h, Copy(at[h]))
        <4>1. Copy(at[h]) \in Messages
          BY <2>1, CopiedMessage
        <4>2. UNCHANGED grounds \/ Note(Copy(at[h]), {"refused"})
          BY <3>2 DEF Publish, Refuses
        <4>3. QED
          BY <1>2, <3>1, <4>1, <4>2
      <3>3. CASE Note(at[h], {"unhandled"}) \/ Note(at[h], {"unwanted"})
        BY <1>2, <2>1, <3>3
      <3>4. QED
        BY <1>5, <3>1, <3>2, <3>3 DEF Finish, NoteUndelivered, Refuses, Copy
    <2>5. QED
      BY <2>3, <2>4 DEF NoTapBlamed
  <1>6. ASSUME NEW h \in Hops, NEW failed \in BOOLEAN, AskReturns(h, failed)
        PROVE  NoTapBlamed'
    <2>1. at[h] \in Messages
      BY <1>6, AtHand DEF AskReturns, PipeInv, HandInv, AtWork
    <2>2. Makes(h, failed) = ErrorIf(failed)
      BY DEF NoTapBlamed, Makes, ErrorIf
    <2>3. Reports(h, ErrorIf(failed)) /\ answered' = [answered EXCEPT ![h] = "none"]
      BY <1>6, <2>2 DEF AskReturns
    <2>4. \E g \in {{"failed"}, {"handled"}} : Note(at[h], g)
      BY <1>6, <2>2 DEF AskReturns, ErrorIf
    <2>5. \A g \in Hops : publishError'[g] # "tap" /\ answered'[g] # "tap"
      BY <2>3, BlamelessReport DEF ErrorIf, NoTapBlamed, AnswerInv
    <2>6. QED
      BY <1>2, <2>1, <2>4, <2>5 DEF NoTapBlamed
  <1>7. CASE WorkStep
    <2>1. PICK w \in pending, failed \in BOOLEAN : Complete(w[1], w[2], failed)
      BY <1>7 DEF WorkStep
    <2>2. w[2] \in Messages
      BY DEF PipeInv, ArrivalInv
    <2>3. \E g \in {{"failed"}, {"handled"}} : Note(w[2], g)
      BY <2>1 DEF Complete
    <2>4. QED
      BY <1>2, <1>3, <2>1, <2>2, <2>3 DEF Complete, hops
  <1>8. ASSUME NEW d \in Deliveries, NEW a \in MayArrive[d], Arrive(d, a) PROVE NoTapBlamed'
    <2> DEFINE n == [d |-> d, topic |-> a.topic, mode |-> a.mode, asker |-> None]
    <2>1. n \in Messages
      BY PipelineAssumption DEF Messages, Arrivals
    <2>2. UNCHANGED grounds \/ Note(n, {"refused"})
      BY <1>8 DEF Arrive, Publish, Refuses
    <2> HIDE DEF n
    <2>3. QED
      BY <1>2, <1>3, <1>8, <2>1, <2>2 DEF Arrive, NoTapBlamed
  <1>9. CASE UNCHANGED vars
    BY <1>3, <1>9 DEF vars, hops, deliveries, NoTapBlamed
  <1>10. QED
    BY <1>4, <1>5, <1>6, <1>7, <1>8, <1>9, BlamelessCalls DEF Next, Progress, HopStep

(* On that condition no delivery is nacked for no other reason than a tap  *)
(* that failed: the answer of PublishSync is the only way by which an      *)
(* observer's error reaches a broker.                                      *)
THEOREM TapsUnheardUnlessAsked == NoFailingTapIsAsked => (Spec => []TapsUnheard)
  <1> SUFFICES ASSUME NoFailingTapIsAsked PROVE Spec => []TapsUnheard
    OBVIOUS
  <1>1. Init => AnswerInv /\ NoTapBlamed
    BY DEF Init, AnswerInv, Results, NoTapBlamed
  <1>2. PipeInv /\ AskedInv /\ AnswerInv /\ NoTapBlamed /\ [Next]_vars => NoTapBlamed'
    BY BlamelessStep
  <1>3. FollowsTheWork /\ NoTapBlamed => TapsUnheard
    BY DEF FollowsTheWork, NoTapBlamed, TapsUnheard
  <1>4. QED
    BY <1>1, <1>2, <1>3, PipeInit, PipeStep, AnswerStep, AskedInit, AskedStep,
       VerdictFollows, PTL DEF Spec
=============================================================================
