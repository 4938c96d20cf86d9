------------------------------ MODULE Wrappers ------------------------------
(***************************************************************************)
(* Subscribers that wrap other subscribers, as chains: a sequence of       *)
(* layers, the outermost first, of which only the last may hand a message  *)
(* on to somebody else or do the work.                                     *)
(*                                                                         *)
(*   log        LoggingSubscriber; with nothing behind it, a tap           *)
(*   transform  TransformingSubscriber, with its steps                     *)
(*   queue      AsyncQueueingSubscriber, with the queue of each topic      *)
(*   bus        another event bus                                          *)
(*   handle, ask, defer, observe   subscribers of an application           *)
(*                                                                         *)
(* A transform step is a function of the topic (payloads and fields do not *)
(* decide anything here): the new topic, None if the message is dropped,   *)
(* and the flag that says whether further steps are called.                *)
(***************************************************************************)
EXTENDS TopicMatch, SequencesExt

CONSTANTS
    Topics,     \* the topics a message may have
    None        \* no topic, no message

Pass(topic) == [to |-> topic, go |-> TRUE]
Drop(go) == [to |-> None, go |-> go]
StartsWith(topic, prefix) == IsPrefix(prefix, topic)
-----------------------------------------------------------------------------
(* The steps of src/transform/transform.go.                                *)

DropTopicPattern(pattern) ==
    [t \in Topics |-> IF TopicMatches(pattern, t) THEN Drop(FALSE) ELSE Pass(t)]
DropTopicPrefix(prefix) ==
    [t \in Topics |-> IF StartsWith(t, prefix) THEN Drop(FALSE) ELSE Pass(t)]
AddTopicPrefix(prefix) == [t \in Topics |-> Pass(prefix \o t)]
ReplaceInTopic(old, new) == [t \in Topics |-> Pass(ReplaceAll(t, old, new))]
StopTransforms == [t \in Topics |-> Drop(FALSE)]

\* The payload function returned nil for these topics, and something for the others.
ModifyPayload(nils) == [t \in Topics |-> IF t \in nils THEN Drop(TRUE) ELSE Pass(t)]

IfElsePattern(pattern, f, g) == [t \in Topics |-> IF TopicMatches(pattern, t) THEN f[t] ELSE g[t]]
IfElsePrefix(prefix, f, g) == [t \in Topics |-> IF StartsWith(t, prefix) THEN f[t] ELSE g[t]]
Unchanged == [t \in Topics |-> Pass(t)]
IfPattern(pattern, f) == IfElsePattern(pattern, f, Unchanged)
IfPrefix(prefix, f) == IfElsePrefix(prefix, f, Unchanged)
TransformOnPattern(pattern, nils) == IfPattern(pattern, ModifyPayload(nils))

\* A step runs unless the message is gone or a step before it said stop.
Onward(r, f) == IF r.to = None \/ ~r.go THEN r ELSE f[r.to]

TransformMessage(topic, steps) ==
    LET after[i \in 0..Len(steps)] ==
            IF i = 0 THEN Pass(topic) ELSE Onward(after[i - 1], steps[i])
    IN after[Len(steps)]

ChainTransforms(steps) == [t \in Topics |-> TransformMessage(t, steps)]
-----------------------------------------------------------------------------
(* Chains.                                                                 *)

\* What a layer passes on.  The flag is not looked at: what a step let through
\* goes to the subscriber behind.
PassedBy(layer, t) ==
    IF t = None \/ layer.kind # "transform" THEN t ELSE TransformMessage(t, layer.steps).to

\* The topic under which a message comes to the end of the chain, or None.
Passed(chain, topic) ==
    LET behind[i \in 0..Len(chain)] ==
            IF i = 0 THEN topic ELSE PassedBy(chain[i], behind[i - 1])
    IN behind[Len(chain)]

\* What a layer answers itself; handled is what one says by saying nothing.
Says(chain, i) ==
    CASE chain[i].kind \in {"queue", "bus", "defer"} -> "deferred"
      [] chain[i].kind = "observe" -> "observed"
      [] chain[i].kind = "log" /\ i = Len(chain) -> "observed"
      [] OTHER -> "handled"

\* The first layer, from the outside, that has something to say.
DispositionOf(chain) ==
    LET telling == SelectInSeq([i \in DOMAIN chain |-> Says(chain, i)], LAMBDA d : d # "handled")
    IN IF telling = 0 THEN "handled" ELSE Says(chain, telling)
=============================================================================
