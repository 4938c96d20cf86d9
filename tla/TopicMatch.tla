----------------------------- MODULE TopicMatch -----------------------------
(***************************************************************************)
(* Which topics a subscription's pattern takes: topicmatch.Matches with    *)
(* the rule that keeps a leading wildcard off the topics that start with   *)
(* "$", and makeMatcher of src/subscriber.go, which does not ask for a     *)
(* pattern without wildcards.  Topics and patterns are sequences of        *)
(* levels.  The engine that knows the wildcards is a library.              *)
(***************************************************************************)
EXTENDS Naturals, Sequences

One == {"+", "+name"}                   \* stands for one level
Rest == {"#", "#name"}                  \* stands for all that follow
System == {"$undeliverable", "$sys"}    \* levels that start with "$"

\* mqttpattern.Matches, as topicmatch_test.go shows it.
EngineMatches(pattern, topic) ==
    LET agree(n) == \A i \in 1..n : pattern[i] \in One \/ pattern[i] = topic[i]
        n == Len(pattern)
    IN \/ pattern = <<"">>
       \/ n = Len(topic) /\ agree(n)
       \/ n > 0 /\ pattern[n] \in Rest /\ Len(topic) >= n - 1 /\ agree(n - 1)

Blocked(pattern, topic) ==
    /\ topic # <<>> /\ topic[1] \in System
    /\ pattern # <<>> /\ pattern[1] \in One \union Rest

TopicMatches(pattern, topic) == ~Blocked(pattern, topic) /\ EngineMatches(pattern, topic)

HasWildcard(pattern) == \E i \in DOMAIN pattern : pattern[i] \in One \union Rest

\* Whether the matcher of a subscription, with extraction or without, accepts.
Accepts(extracting, pattern, topic) ==
    IF extracting \/ HasWildcard(pattern) THEN TopicMatches(pattern, topic)
    ELSE topic = pattern
=============================================================================
