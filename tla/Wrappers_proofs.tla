--------------------------- MODULE Wrappers_proofs ---------------------------
(***************************************************************************)
(* Theorems about the operators of Wrappers and TopicMatch: about chains   *)
(* of any number of layers, transforms of any number of steps, and any     *)
(* patterns and topics.  What comes out of a transform, or of a chain, is  *)
(* what comes of the message when functions are applied to it one after    *)
(* the other (RunsTo), and two runs in a row are a run.                    *)
(***************************************************************************)
EXTENDS Wrappers, SharedLemmas

Results == [to : Topics \union {None}, go : BOOLEAN]
TransformSteps == [Topics -> Results]

\* No further step is called.
Ended(r) == r.to = None \/ ~r.go

\* The steps as functions of what the steps before them made.
Onwards(steps) == [i \in 1..Len(steps) |-> [r \in Results |-> Onward(r, steps[i])]]

LEMMA OnwardType ==
  ASSUME NEW f \in TransformSteps, NEW r \in Results
  PROVE  Onward(r, f) \in Results
  BY DEF Onward, Results, TransformSteps

LEMMA OnwardsType ==
  ASSUME NEW steps \in Seq(TransformSteps)
  PROVE  Onwards(steps) \in Seq([Results -> Results]) /\ Len(Onwards(steps)) = Len(steps)
  <1>1. Len(steps) \in Nat /\ \A i \in 1..Len(steps) : steps[i] \in TransformSteps
    OBVIOUS
  <1>2. \A i \in 1..Len(steps) : [r \in Results |-> Onward(r, steps[i])] \in [Results -> Results]
    BY <1>1, OnwardType
  <1>3. QED
    BY <1>1, <1>2 DEF Onwards

(* TransformMessage is what its recursive definition says: the last of the *)
(* results that one step after another makes.                              *)
LEMMA TransformRuns ==
  ASSUME NEW t \in Topics, NEW steps \in Seq(TransformSteps)
  PROVE  /\ TransformMessage(t, steps) \in Results
         /\ RunsTo(Results, Onwards(steps), Pass(t), TransformMessage(t, steps))
  <1> DEFINE F == Onwards(steps)
             L == Len(steps)
             Def(a) == a = [i \in 0..L |-> IF i = 0 THEN Pass(t) ELSE Onward(a[i - 1], steps[i])]
             c == CHOOSE a : Def(a)
  <1>1. Pass(t) \in Results
    BY DEF Pass, Results
  <1>2. F \in Seq([Results -> Results]) /\ Len(F) = L /\ L \in Nat
    BY OnwardsType
  <1>3. PICK r \in Results : RunsTo(Results, F, Pass(t), r)
    BY <1>1, <1>2, RunExists
  <1>4. PICK g \in [0..L -> Results] : /\ g[0] = Pass(t) /\ g[L] = r
                                       /\ \A i \in 1..L : g[i] = F[i][g[i - 1]]
    BY <1>2, <1>3 DEF RunsTo
  <1>5. ASSUME NEW h \in [0..L -> Results], NEW i \in 1..L
        PROVE  F[i][h[i - 1]] = Onward(h[i - 1], steps[i])
    <2>1. i - 1 \in 0..L
      BY <1>2
    <2>2. h[i - 1] \in Results
      BY <2>1
    <2>3. QED
      BY <2>2 DEF Onwards
  <1>6. Def(g)
    <2>1. ASSUME NEW i \in 0..L
          PROVE  g[i] = IF i = 0 THEN Pass(t) ELSE Onward(g[i - 1], steps[i])
      <3>1. CASE i = 0
        BY <1>4, <3>1
      <3>2. CASE i # 0
        <4>1. i \in 1..L
          BY <1>2, <3>2
        <4>2. g[i] = Onward(g[i - 1], steps[i])
          BY <1>4, <1>5, <4>1
        <4>3. QED
          BY <3>2, <4>2
      <3>3. QED
        BY <3>1, <3>2
    <2>2. QED
      BY <2>1
  <1>7. Def(c)
    BY <1>6
  <1>8. TransformMessage(t, steps) = c[L]
    BY DEF TransformMessage
  <1> HIDE DEF c
  <1>9. c[0] = Pass(t) /\ \A i \in 1..L : c[i] = Onward(c[i - 1], steps[i])
    BY <1>2, <1>7
  <1>10. \A i \in 1..L : c[i - 1] \in Results => c[i] = F[i][c[i - 1]]
    BY <1>9 DEF Onwards
  <1> HIDE DEF F
  <1>11. c[L] \in Results /\ RunsTo(Results, F, Pass(t), c[L])
    BY <1>1, <1>2, <1>9, <1>10, RunOf, ZenonT(40)
  <1>12. QED
    BY <1>8, <1>11 DEF F

(* What has ended stays as it is, whatever steps follow.                   *)
LEMMA EndedStays ==
  ASSUME NEW r \in Results, Ended(r), NEW steps \in Seq(TransformSteps)
  PROVE  RunsTo(Results, Onwards(steps), r, r)
  <1> DEFINE L == Len(steps)
             g == [i \in 0..L |-> r]
  <1>1. Len(Onwards(steps)) = L /\ L \in Nat
    BY OnwardsType
  <1>2. \A i \in 1..L : Onwards(steps)[i][r] = r
    BY DEF Onwards, Onward, Ended
  <1>3. g \in [0..L -> Results] /\ g[0] = r /\ g[L] = r
    BY <1>1
  <1>4. \A i \in 1..L : g[i] = Onwards(steps)[i][g[i - 1]]
    BY <1>1, <1>2
  <1> HIDE DEF g
  <1>5. \E h \in [0..L -> Results] : /\ h[0] = r /\ h[L] = r
                                     /\ \A i \in 1..L : h[i] = Onwards(steps)[i][h[i - 1]]
    BY <1>3, <1>4
  <1>6. QED
    BY <1>1, <1>5 DEF RunsTo

LEMMA OnwardsConcat ==
  ASSUME NEW a \in Seq(TransformSteps), NEW b \in Seq(TransformSteps)
  PROVE  a \o b \in Seq(TransformSteps) /\ Onwards(a \o b) = Onwards(a) \o Onwards(b)
  <1> DEFINE S == [Results -> Results]
             n == Len(a)
             m == Len(b)
  <1>1. n \in Nat /\ m \in Nat
    OBVIOUS
  <1>2. /\ a \o b \in Seq(TransformSteps) /\ Len(a \o b) = n + m
        /\ \A i \in 1..n : (a \o b)[i] = a[i]
        /\ \A j \in 1..m : (a \o b)[n + j] = b[j]
    BY ConcatProperties
  <1>3. /\ Onwards(a) \in Seq(S) /\ Len(Onwards(a)) = n
        /\ Onwards(b) \in Seq(S) /\ Len(Onwards(b)) = m
        /\ Onwards(a \o b) \in Seq(S) /\ Len(Onwards(a \o b)) = n + m
    BY <1>2, OnwardsType
  <1>4. \A i \in 1..n : Onwards(a \o b)[i] = Onwards(a)[i]
    BY <1>1, <1>2 DEF Onwards
  <1>5. \A j \in 1..m : Onwards(a \o b)[n + j] = Onwards(b)[j]
    BY <1>1, <1>2 DEF Onwards
  <1> DEFINE F == Onwards(a)
             G == Onwards(b)
             H == Onwards(a \o b)
  <1>6. /\ F \in Seq(S) /\ G \in Seq(S) /\ H \in Seq(S) /\ Len(H) = Len(F) + Len(G)
        /\ \A i \in 1..Len(F) : H[i] = F[i]
        /\ \A j \in 1..Len(G) : H[Len(F) + j] = G[j]
    BY <1>3, <1>4, <1>5
  <1> HIDE DEF F, G, H, S
  <1>7. H = F \o G
    BY <1>6, ConcatIs
  <1>8. QED
    BY <1>2, <1>7 DEF F, G, H

(* More steps behind the first ones begin with what those made, unless     *)
(* they ended it (transform.go:163).                                       *)
THEOREM StepsInARow ==
  ASSUME NEW t \in Topics, NEW a \in Seq(TransformSteps), NEW b \in Seq(TransformSteps)
  PROVE  /\ Ended(TransformMessage(t, a)) => TransformMessage(t, a \o b) = TransformMessage(t, a)
         /\ ~Ended(TransformMessage(t, a)) =>
                /\ TransformMessage(t, a).to \in Topics
                /\ TransformMessage(t, a \o b) = TransformMessage(TransformMessage(t, a).to, b)
  <1> DEFINE r == TransformMessage(t, a)
             F == Onwards(a)
             G == Onwards(b)
  <1>1. /\ F \in Seq([Results -> Results]) /\ G \in Seq([Results -> Results])
        /\ a \o b \in Seq(TransformSteps) /\ Onwards(a \o b) = F \o G
        /\ Len(F \o G) \in Nat
    BY OnwardsType, OnwardsConcat
  <1>2. r \in Results /\ RunsTo(Results, F, Pass(t), r)
    BY TransformRuns
  <1>3. RunsTo(Results, F \o G, Pass(t), TransformMessage(t, a \o b))
    BY <1>1, TransformRuns
  <1> HIDE DEF F, G
  <1>4. ASSUME NEW q, RunsTo(Results, G, r, q) PROVE TransformMessage(t, a \o b) = q
    <2>1. RunsTo(Results, F \o G, Pass(t), q)
      BY <1>1, <1>2, <1>4, RunConcat
    <2>2. QED
      BY <1>1, <1>3, <2>1, RunUnique
  <1>5. CASE Ended(r)
    <2>1. RunsTo(Results, G, r, r)
      BY <1>2, <1>5, EndedStays DEF G
    <2>2. QED
      BY <1>4, <1>5, <2>1
  <1>6. CASE ~Ended(r)
    <2>1. r.to \in Topics /\ r = Pass(r.to)
      BY <1>2, <1>6 DEF Ended, Pass, Results
    <2>2. RunsTo(Results, G, Pass(r.to), TransformMessage(r.to, b))
      BY <2>1, TransformRuns DEF G
    <2>3. RunsTo(Results, G, r, TransformMessage(r.to, b))
      BY <2>1, <2>2, Zenon
    <2>4. QED
      BY <1>4, <1>6, <2>1, <2>3
  <1>7. QED
    BY <1>5, <1>6

(* A message that the first steps drop stays dropped, whatever follows     *)
(* (transform.go:164 and 171).                                             *)
THEOREM DroppedStaysDropped ==
  ASSUME NEW t \in Topics, NEW a \in Seq(TransformSteps), NEW b \in Seq(TransformSteps),
         TransformMessage(t, a).to = None
  PROVE  TransformMessage(t, a \o b).to = None
  BY StepsInARow DEF Ended

LEMMA OneStep ==
  ASSUME NEW t \in Topics, None \notin Topics, NEW f \in TransformSteps
  PROVE  TransformMessage(t, <<f>>) = f[t]
  <1>1. <<f>> \in Seq(TransformSteps) /\ Len(<<f>>) = 1
    OBVIOUS
  <1>2. RunsTo(Results, Onwards(<<f>>), Pass(t), TransformMessage(t, <<f>>))
    BY <1>1, TransformRuns
  <1>3. Len(Onwards(<<f>>)) = 1
    BY <1>1, OnwardsType
  <1>4. PICK g \in [0..1 -> Results] :
            /\ g[0] = Pass(t) /\ g[1] = TransformMessage(t, <<f>>)
            /\ \A i \in 1..1 : g[i] = Onwards(<<f>>)[i][g[i - 1]]
    BY <1>2, <1>3 DEF RunsTo
  <1>5. g[1] = Onwards(<<f>>)[1][Pass(t)] /\ Pass(t) \in Results
    <2>1. 1 \in 1..1 /\ 1 - 1 = 0
      OBVIOUS
    <2>2. g[1] = Onwards(<<f>>)[1][g[0]]
      BY <1>4, <2>1
    <2>3. QED
      BY <1>4, <2>2 DEF Pass, Results
  <1>6. Onwards(<<f>>)[1][Pass(t)] = Onward(Pass(t), f)
    BY <1>1, <1>5 DEF Onwards
  <1>7. QED
    BY <1>4, <1>5, <1>6 DEF Onward, Pass

(* Steps chained into one are steps in a row: a chain may be replaced by   *)
(* its steps, at any place and of any length, and nothing changes for the  *)
(* message (transform.go:153).                                             *)
THEOREM ChainsAreFlat ==
  ASSUME None \notin Topics, NEW t \in Topics,
         NEW a \in Seq(TransformSteps), NEW b \in Seq(TransformSteps), NEW c \in Seq(TransformSteps)
  PROVE  TransformMessage(t, a \o (<<ChainTransforms(b)>> \o c)) = TransformMessage(t, a \o (b \o c))
  <1> DEFINE chained == ChainTransforms(b)
  <1>1. chained \in TransformSteps /\ \A x \in Topics : chained[x] = TransformMessage(x, b)
    BY TransformRuns DEF ChainTransforms, TransformSteps
  <1>2. <<chained>> \in Seq(TransformSteps)
    BY <1>1
  <1>3. b \o c \in Seq(TransformSteps) /\ <<chained>> \o c \in Seq(TransformSteps)
    BY <1>2, OnwardsConcat
  <1> HIDE DEF chained
  <1>4. ASSUME NEW x \in Topics
        PROVE  TransformMessage(x, <<chained>> \o c) = TransformMessage(x, b \o c)
    <2>1. TransformMessage(x, <<chained>>) = TransformMessage(x, b)
      BY <1>1, OneStep
    <2> DEFINE r == TransformMessage(x, b)
               q == TransformMessage(x, <<chained>>)
    <2>2. /\ Ended(q) => TransformMessage(x, <<chained>> \o c) = q
          /\ ~Ended(q) => TransformMessage(x, <<chained>> \o c) = TransformMessage(q.to, c)
      BY <1>2, StepsInARow, ZenonT(40)
    <2>3. /\ Ended(r) => TransformMessage(x, b \o c) = r
          /\ ~Ended(r) => TransformMessage(x, b \o c) = TransformMessage(r.to, c)
      BY StepsInARow
    <2>4. q = r
      BY <2>1
    <2> HIDE DEF q, r
    <2>5. QED
      BY <2>2, <2>3, <2>4
  <1> DEFINE r == TransformMessage(t, a)
  <1>5. ASSUME NEW d \in Seq(TransformSteps)
        PROVE  /\ Ended(r) => TransformMessage(t, a \o d) = r
               /\ ~Ended(r) => r.to \in Topics /\ TransformMessage(t, a \o d) = TransformMessage(r.to, d)
    BY StepsInARow
  <1>6. TransformMessage(t, a \o (<<chained>> \o c)) = TransformMessage(t, a \o (b \o c))
    <2> DEFINE d == <<chained>> \o c
               e == b \o c
    <2>1. /\ Ended(r) => TransformMessage(t, a \o d) = r
          /\ ~Ended(r) => r.to \in Topics /\ TransformMessage(t, a \o d) = TransformMessage(r.to, d)
      BY <1>3, <1>5
    <2>2. /\ Ended(r) => TransformMessage(t, a \o e) = r
          /\ ~Ended(r) => TransformMessage(t, a \o e) = TransformMessage(r.to, e)
      BY <1>3, <1>5
    <2>3. \A x \in Topics : TransformMessage(x, d) = TransformMessage(x, e)
      BY <1>4
    <2> HIDE DEF d, e, r
    <2>4. TransformMessage(t, a \o d) = TransformMessage(t, a \o e)
      BY <2>1, <2>2, <2>3
    <2>5. QED
      BY <2>4 DEF d, e
  <1>7. QED
    BY <1>6 DEF chained

-----------------------------------------------------------------------------
(* Chains of layers.                                                       *)

Places == Topics \union {None}

\* What a layer may be: its steps matter if it is a transform.
Layered(L) == \A l \in L : l.kind = "transform" => l.steps \in Seq(TransformSteps)

\* The layers as functions of what the layers before them let through.
Passages(chain) == [i \in 1..Len(chain) |-> [t \in Places |-> PassedBy(chain[i], t)]]

LEMMA PassedByType ==
  ASSUME NEW L, Layered(L), NEW l \in L, NEW t \in Places
  PROVE  PassedBy(l, t) \in Places
  <1>1. CASE t = None \/ l.kind # "transform"
    BY <1>1 DEF PassedBy
  <1>2. CASE ~(t = None \/ l.kind # "transform")
    <2>1. t \in Topics /\ l.steps \in Seq(TransformSteps)
      BY <1>2 DEF Layered, Places
    <2>2. TransformMessage(t, l.steps) \in Results
      BY <2>1, TransformRuns
    <2>3. QED
      BY <1>2, <2>2 DEF PassedBy, Results, Places
  <1>3. QED
    BY <1>1, <1>2

LEMMA PassagesType ==
  ASSUME NEW L, Layered(L), NEW chain \in Seq(L)
  PROVE  Passages(chain) \in Seq([Places -> Places]) /\ Len(Passages(chain)) = Len(chain)
  <1>1. Len(chain) \in Nat /\ \A i \in 1..Len(chain) : chain[i] \in L
    OBVIOUS
  <1>2. \A i \in 1..Len(chain) : [t \in Places |-> PassedBy(chain[i], t)] \in [Places -> Places]
    BY <1>1, PassedByType
  <1>3. QED
    BY <1>1, <1>2 DEF Passages

(* Passed is what its recursive definition says.                           *)
LEMMA PassedRuns ==
  ASSUME NEW L, Layered(L), NEW chain \in Seq(L), NEW t \in Places
  PROVE  Passed(chain, t) \in Places /\ RunsTo(Places, Passages(chain), t, Passed(chain, t))
  <1> DEFINE F == Passages(chain)
             n == Len(chain)
             Def(a) == a = [i \in 0..n |-> IF i = 0 THEN t ELSE PassedBy(chain[i], a[i - 1])]
             c == CHOOSE a : Def(a)
  <1>1. F \in Seq([Places -> Places]) /\ Len(F) = n /\ n \in Nat
    BY PassagesType
  <1>2. PICK r \in Places : RunsTo(Places, F, t, r)
    BY <1>1, RunExists
  <1>3. PICK g \in [0..n -> Places] : g[0] = t /\ \A i \in 1..n : g[i] = F[i][g[i - 1]]
    BY <1>1, <1>2 DEF RunsTo
  <1>4. Def(g)
    <2>1. ASSUME NEW i \in 1..n PROVE g[i] = PassedBy(chain[i], g[i - 1])
      <3>1. i - 1 \in 0..n
        BY <1>1
      <3>2. g[i - 1] \in Places
        BY <3>1
      <3>3. QED
        BY <1>3, <3>2 DEF Passages
    <2>2. \A i \in 0..n : i = 0 \/ i \in 1..n
      BY <1>1
    <2>3. \A i \in 0..n : g[i] = IF i = 0 THEN t ELSE PassedBy(chain[i], g[i - 1])
      BY <1>3, <2>1, <2>2
    <2>4. QED
      BY <2>3
  <1>5. Def(c)
    BY <1>4
  <1>6. Passed(chain, t) = c[n]
    BY DEF Passed
  <1> HIDE DEF c
  <1>7. c[0] = t /\ \A i \in 1..n : c[i] = PassedBy(chain[i], c[i - 1])
    <2>1. 0 \in 0..n /\ \A i \in 1..n : i \in 0..n /\ i # 0
      BY <1>1
    <2>2. \A i \in 0..n : c[i] = IF i = 0 THEN t ELSE PassedBy(chain[i], c[i - 1])
      BY <1>5
    <2>3. QED
      BY <2>1, <2>2
  <1>8. \A i \in 1..n : c[i - 1] \in Places => c[i] = F[i][c[i - 1]]
    BY <1>7 DEF Passages
  <1> HIDE DEF F
  <1>9. c[n] \in Places /\ RunsTo(Places, F, t, c[n])
    BY <1>1, <1>7, <1>8, RunOf, ZenonT(40)
  <1>10. QED
    BY <1>6, <1>9 DEF F

LEMMA PassagesConcat ==
  ASSUME NEW L, Layered(L), NEW a \in Seq(L), NEW b \in Seq(L)
  PROVE  a \o b \in Seq(L) /\ Passages(a \o b) = Passages(a) \o Passages(b)
  <1> DEFINE S == [Places -> Places]
             n == Len(a)
             m == Len(b)
  <1>1. n \in Nat /\ m \in Nat
    OBVIOUS
  <1>2. /\ a \o b \in Seq(L) /\ Len(a \o b) = n + m
        /\ \A i \in 1..n : (a \o b)[i] = a[i]
        /\ \A j \in 1..m : (a \o b)[n + j] = b[j]
    BY ConcatProperties
  <1>3. /\ Passages(a) \in Seq(S) /\ Len(Passages(a)) = n
        /\ Passages(b) \in Seq(S) /\ Len(Passages(b)) = m
        /\ Passages(a \o b) \in Seq(S) /\ Len(Passages(a \o b)) = n + m
    BY <1>2, PassagesType
  <1>4. \A i \in 1..n : Passages(a \o b)[i] = Passages(a)[i]
    BY <1>1, <1>2 DEF Passages
  <1>5. \A j \in 1..m : Passages(a \o b)[n + j] = Passages(b)[j]
    BY <1>1, <1>2 DEF Passages
  <1> DEFINE F == Passages(a)
             G == Passages(b)
             H == Passages(a \o b)
  <1>6. /\ F \in Seq(S) /\ G \in Seq(S) /\ H \in Seq(S) /\ Len(H) = Len(F) + Len(G)
        /\ \A i \in 1..Len(F) : H[i] = F[i]
        /\ \A j \in 1..Len(G) : H[Len(F) + j] = G[j]
    BY <1>3, <1>4, <1>5
  <1> HIDE DEF F, G, H, S
  <1>7. H = F \o G
    BY <1>6, ConcatIs
  <1>8. QED
    BY <1>2, <1>7 DEF F, G, H

(* A chain behind another lets through what it makes of what came to it,   *)
(* so that wrapping a wrapper is wrapping with both                        *)
(* (subutils/transform.go:67).                                             *)
THEOREM ChainsInARow ==
  ASSUME NEW L, Layered(L), NEW a \in Seq(L), NEW b \in Seq(L), NEW t \in Places
  PROVE  Passed(a \o b, t) = Passed(b, Passed(a, t))
  <1> DEFINE F == Passages(a)
             G == Passages(b)
             r == Passed(a, t)
             q == Passed(b, r)
  <1>1. /\ F \in Seq([Places -> Places]) /\ G \in Seq([Places -> Places])
        /\ a \o b \in Seq(L) /\ Passages(a \o b) = F \o G
        /\ Len(F \o G) \in Nat
    BY PassagesType, PassagesConcat
  <1>2. r \in Places /\ RunsTo(Places, F, t, r)
    BY PassedRuns
  <1>3. RunsTo(Places, G, r, q)
    BY <1>2, PassedRuns
  <1>4. RunsTo(Places, F \o G, t, Passed(a \o b, t))
    BY <1>1, PassedRuns
  <1> HIDE DEF F, G, r, q
  <1>5. RunsTo(Places, F \o G, t, q)
    BY <1>1, <1>2, <1>3, RunConcat
  <1>6. Passed(a \o b, t) = q
    BY <1>1, <1>4, <1>5, RunUnique
  <1>7. QED
    BY <1>6 DEF q, r

(* A chain without transforms lets every message through as it is; and     *)
(* what is dropped comes nowhere (subutils/transform.go:76, logging.go).   *)
THEOREM LoggersLetThrough ==
  ASSUME NEW L, Layered(L), NEW chain \in Seq(L), NEW t \in Places,
         t = None \/ \A i \in 1..Len(chain) : chain[i].kind # "transform"
  PROVE  Passed(chain, t) = t
  <1> DEFINE n == Len(chain)
             F == Passages(chain)
             g == [i \in 0..n |-> t]
  <1>1. Len(F) = n /\ n \in Nat
    BY PassagesType
  <1>2. \A i \in 1..n : F[i][t] = t
    BY DEF Passages, PassedBy
  <1>3. g \in [0..n -> Places] /\ g[0] = t /\ g[n] = t
    BY <1>1
  <1>4. \A i \in 1..n : g[i] = F[i][g[i - 1]]
    BY <1>1, <1>2
  <1>5. RunsTo(Places, F, t, Passed(chain, t))
    BY PassedRuns
  <1> HIDE DEF F, g
  <1>6. \E h \in [0..n -> Places] : /\ h[0] = t /\ h[n] = t
                                    /\ \A i \in 1..n : h[i] = F[i][h[i - 1]]
    BY <1>3, <1>4
  <1>7. RunsTo(Places, F, t, t)
    BY <1>1, <1>6 DEF RunsTo
  <1>8. QED
    BY <1>1, <1>5, <1>7, RunUnique

-----------------------------------------------------------------------------
(* What a chain answers.                                                   *)

LEMMA SaysWhat ==
  ASSUME NEW chain, NEW i
  PROVE  /\ Says(chain, i) = "deferred" <=> chain[i].kind \in {"queue", "bus", "defer"}
         /\ Says(chain, i) = "observed" <=>
                chain[i].kind = "observe" \/ (chain[i].kind = "log" /\ i = Len(chain))
         /\ Says(chain, i) \in {"handled", "deferred", "observed"}
  BY DEF Says

(* DispositionOf is the first definite answer, or there is none.           *)
LEMMA FirstAnswer ==
  ASSUME NEW L, NEW chain \in Seq(L)
  PROVE  \/ /\ \A i \in 1..Len(chain) : Says(chain, i) = "handled"
            /\ DispositionOf(chain) = "handled"
         \/ \E k \in 1..Len(chain) :
               /\ DispositionOf(chain) = Says(chain, k) /\ Says(chain, k) # "handled"
               /\ \A i \in 1..Len(chain) : i < k => Says(chain, i) = "handled"
  <1> DEFINE n == Len(chain)
             answers == [i \in DOMAIN chain |-> Says(chain, i)]
             definite == {i \in 1..n : Says(chain, i) # "handled"}
             telling == SelectInSeq(answers, LAMBDA d : d # "handled")
  <1>1. n \in Nat /\ DOMAIN chain = 1..n
    OBVIOUS
  <1>2. Len(answers) = n /\ \A i \in 1..n : answers[i] = Says(chain, i)
    BY <1>1
  <1>3. DispositionOf(chain) = IF telling = 0 THEN "handled" ELSE Says(chain, telling)
    BY DEF DispositionOf
  <1>4. telling = IF definite # {} THEN Min(definite) ELSE 0
    <2>1. {i \in 1..Len(answers) : answers[i] # "handled"} = definite
      BY <1>2
    <2> HIDE DEF answers, definite
    <2>2. QED
      BY <2>1 DEF SelectInSeq
  <1> HIDE DEF telling, definite
  <1>5. CASE definite = {}
    BY <1>3, <1>4, <1>5 DEF definite
  <1>6. CASE definite # {}
    <2>1. definite \subseteq Nat
      BY <1>1 DEF definite
    <2>2. \E k \in definite : \A i \in definite : k <= i
      BY <1>6, <2>1, LeastNumber
    <2>3. Min(definite) \in definite /\ \A i \in definite : Min(definite) <= i
      BY <2>2 DEF Min
    <2>4. telling \in definite /\ \A i \in definite : telling <= i
      BY <1>4, <1>6, <2>3
    <2>5. telling \in 1..n /\ telling # 0 /\ Says(chain, telling) # "handled"
      BY <1>1, <2>4 DEF definite
    <2>6. ASSUME NEW i \in 1..n, i < telling PROVE Says(chain, i) = "handled"
      BY <1>1, <2>4, <2>5, <2>6 DEF definite
    <2>7. QED
      BY <1>3, <2>5, <2>6
  <1>7. QED
    BY <1>5, <1>6

LEMMA AnswerIs ==
  ASSUME NEW L, NEW chain \in Seq(L)
  PROVE  /\ (\A i \in 1..Len(chain) : Says(chain, i) = "handled") => DispositionOf(chain) = "handled"
         /\ \A k \in 1..Len(chain) :
               /\ Says(chain, k) # "handled"
               /\ \A i \in 1..Len(chain) : i < k => Says(chain, i) = "handled"
               => DispositionOf(chain) = Says(chain, k)
  <1>1. ASSUME \A i \in 1..Len(chain) : Says(chain, i) = "handled"
        PROVE  DispositionOf(chain) = "handled"
    BY <1>1, FirstAnswer
  <1>2. ASSUME NEW k \in 1..Len(chain), Says(chain, k) # "handled",
               \A i \in 1..Len(chain) : i < k => Says(chain, i) = "handled"
        PROVE  DispositionOf(chain) = Says(chain, k)
    <2>1. PICK j \in 1..Len(chain) :
             /\ DispositionOf(chain) = Says(chain, j) /\ Says(chain, j) # "handled"
             /\ \A i \in 1..Len(chain) : i < j => Says(chain, i) = "handled"
      BY <1>2, FirstAnswer
    <2>2. ~(j < k) /\ ~(k < j)
      BY <1>2, <2>1
    <2>3. j = k
      BY <2>2
    <2>4. QED
      BY <2>1, <2>3
  <1>3. QED
    BY <1>1, <1>2

(* Layers in front of a chain that answer nothing themselves.              *)
LEMMA BehindSilence ==
  ASSUME NEW L, NEW a \in Seq(L), NEW b \in Seq(L), b # <<>>,
         \A i \in 1..Len(a) : Says(a \o b, i) = "handled"
  PROVE  DispositionOf(a \o b) = DispositionOf(b)
  <1> DEFINE n == Len(a)
             m == Len(b)
             c == a \o b
  <1>1. n \in Nat /\ m \in Nat /\ m > 0
    BY EmptySeq
  <1>2. /\ c \in Seq(L) /\ Len(c) = n + m
        /\ \A j \in 1..m : c[n + j] = b[j]
    BY ConcatProperties
  <1> HIDE DEF c
  <1>3. \A j \in 1..m : Says(c, n + j) = Says(b, j)
    <2>1. \A j \in 1..m : (n + j = n + m) <=> (j = m)
      BY <1>1
    <2>2. QED
      BY <1>2, <2>1 DEF Says
  <1>4. \A i \in 1..(n + m) : i \in 1..n \/ (i - n \in 1..m /\ n + (i - n) = i)
    BY <1>1
  <1>5. \A i \in 1..n : Says(c, i) = "handled"
    BY DEF c
  <1>6. CASE \A j \in 1..m : Says(b, j) = "handled"
    <2>1. \A i \in 1..Len(c) : Says(c, i) = "handled"
      BY <1>2, <1>3, <1>4, <1>5, <1>6
    <2>2. QED
      BY <1>2, <1>6, <2>1, AnswerIs DEF c
  <1>7. CASE ~(\A j \in 1..m : Says(b, j) = "handled")
    <2>1. PICK k \in 1..m : /\ DispositionOf(b) = Says(b, k) /\ Says(b, k) # "handled"
                            /\ \A j \in 1..m : j < k => Says(b, j) = "handled"
      BY <1>7, FirstAnswer
    <2>2. n + k \in 1..Len(c) /\ Says(c, n + k) = Says(b, k)
      BY <1>1, <1>2, <1>3
    <2>3. ASSUME NEW i \in 1..Len(c), i < n + k PROVE Says(c, i) = "handled"
      <3>1. CASE i \in 1..n
        BY <1>5, <3>1
      <3>2. CASE i - n \in 1..m /\ n + (i - n) = i
        <4>1. i - n < k
          BY <1>1, <2>3
        <4>2. QED
          BY <1>3, <2>1, <3>2, <4>1
      <3>3. QED
        BY <1>2, <1>4, <3>1, <3>2
    <2>4. DispositionOf(c) = Says(c, n + k)
      BY <1>2, <2>1, <2>2, <2>3, AnswerIs
    <2>5. QED
      BY <2>1, <2>2, <2>4 DEF c
  <1>8. QED
    BY <1>6, <1>7

(* DispositionOf walks along Unwrap: the answer of a chain is that of its  *)
(* outermost layer, if that has one or nothing is behind it, and that of   *)
(* what is behind it otherwise (disposition.go:112).                       *)
THEOREM WalkAlongUnwrap ==
  ASSUME NEW L, NEW chain \in Seq(L), chain # <<>>
  PROVE  DispositionOf(chain) =
             IF Says(chain, 1) # "handled" \/ Len(chain) = 1 THEN Says(chain, 1)
             ELSE DispositionOf(Tail(chain))
  <1>1. Len(chain) \in Nat /\ Len(chain) > 0
    BY EmptySeq
  <1>2. 1 \in 1..Len(chain) /\ \A i \in 1..Len(chain) : ~(i < 1)
    BY <1>1
  <1>3. CASE Says(chain, 1) # "handled"
    BY <1>2, <1>3, AnswerIs
  <1>4. CASE Says(chain, 1) = "handled" /\ Len(chain) = 1
    <2>1. \A i \in 1..Len(chain) : Says(chain, i) = "handled"
      BY <1>4
    <2>2. QED
      BY <1>4, <2>1, AnswerIs
  <1>5. CASE Says(chain, 1) = "handled" /\ Len(chain) # 1
    <2> DEFINE a == <<chain[1]>>
               b == Tail(chain)
    <2>1. a \in Seq(L) /\ Len(a) = 1 /\ b \in Seq(L) /\ b # <<>>
      <3>1. chain[1] \in L
        BY <1>2
      <3>2. b \in Seq(L) /\ Len(b) = Len(chain) - 1
        BY <1>1, HeadTailProperties
      <3>3. Len(b) # 0
        BY <1>1, <1>5, <3>2
      <3> HIDE DEF b
      <3>4. b # <<>>
        BY <3>2, <3>3, EmptySeq
      <3>5. QED
        BY <3>1, <3>2, <3>4
    <2>2. chain = a \o b
      BY <1>1
    <2> HIDE DEF a, b
    <2>3. \A i \in 1..Len(a) : Says(a \o b, i) = "handled"
      BY <1>5, <2>1, <2>2
    <2>4. DispositionOf(a \o b) = DispositionOf(b)
      BY <2>1, <2>3, BehindSilence
    <2>5. QED
      BY <1>5, <2>2, <2>4 DEF b
  <1>6. QED
    BY <1>3, <1>4, <1>5

(* Loggers and transforms are seen through, however many there are.        *)
Wrapping == {"log", "transform"}

THEOREM WrappersSeenThrough ==
  ASSUME NEW L, NEW a \in Seq(L), NEW b \in Seq(L), b # <<>>,
         \A i \in 1..Len(a) : a[i].kind \in Wrapping
  PROVE  DispositionOf(a \o b) = DispositionOf(b)
  <1>1. Len(a) \in Nat /\ Len(b) \in Nat /\ Len(b) > 0
    BY EmptySeq
  <1>2. /\ Len(a \o b) = Len(a) + Len(b)
        /\ \A i \in 1..Len(a) : (a \o b)[i] = a[i]
    BY ConcatProperties
  <1>3. ASSUME NEW i \in 1..Len(a) PROVE Says(a \o b, i) = "handled"
    <2>1. (a \o b)[i].kind \in Wrapping /\ i # Len(a \o b)
      BY <1>1, <1>2
    <2>2. QED
      BY <2>1, SaysWhat DEF Wrapping
  <1>4. QED
    BY <1>3, BehindSilence

(* A subscriber as it is built: wrappers, and one at the end that they     *)
(* wrap.                                                                   *)
Ends == {"queue", "bus", "handle", "ask", "defer", "observe", "log"}
Built(L, chain) ==
    /\ chain \in Seq(L) /\ Layered(L) /\ chain # <<>>
    /\ \A i \in 1..(Len(chain) - 1) : chain[i].kind \in Wrapping
    /\ chain[Len(chain)].kind \in Ends

(* What a delivery's callee answers is decided by what is at the end of    *)
(* its chain, so that no wrapper hides a deferral or invents one; and what *)
(* comes there is a topic or nothing.  This is what module Pipeline        *)
(* assumes of its subscribers (disposition.go:112,                         *)
(* subutils/transform.go:48, subutils/logging.go:46).                      *)
THEOREM EndDecides ==
  ASSUME NEW L, NEW chain, Built(L, chain)
  PROVE  LET end == chain[Len(chain)] IN
         /\ DispositionOf(chain) \in {"handled", "deferred", "observed"}
         /\ DispositionOf(chain) = "deferred" <=> end.kind \in {"queue", "bus", "defer"}
         /\ DispositionOf(chain) = "observed" <=> end.kind \in {"observe", "log"}
         /\ \A t \in Topics : Passed(chain, t) \in Places
  <1> DEFINE n == Len(chain)
             end == chain[n]
  <1>1. chain \in Seq(L) /\ Layered(L) /\ n \in Nat /\ n > 0
    BY EmptySeq DEF Built
  <1>2. ASSUME NEW i \in 1..n, i < n PROVE Says(chain, i) = "handled"
    <2>1. i \in 1..(n - 1) /\ i # n
      BY <1>1, <1>2
    <2>2. chain[i].kind \in Wrapping
      BY <2>1 DEF Built
    <2>3. QED
      BY <2>1, <2>2, SaysWhat DEF Wrapping
  <1>3. n \in 1..n
    BY <1>1
  <1>4. DispositionOf(chain) = Says(chain, n)
    <2>1. CASE Says(chain, n) = "handled"
      <3>1. \A i \in 1..n : i < n \/ i = n
        BY <1>1
      <3>2. \A i \in 1..n : Says(chain, i) = "handled"
        BY <1>2, <2>1, <3>1
      <3>3. QED
        BY <1>1, <2>1, <3>2, AnswerIs
    <2>2. CASE Says(chain, n) # "handled"
      BY <1>1, <1>2, <1>3, <2>2, AnswerIs
    <2>3. QED
      BY <2>1, <2>2
  <1>5. /\ DispositionOf(chain) \in {"handled", "deferred", "observed"}
        /\ DispositionOf(chain) = "deferred" <=> end.kind \in {"queue", "bus", "defer"}
        /\ DispositionOf(chain) = "observed" <=> end.kind \in {"observe", "log"}
    BY <1>4, SaysWhat
  <1>6. \A t \in Topics : Passed(chain, t) \in Places
    BY <1>1, PassedRuns DEF Places
  <1>7. QED
    BY <1>5, <1>6

-----------------------------------------------------------------------------
(* Which topics a pattern takes.                                           *)

EmptyPattern == <<"">>

(* What EngineMatches says of any other pattern.                           *)
LEMMA EngineCases ==
  ASSUME NEW pattern, NEW topic, pattern # EmptyPattern
  PROVE  EngineMatches(pattern, topic) <=>
            \/ /\ Len(pattern) = Len(topic)
               /\ \A i \in 1..Len(pattern) : pattern[i] \in One \/ pattern[i] = topic[i]
            \/ /\ Len(pattern) > 0 /\ pattern[Len(pattern)] \in Rest
               /\ Len(topic) >= Len(pattern) - 1
               /\ \A i \in 1..(Len(pattern) - 1) : pattern[i] \in One \/ pattern[i] = topic[i]
  BY Zenon DEF EngineMatches, EmptyPattern

LEMMA NoWildcardLevel ==
  ASSUME NEW pattern \in Seq(STRING), ~HasWildcard(pattern), NEW i \in 1..Len(pattern)
  PROVE  pattern[i] \notin One /\ pattern[i] \notin Rest
  BY DEF HasWildcard

(* A pattern other than the empty one that takes a topic whose first level *)
(* starts with "$" names that level: no wildcard at its head reaches the   *)
(* system topics, with extraction or without (topicmatch.go:12).           *)
THEOREM DollarTopicsNamed ==
  ASSUME NEW pattern \in Seq(STRING), NEW topic \in Seq(STRING), NEW extracting \in BOOLEAN,
         topic # <<>>, topic[1] \in System, Accepts(extracting, pattern, topic),
         extracting => pattern # EmptyPattern
  PROVE  pattern # <<>> /\ pattern[1] = topic[1]
  <1>1. Len(topic) \in Nat /\ Len(topic) > 0 /\ Len(pattern) \in Nat
    BY EmptySeq
  <1>2. CASE topic = pattern
    BY <1>1, <1>2
  <1>3. CASE TopicMatches(pattern, topic) /\ pattern # EmptyPattern
    <2>1. pattern # <<>> => pattern[1] \notin One /\ pattern[1] \notin Rest
      BY <1>3 DEF TopicMatches, Blocked
    <2>2. CASE Len(pattern) = Len(topic) /\
               \A i \in 1..Len(pattern) : pattern[i] \in One \/ pattern[i] = topic[i]
      <3>1. 1 \in 1..Len(pattern) /\ pattern # <<>>
        BY <1>1, <2>2
      <3>2. QED
        BY <2>1, <2>2, <3>1
    <2>3. CASE /\ Len(pattern) > 0 /\ pattern[Len(pattern)] \in Rest
               /\ \A i \in 1..(Len(pattern) - 1) : pattern[i] \in One \/ pattern[i] = topic[i]
      <3>1. pattern # <<>>
        BY <2>3
      <3>2. Len(pattern) # 1
        BY <2>1, <2>3, <3>1
      <3>3. Len(pattern) > 0
        BY <2>3
      <3>4. 1 \in 1..(Len(pattern) - 1)
        <4>1. \A n \in Nat : n > 0 /\ n # 1 => 1 \in 1..(n - 1)
          OBVIOUS
        <4>2. QED
          BY <1>1, <3>2, <3>3, <4>1
      <3>5. QED
        BY <2>1, <2>3, <3>1, <3>4
    <2>4. QED
      BY <1>3, <2>2, <2>3, EngineCases DEF TopicMatches
  <1>4. HasWildcard(pattern) => pattern # EmptyPattern
    <2>1. ASSUME pattern = EmptyPattern PROVE ~HasWildcard(pattern)
      <3>1. PICK level : level = ""
        OBVIOUS
      <3>2. level \notin One /\ level \notin Rest
        BY <3>1, Zenon DEF One, Rest
      <3>3. pattern = <<level>>
        BY <2>1, <3>1, Zenon DEF EmptyPattern
      <3>4. DOMAIN pattern = {1} /\ pattern[1] = level
        BY <3>3
      <3>5. QED
        BY <3>2, <3>4 DEF HasWildcard
    <2>2. QED
      BY <2>1
  <1>5. QED
    BY <1>2, <1>3, <1>4 DEF Accepts

(* Extraction changes nothing in what is accepted: a pattern without       *)
(* wildcards, which makeMatcher compares and does not match, matches its   *)
(* own topic and no other, unless it is the empty one (subscriber.go:98).  *)
THEOREM ExtractionChangesNothing ==
  ASSUME NEW pattern \in Seq(STRING), NEW topic \in Seq(STRING), pattern # EmptyPattern
  PROVE  Accepts(TRUE, pattern, topic) <=> Accepts(FALSE, pattern, topic)
  <1>1. CASE HasWildcard(pattern)
    BY <1>1 DEF Accepts
  <1>2. CASE ~HasWildcard(pattern)
    <2>1. Len(pattern) \in Nat /\ Len(topic) \in Nat
      OBVIOUS
    <2>2. \A i \in 1..Len(pattern) : pattern[i] \notin One /\ pattern[i] \notin Rest
      BY <1>2, NoWildcardLevel
    <2>3. ~Blocked(pattern, topic)
      <3>1. pattern # <<>> => 1 \in 1..Len(pattern)
        BY <2>1, EmptySeq
      <3>2. QED
        BY <2>2, <3>1 DEF Blocked
    <2>4. EngineMatches(pattern, topic) <=>
              /\ Len(pattern) = Len(topic)
              /\ \A i \in 1..Len(pattern) : pattern[i] = topic[i]
      <3>1. Len(pattern) > 0 => Len(pattern) \in 1..Len(pattern)
        BY <2>1
      <3>2. QED
        BY <2>2, <3>1, EngineCases
    <2>5. EngineMatches(pattern, topic) <=> topic = pattern
      BY <2>1, <2>4, SeqEqual
    <2>6. QED
      BY <1>2, <2>3, <2>5 DEF Accepts, TopicMatches
  <1>3. QED
    BY <1>1, <1>2
=============================================================================
