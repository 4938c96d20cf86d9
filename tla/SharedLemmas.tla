---------------------------- MODULE SharedLemmas ----------------------------
(***************************************************************************)
(* Facts that several modules of proofs use: what a settle point does to   *)
(* an outcome, what sending to and receiving from a buffered channel does  *)
(* to what is in it, and induction over the natural numbers, in a form     *)
(* that speaks of sets and functions and of no operator.                   *)
(***************************************************************************)
EXTENDS Integers, Sequences, SettlePoint, SequenceTheorems, WellFoundedInduction, TLAPS

(* A message is in a queue; it is there at one place at most.              *)
Occurs(q, m) == \E i \in DOMAIN q : q[i] = m
Once(q, m) == \A i, j \in DOMAIN q : q[i] = m /\ q[j] = m => i = j

(* One message stands before another in a queue.                           *)
Before(q, a, b) == \E i, j \in DOMAIN q : i < j /\ q[i] = a /\ q[j] = b

-----------------------------------------------------------------------------
(* A settle point produces an outcome.                                     *)
LEMMA SettleType ==
  ASSUME NEW mode, NEW o \in Outcomes, NEW d, NEW failing \in BOOLEAN
  PROVE  /\ Settle(mode, o, "ack") \in Outcomes
         /\ Settle(mode, o, "nack") \in Outcomes
         /\ SettleOnReturn(mode, o, d, failing) \in Outcomes
         /\ SettleRefused(mode, o) \in Outcomes
  BY DEF Settle, SettleOnReturn, SettleRefused, Outcomes

-----------------------------------------------------------------------------
(* A queue as a sequence: what appending adds and what the tail keeps.     *)

LEMMA AppendOccurs ==
  ASSUME NEW S, NEW q \in Seq(S), NEW e \in S
  PROVE  /\ Append(q, e) \in Seq(S)
         /\ Len(Append(q, e)) = Len(q) + 1
         /\ \A m : Occurs(Append(q, e), m) <=> Occurs(q, m) \/ e = m
         /\ \A m : Once(q, m) /\ ~(e = m /\ Occurs(q, m)) => Once(Append(q, e), m)
  <1>1. /\ Append(q, e) \in Seq(S) /\ Len(Append(q, e)) = Len(q) + 1
        /\ \A i \in 1..Len(q) : Append(q, e)[i] = q[i]
        /\ Append(q, e)[Len(q) + 1] = e
    OBVIOUS
  <1>2. DOMAIN q = 1..Len(q) /\ DOMAIN Append(q, e) = 1..(Len(q) + 1) /\ Len(q) \in Nat
    BY <1>1
  <1>3. \A m : Occurs(Append(q, e), m) <=> Occurs(q, m) \/ e = m
    BY <1>1, <1>2 DEF Occurs
  <1>4. \A m : Once(q, m) /\ ~(e = m /\ Occurs(q, m)) => Once(Append(q, e), m)
    BY <1>1, <1>2 DEF Occurs, Once
  <1>5. QED
    BY <1>1, <1>3, <1>4

LEMMA TailOccurs ==
  ASSUME NEW S, NEW q \in Seq(S), q # <<>>
  PROVE  /\ Head(q) \in S /\ Tail(q) \in Seq(S) /\ Len(Tail(q)) <= Len(q)
         /\ Occurs(q, Head(q))
         /\ \A m : Occurs(q, m) <=> Head(q) = m \/ Occurs(Tail(q), m)
         /\ \A m : Once(q, m) => Once(Tail(q), m) /\ (Head(q) = m => ~Occurs(Tail(q), m))
  <1>1. /\ Head(q) \in S /\ Head(q) = q[1] /\ Tail(q) \in Seq(S)
        /\ Len(q) \in Nat \ {0} /\ Len(Tail(q)) = Len(q) - 1
        /\ \A i \in 1..(Len(q) - 1) : Tail(q)[i] = q[i + 1]
    OBVIOUS
  <1>2. DOMAIN q = 1..Len(q) /\ DOMAIN Tail(q) = 1..(Len(q) - 1)
    BY <1>1
  <1>3. \A m : Occurs(q, m) <=> Head(q) = m \/ Occurs(Tail(q), m)
    <2> SUFFICES ASSUME NEW m
                 PROVE  Occurs(q, m) <=> Head(q) = m \/ Occurs(Tail(q), m)
      OBVIOUS
    <2>1. ASSUME NEW i \in DOMAIN q, q[i] = m
          PROVE  Head(q) = m \/ Occurs(Tail(q), m)
      <3>1. CASE i = 1
        BY <1>1, <2>1, <3>1
      <3>2. CASE i # 1
        <4>1. i - 1 \in DOMAIN Tail(q) /\ Tail(q)[i - 1] = m
          BY <1>1, <1>2, <2>1, <3>2
        <4>2. QED
          BY <4>1 DEF Occurs
      <3>3. QED
        BY <3>1, <3>2
    <2>2. ASSUME NEW i \in DOMAIN Tail(q), Tail(q)[i] = m
          PROVE  Occurs(q, m)
      <3>1. i + 1 \in DOMAIN q /\ q[i + 1] = m
        BY <1>1, <1>2, <2>2
      <3>2. QED
        BY <3>1 DEF Occurs
    <2>3. Head(q) = m => Occurs(q, m)
      BY <1>1, <1>2 DEF Occurs
    <2>4. QED
      BY <2>1, <2>2, <2>3 DEF Occurs
  <1>4. ASSUME NEW m, Once(q, m)
        PROVE  Once(Tail(q), m) /\ (Head(q) = m => ~Occurs(Tail(q), m))
    <2>1. \A i \in DOMAIN Tail(q) : i + 1 \in DOMAIN q /\ Tail(q)[i] = q[i + 1]
      BY <1>1, <1>2
    <2>2. Once(Tail(q), m)
      BY <1>2, <1>4, <2>1 DEF Once
    <2>3. ASSUME Head(q) = m, NEW i \in DOMAIN Tail(q), Tail(q)[i] = m
          PROVE  FALSE
      BY <1>1, <1>2, <1>4, <2>1, <2>3 DEF Once
    <2>4. QED
      BY <2>2, <2>3 DEF Occurs
  <1>5. QED
    BY <1>1, <1>2, <1>3, <1>4 DEF Occurs

(* Appending puts the new message after all others, and the tail keeps the *)
(* order: what was at the head stood before everything that is left.       *)
LEMMA AppendBefore ==
  ASSUME NEW S, NEW q \in Seq(S), NEW e \in S, NEW a, NEW b
  PROVE  Before(Append(q, e), a, b) <=> Before(q, a, b) \/ (Occurs(q, a) /\ e = b)
  <1>1. /\ \A i \in 1..Len(q) : Append(q, e)[i] = q[i]
        /\ Append(q, e)[Len(q) + 1] = e
        /\ DOMAIN q = 1..Len(q) /\ DOMAIN Append(q, e) = 1..(Len(q) + 1)
        /\ Len(q) \in Nat
    OBVIOUS
  <1>2. ASSUME Before(Append(q, e), a, b)
        PROVE  Before(q, a, b) \/ (Occurs(q, a) /\ e = b)
    <2>1. PICK i \in 1..(Len(q) + 1), j \in 1..(Len(q) + 1) :
            i < j /\ Append(q, e)[i] = a /\ Append(q, e)[j] = b
      BY <1>1, <1>2 DEF Before
    <2>2. i \in 1..Len(q) /\ q[i] = a
      BY <1>1, <2>1
    <2>3. CASE j = Len(q) + 1
      BY <1>1, <2>1, <2>2, <2>3 DEF Occurs
    <2>4. CASE j # Len(q) + 1
      <3>1. j \in 1..Len(q) /\ q[j] = b
        BY <1>1, <2>1, <2>4
      <3>2. QED
        BY <1>1, <2>1, <2>2, <3>1 DEF Before
    <2>5. QED
      BY <2>3, <2>4
  <1>3. ASSUME Before(q, a, b)
        PROVE  Before(Append(q, e), a, b)
    BY <1>1, <1>3 DEF Before
  <1>4. ASSUME Occurs(q, a), e = b
        PROVE  Before(Append(q, e), a, b)
    <2>1. PICK i \in 1..Len(q) : q[i] = a
      BY <1>1, <1>4 DEF Occurs
    <2>2. i < Len(q) + 1 /\ i \in 1..(Len(q) + 1) /\ Len(q) + 1 \in 1..(Len(q) + 1)
      BY <1>1
    <2>3. QED
      BY <1>1, <1>4, <2>1, <2>2 DEF Before
  <1>5. QED
    BY <1>2, <1>3, <1>4

LEMMA TailBefore ==
  ASSUME NEW S, NEW q \in Seq(S), q # <<>>
  PROVE  /\ \A a, b : Before(Tail(q), a, b) => Before(q, a, b)
         /\ \A b : Occurs(Tail(q), b) => Before(q, Head(q), b)
  <1>1. /\ Head(q) = q[1] /\ Len(q) \in Nat \ {0}
        /\ \A i \in 1..(Len(q) - 1) : Tail(q)[i] = q[i + 1]
        /\ DOMAIN q = 1..Len(q) /\ DOMAIN Tail(q) = 1..(Len(q) - 1)
    OBVIOUS
  <1>2. ASSUME NEW a, NEW b, Before(Tail(q), a, b)
        PROVE  Before(q, a, b)
    <2>1. PICK i \in 1..(Len(q) - 1), j \in 1..(Len(q) - 1) :
            i < j /\ Tail(q)[i] = a /\ Tail(q)[j] = b
      BY <1>1, <1>2 DEF Before
    <2>2. /\ i + 1 \in 1..Len(q) /\ j + 1 \in 1..Len(q) /\ i + 1 < j + 1
          /\ q[i + 1] = a /\ q[j + 1] = b
      BY <1>1, <2>1
    <2>3. QED
      BY <1>1, <2>2 DEF Before
  <1>3. ASSUME NEW b, Occurs(Tail(q), b)
        PROVE  Before(q, Head(q), b)
    <2>1. PICK i \in 1..(Len(q) - 1) : Tail(q)[i] = b
      BY <1>1, <1>3 DEF Occurs
    <2>2. 1 \in 1..Len(q) /\ i + 1 \in 1..Len(q) /\ 1 < i + 1 /\ q[i + 1] = b
      BY <1>1, <2>1
    <2>3. QED
      BY <1>1, <2>2 DEF Before
  <1>4. QED
    BY <1>2, <1>3

-----------------------------------------------------------------------------
(* Induction.  A set of numbers has a least one, which is what the         *)
(* well-founded order of the numbers says of sets.                         *)
LEMMA LeastNumber ==
  ASSUME NEW T, T \subseteq Nat, T # {}
  PROVE  \E n \in T : \A m \in T : n <= m
  <1> DEFINE R == OpToRel(<, Nat)
  <1>1. IsWellFoundedOn(R, Nat)
    BY NatLessThanWellFounded, Zenon
  <1>2. \A m, n \in Nat : <<m, n>> \in R <=> m < n
    BY DEF OpToRel
  <1> HIDE DEF R
  <1>3. \E n \in T : \A m \in T : ~(<<m, n>> \in R)
    BY <1>1, WFMin
  <1>4. PICK n \in T : \A m \in T : ~(<<m, n>> \in R)
    BY <1>3
  <1>5. \A m \in T : ~(m < n)
    BY <1>2, <1>4, Zenon
  <1>6. \A m \in T : n <= m
    BY <1>5
  <1>7. QED
    BY <1>6

(* A set that has 0, and with each number the next, has them all.          *)
LEMMA Induction ==
  ASSUME NEW S, 0 \in S, \A n \in Nat : n \in S => n + 1 \in S
  PROVE  Nat \subseteq S
  <1>1. SUFFICES ASSUME Nat \ S # {} PROVE FALSE
    OBVIOUS
  <1>2. PICK n \in Nat \ S : \A m \in Nat \ S : n <= m
    BY <1>1, LeastNumber
  <1>3. n # 0 /\ n - 1 \in Nat /\ n - 1 \in S
    BY <1>2
  <1>4. n - 1 + 1 \in S
    BY <1>3
  <1>5. QED
    BY <1>2, <1>4

-----------------------------------------------------------------------------
(* Recursion.  A function that is b at 0, and at each next number what F   *)
(* makes of its value at the one before.                                   *)
Follows(g, b, F) == g[0] = b /\ \A n \in Nat : g[n + 1] = F[n][g[n]]
HasRun(V, b, F) == \E g \in [Nat -> V] : Follows(g, b, F)

(* There is one.                                                           *)
LEMMA Recursion ==
  ASSUME NEW V, NEW b, NEW F, b \in V, F \in [Nat -> [V -> V]]
  PROVE  HasRun(V, b, F)
  <1> DEFINE Upto(n, h) == /\ h \in [0..n -> V] /\ h[0] = b
                           /\ \A k \in 0..(n - 1) : h[k + 1] = F[k][h[k]]
             Reached == {n \in Nat : \E h : Upto(n, h)}
  <1>1. Nat \subseteq Reached
    <2>1. 0 \in Reached
      <3>1. Upto(0, [k \in 0..0 |-> b])
        OBVIOUS
      <3>2. QED
        BY <3>1
    <2>2. ASSUME NEW n \in Nat, n \in Reached PROVE n + 1 \in Reached
      <3>1. PICK h : Upto(n, h)
        BY <2>2
      <3> DEFINE e == [k \in 0..(n + 1) |-> IF k = n + 1 THEN F[n][h[n]] ELSE h[k]]
      <3>2. F[n][h[n]] \in V
        BY <3>1
      <3>3. e \in [0..(n + 1) -> V] /\ e[0] = b
        BY <3>1, <3>2
      <3>4. ASSUME NEW k \in 0..n PROVE e[k + 1] = F[k][e[k]]
        BY <3>1
      <3> HIDE DEF e
      <3>5. Upto(n + 1, e)
        <4>1. (n + 1) - 1 = n
          OBVIOUS
        <4>2. \A k \in 0..((n + 1) - 1) : e[k + 1] = F[k][e[k]]
          BY <3>4, <4>1
        <4>3. QED
          BY <3>3, <4>2
      <3> HIDE DEF Upto
      <3>6. n + 1 \in Nat /\ \E h1 : Upto(n + 1, h1)
        BY <3>5
      <3>7. QED
        BY <3>6
    <2> HIDE DEF Reached
    <2>3. QED
      BY <2>1, <2>2, Induction
  <1>2. ASSUME NEW n \in Nat, NEW m \in Nat, NEW h, NEW e, Upto(n, h), Upto(m, e), n <= m
        PROVE  \A k \in 0..n : h[k] = e[k]
    <2> DEFINE Same == {k \in Nat : k <= n => h[k] = e[k]}
    <2>1. 0 \in Same
      BY <1>2
    <2>2. ASSUME NEW k \in Nat, k \in Same PROVE k + 1 \in Same
      BY <1>2, <2>2
    <2> HIDE DEF Same
    <2>3. Nat \subseteq Same
      BY <2>1, <2>2, Induction
    <2>4. QED
      BY <2>3 DEF Same
  <1> DEFINE part(n) == CHOOSE h : Upto(n, h)
             g == [n \in Nat |-> part(n)[n]]
  <1>3. \A n \in Nat : Upto(n, part(n))
    BY <1>1
  <1> HIDE DEF part
  <1>4. g \in [Nat -> V] /\ g[0] = b
    <2>1. ASSUME NEW n \in Nat PROVE part(n)[n] \in V
      BY <1>3
    <2>2. part(0)[0] = b
      BY <1>3
    <2>3. QED
      BY <2>1, <2>2
  <1>5. ASSUME NEW n \in Nat PROVE g[n + 1] = F[n][g[n]]
    <2>1. Upto(n, part(n)) /\ Upto(n + 1, part(n + 1)) /\ n + 1 \in Nat
      BY <1>3
    <2>2. part(n + 1)[n + 1] = F[n][part(n + 1)[n]]
      BY <2>1
    <2>3. part(n)[n] = part(n + 1)[n]
      <3>1. n <= n + 1 /\ n \in 0..n
        OBVIOUS
      <3> HIDE DEF Upto
      <3>2. \A k \in 0..n : part(n)[k] = part(n + 1)[k]
        BY <2>1, <3>1, <1>2
      <3>3. QED
        BY <3>1, <3>2
    <2>4. QED
      BY <2>2, <2>3
  <1>6. QED
    BY <1>4, <1>5 DEF HasRun, Follows

(* A sequence that is one sequence and then another is both together.      *)
LEMMA ConcatIs ==
  ASSUME NEW S, NEW F \in Seq(S), NEW G \in Seq(S), NEW H \in Seq(S),
         Len(H) = Len(F) + Len(G),
         \A i \in 1..Len(F) : H[i] = F[i],
         \A j \in 1..Len(G) : H[Len(F) + j] = G[j]
  PROVE  H = F \o G
  <1>1. /\ F \o G \in Seq(S) /\ Len(F \o G) = Len(F) + Len(G)
        /\ \A i \in 1..(Len(F) + Len(G)) :
              (F \o G)[i] = IF i <= Len(F) THEN F[i] ELSE G[i - Len(F)]
    BY ConcatProperties
  <1>2. Len(F) \in Nat /\ Len(G) \in Nat
    OBVIOUS
  <1>3. ASSUME NEW i \in 1..(Len(F) + Len(G)) PROVE H[i] = (F \o G)[i]
    <2>1. CASE i <= Len(F)
      BY <1>1, <1>2, <2>1
    <2>2. CASE ~(i <= Len(F))
      <3>1. i - Len(F) \in 1..Len(G) /\ Len(F) + (i - Len(F)) = i
        BY <1>2, <2>2
      <3>2. QED
        BY <1>1, <2>2, <3>1
    <2>3. QED
      BY <2>1, <2>2
  <1>4. QED
    BY <1>1, <1>3, SeqEqual

-----------------------------------------------------------------------------
(* What comes of b when the functions of a sequence are applied to it one  *)
(* after the other.                                                        *)
RunsTo(V, F, b, r) ==
    \E g \in [0..Len(F) -> V] : /\ g[0] = b /\ g[Len(F)] = r
                                /\ \A i \in 1..Len(F) : g[i] = F[i][g[i - 1]]

(* Something does.                                                         *)
LEMMA RunExists ==
  ASSUME NEW V, NEW b \in V, NEW F \in Seq([V -> V])
  PROVE  \E r \in V : RunsTo(V, F, b, r)
  <1> DEFINE L == Len(F)
             G == [n \in Nat |-> IF n < L THEN F[n + 1] ELSE [v \in V |-> v]]
  <1>1. L \in Nat /\ \A i \in 1..L : F[i] \in [V -> V]
    OBVIOUS
  <1>2. G \in [Nat -> [V -> V]]
    BY <1>1
  <1>3. \A n \in Nat : n < L => G[n] = F[n + 1]
    OBVIOUS
  <1> HIDE DEF G
  <1>4. HasRun(V, b, G)
    BY <1>2, Recursion
  <1>5. PICK g \in [Nat -> V] : g[0] = b /\ \A n \in Nat : g[n + 1] = G[n][g[n]]
    BY <1>4 DEF HasRun, Follows
  <1> DEFINE h == [i \in 0..L |-> g[i]]
  <1>6. h \in [0..L -> V] /\ h[0] = b /\ h[L] = g[L] /\ g[L] \in V
    BY <1>1, <1>5
  <1>7. ASSUME NEW i \in 1..L PROVE h[i] = F[i][h[i - 1]]
    <2>1. i - 1 \in Nat /\ i - 1 < L /\ (i - 1) + 1 = i /\ i - 1 \in 0..L /\ i \in 0..L
      BY <1>1
    <2>2. g[i] = G[i - 1][g[i - 1]] /\ G[i - 1] = F[i]
      BY <1>3, <1>5, <2>1
    <2>3. QED
      BY <2>1, <2>2
  <1> HIDE DEF h
  <1>8. RunsTo(V, F, b, g[L])
    BY <1>6, <1>7 DEF RunsTo
  <1>9. QED
    BY <1>6, <1>8

(* Nothing else does.                                                      *)
LEMMA RunUnique ==
  ASSUME NEW V, NEW b, NEW F, Len(F) \in Nat, NEW r, NEW q, RunsTo(V, F, b, r), RunsTo(V, F, b, q)
  PROVE  r = q
  <1>1. PICK g \in [0..Len(F) -> V] : /\ g[0] = b /\ g[Len(F)] = r
                                      /\ \A i \in 1..Len(F) : g[i] = F[i][g[i - 1]]
    BY DEF RunsTo
  <1>2. PICK h \in [0..Len(F) -> V] : /\ h[0] = b /\ h[Len(F)] = q
                                      /\ \A i \in 1..Len(F) : h[i] = F[i][h[i - 1]]
    BY DEF RunsTo
  <1> DEFINE Same == {k \in Nat : k <= Len(F) => g[k] = h[k]}
  <1>3. 0 \in Same
    BY <1>1, <1>2
  <1>4. ASSUME NEW k \in Nat, k \in Same PROVE k + 1 \in Same
    <2>1. k + 1 <= Len(F) => k + 1 \in 1..Len(F) /\ (k + 1) - 1 = k /\ k <= Len(F)
      OBVIOUS
    <2>2. QED
      BY <1>1, <1>2, <1>4, <2>1
  <1> HIDE DEF Same
  <1>5. Nat \subseteq Same
    BY <1>3, <1>4, Induction
  <1>6. Len(F) \in Same
    BY <1>5
  <1>7. QED
    BY <1>1, <1>2, <1>6 DEF Same

(* One run after another is a run of both sequences together.              *)
LEMMA RunConcat ==
  ASSUME NEW V, NEW b, NEW r, NEW q, NEW F \in Seq([V -> V]), NEW G \in Seq([V -> V]),
         RunsTo(V, F, b, r), RunsTo(V, G, r, q)
  PROVE  RunsTo(V, F \o G, b, q)
  <1> DEFINE L == Len(F)
             M == Len(G)
  <1>1. PICK g \in [0..L -> V] : /\ g[0] = b /\ g[L] = r
                                 /\ \A i \in 1..L : g[i] = F[i][g[i - 1]]
    BY DEF RunsTo
  <1>2. PICK h \in [0..M -> V] : /\ h[0] = r /\ h[M] = q
                                 /\ \A i \in 1..M : h[i] = G[i][h[i - 1]]
    BY DEF RunsTo
  <1>3. /\ L \in Nat /\ M \in Nat /\ Len(F \o G) = L + M
        /\ \A i \in 1..L : (F \o G)[i] = F[i]
        /\ \A i \in 1..(L + M) : i > L => (F \o G)[i] = G[i - L]
    BY ConcatProperties
  <1> DEFINE e == [i \in 0..(L + M) |-> IF i <= L THEN g[i] ELSE h[i - L]]
  <1>4. e \in [0..(L + M) -> V]
    BY <1>3
  <1>5. \A i \in 0..L : e[i] = g[i]
    BY <1>3
  <1>6. ASSUME NEW i \in 0..M PROVE e[L + i] = h[i]
    <2>1. L + i \in 0..(L + M) /\ (L + i) - L = i /\ (L + i <= L <=> i = 0)
      BY <1>3
    <2>2. CASE i = 0
      BY <1>1, <1>2, <2>1, <2>2
    <2>3. CASE i # 0
      BY <2>1, <2>3
    <2>4. QED
      BY <2>2, <2>3
  <1> HIDE DEF e, L, M
  <1>7. e[0] = b /\ e[L + M] = q
    BY <1>1, <1>2, <1>3, <1>5, <1>6
  <1>8. ASSUME NEW i \in 1..(L + M) PROVE e[i] = (F \o G)[i][e[i - 1]]
    <2>1. CASE i <= L
      <3>1. i \in 1..L /\ i \in 0..L /\ i - 1 \in 0..L
        BY <1>3, <2>1
      <3>2. QED
        BY <1>1, <1>3, <1>5, <3>1
    <2>2. CASE i > L
      <3> DEFINE j == i - L
      <3>1. j \in 1..M /\ j \in 0..M /\ j - 1 \in 0..M /\ L + j = i /\ L + (j - 1) = i - 1
        BY <1>3, <2>2
      <3>2. (F \o G)[i] = G[j]
        BY <1>3, <2>2
      <3> HIDE DEF j
      <3>3. e[i] = h[j] /\ e[i - 1] = h[j - 1]
        BY <1>6, <3>1
      <3>4. QED
        BY <1>2, <3>1, <3>2, <3>3
    <2>3. QED
      BY <1>3, <2>1, <2>2
  <1>9. \E w \in [0..(L + M) -> V] : /\ w[0] = b /\ w[L + M] = q
                                      /\ \A i \in 1..(L + M) : w[i] = (F \o G)[i][w[i - 1]]
    BY <1>4, <1>7, <1>8
  <1>10. L + M = Len(F \o G)
    BY <1>3
  <1>11. \E w \in [0..Len(F \o G) -> V] :
            /\ w[0] = b /\ w[Len(F \o G)] = q
            /\ \A i \in 1..Len(F \o G) : w[i] = (F \o G)[i][w[i - 1]]
    BY <1>9, <1>10, Zenon
  <1>12. QED
    BY <1>11, Zenon DEF RunsTo

(* Whatever begins with b and makes each value of the one before as the    *)
(* sequence says is a run.                                                 *)
LEMMA RunOf ==
  ASSUME NEW V, NEW b \in V, NEW F \in Seq([V -> V]), NEW c, c[0] = b,
         \A i \in 1..Len(F) : c[i - 1] \in V => c[i] = F[i][c[i - 1]]
  PROVE  c[Len(F)] \in V /\ RunsTo(V, F, b, c[Len(F)])
  <1> DEFINE L == Len(F)
             g == [i \in 0..L |-> c[i]]
             InV == {k \in Nat : k <= L => c[k] \in V}
  <1>1. L \in Nat /\ \A i \in 1..L : F[i] \in [V -> V]
    OBVIOUS
  <1>2. 0 \in InV
    OBVIOUS
  <1>3. ASSUME NEW k \in Nat, k \in InV PROVE k + 1 \in InV
    <2>1. SUFFICES ASSUME k + 1 <= L PROVE c[k + 1] \in V
      OBVIOUS
    <2>2. k + 1 \in 1..L /\ (k + 1) - 1 = k /\ c[k] \in V
      BY <1>1, <1>3, <2>1
    <2>3. QED
      BY <1>1, <2>2
  <1> HIDE DEF InV
  <1>4. Nat \subseteq InV
    BY <1>2, <1>3, Induction
  <1>5. \A k \in 0..L : c[k] \in V
    BY <1>1, <1>4 DEF InV
  <1>6. g \in [0..L -> V] /\ g[0] = b /\ g[L] = c[L] /\ c[L] \in V
    BY <1>1, <1>5
  <1>7. ASSUME NEW i \in 1..L PROVE g[i] = F[i][g[i - 1]]
    <2>1. i \in 0..L /\ i - 1 \in 0..L
      BY <1>1
    <2>2. QED
      BY <1>5, <2>1
  <1> HIDE DEF g
  <1>8. QED
    BY <1>6, <1>7 DEF RunsTo
=============================================================================
