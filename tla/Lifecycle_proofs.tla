-------------------------- MODULE Lifecycle_proofs --------------------------
(***************************************************************************)
(* Proofs about Lifecycle, for any set of goroutines and any number of     *)
(* lives.  The parts of the inductive invariant say, of the bus before the *)
(* first Stop, of its first life, and of any life, who accounts for the    *)
(* loops there are.  The account of the only life rests on that of any.    *)
(***************************************************************************)
EXTENDS Lifecycle, TLAPS

Stopping == {"cancel", "wait", "blocked"}

\* A loop has been launched in a life that has begun, by nobody who still
\* has to launch it, and no two goroutines launch the same.
LaunchInv ==
    /\ \A l \in Lives : loop[l] # "none" => l <= starts
    /\ \A g \in Goroutines : at[g] = "launch" => life[g] <= starts

\* Before the first Stop the flag says whether the one life has begun.
FirstInv ==
    cancelled \/ (\E g \in Goroutines : at[g] = "cancel")
    \/ (starts <= 1 /\ (started <=> starts = 1))

\* The only life: whoever stops it has cleared the flag, and nobody else can;
\* past the wait, and once the channel is closed, the loop is gone.
OnlyInv ==
    starts <= 1 /\ ~overtaken =>
        /\ ~crashed
        /\ started => starts = 1
        /\ (\E g \in Goroutines : at[g] \in InStop) \/ closed => ~started
        /\ \A g \in Goroutines : at[g] \in InStop => ~closed /\ starts = 1
        /\ closed => starts = 1
        /\ \A g, h \in Goroutines : at[g] \in InStop /\ at[h] \in InStop => g = h
        /\ (\E g \in Goroutines : at[g] \in {"woken", "close"}) \/ closed => Counted = {}

\* Who launches a loop has set the flag, and a loop has the flag or a Stop
\* that has still to wait.
AnyInv ==
    ~overtaken =>
        /\ (\E g \in Goroutines : at[g] = "launch") => started
        /\ Counted # {} => started \/ \E g \in Goroutines : at[g] \in Stopping

(* Every place, flag and life has its type.                                *)
THEOREM Typing == Spec => []TypeOK
  <1>1. Init => TypeOK
    <2> SUFFICES ASSUME Init
                 PROVE  TypeOK
      OBVIOUS
    <2>1. 0 \in 0..MaxStarts
      BY MaxStartsAssumption
    <2>2. starts \in 0..MaxStarts /\ life \in [Goroutines -> 0..MaxStarts]
      BY <2>1 DEF Init
    <2>3. at \in [Goroutines -> Places] /\ \A g \in Goroutines : at[g] = "idle"
      BY DEF Init, Places
    <2>4. loop \in [Lives -> {"none", "select", "working", "exited"}]
      BY DEF Init
    <2>5. QED
      BY <2>2, <2>3, <2>4 DEF Init, TypeOK, InStop
  <1>2. TypeOK /\ [Next]_vars => TypeOK'
    <2> SUFFICES ASSUME TypeOK, [Next]_vars
                 PROVE  TypeOK'
      OBVIOUS
    <2> USE MaxStartsAssumption DEF TypeOK, Places, InStop, Lives, Goes, Crash
    <2>1. ASSUME NEW g \in Goroutines, StartSwap(g)
          PROVE  TypeOK'
      BY <2>1 DEF StartSwap, Begins
    <2>2. ASSUME NEW g \in Goroutines, StopSwap(g)
          PROVE  TypeOK'
      BY <2>2 DEF StopSwap, Ends
    <2>3. ASSUME NEW g \in Goroutines, Launch(g)
          PROVE  TypeOK'
      BY <2>3 DEF Launch
    <2>4. ASSUME NEW g \in Goroutines, StopCancel(g)
          PROVE  TypeOK'
      BY <2>4 DEF StopCancel
    <2>5. ASSUME NEW g \in Goroutines, StopWait(g)
          PROVE  TypeOK'
      BY <2>5 DEF StopWait
    <2>6. ASSUME NEW g \in Goroutines, StopWoken(g)
          PROVE  TypeOK'
      BY <2>6 DEF StopWoken
    <2>7. ASSUME NEW g \in Goroutines, StopClose(g)
          PROVE  TypeOK'
      BY <2>7 DEF StopClose
    <2>8. ASSUME NEW l \in Lives, Receive(l)
          PROVE  TypeOK'
      BY <2>8 DEF Receive
    <2>9. ASSUME NEW l \in Lives, ReceiveClosed(l)
          PROVE  TypeOK'
      BY <2>9 DEF ReceiveClosed
    <2>10. ASSUME NEW l \in Lives, Finish(l)
           PROVE  TypeOK'
      BY <2>10 DEF Finish
    <2>11. ASSUME NEW l \in Lives, Exit(l)
           PROVE  TypeOK'
      BY <2>11 DEF Exit, Leaves
    <2>12. CASE UNCHANGED vars
      BY <2>12 DEF vars
    <2>13. QED
      BY <2>1, <2>2, <2>3, <2>4, <2>5, <2>6, <2>7, <2>8, <2>9, <2>10, <2>11, <2>12
         DEF Next, CallStep, LoopStep
  <1>3. QED
    BY <1>1, <1>2, PTL DEF Spec

(* Whom the wait group counts, after a step of a loop or of Start.         *)
LEMMA Counting ==
    ASSUME TypeOK
    PROVE  /\ \A l \in Lives : Receive(l) \/ Finish(l) => Counted' = Counted
           /\ \A l \in Lives : Exit(l) => l \in Counted /\ Counted' = Counted \ {l}
           /\ \A l \in Lives : ReceiveClosed(l) => l \in Counted
           /\ loop' = loop => Counted' = Counted
  <1> USE DEF TypeOK, Counted, Alive
  <1>1. ASSUME NEW l \in Lives, Receive(l) \/ Finish(l)
        PROVE  Counted' = Counted
    BY <1>1 DEF Receive, Finish
  <1>2. ASSUME NEW l \in Lives, Exit(l)
        PROVE  l \in Counted /\ Counted' = Counted \ {l}
    BY <1>2 DEF Exit, Leaves
  <1>3. ASSUME NEW l \in Lives, ReceiveClosed(l)
        PROVE  l \in Counted
    BY <1>3 DEF ReceiveClosed
  <1>4. loop' = loop => Counted' = Counted
    OBVIOUS
  <1>5. QED
    BY <1>1, <1>2, <1>3, <1>4

(* Every step keeps the account of the lives that have begun.              *)
LEMMA LaunchStep == TypeOK /\ LaunchInv /\ [Next]_vars => LaunchInv'
  <1> SUFFICES ASSUME TypeOK, LaunchInv, [Next]_vars
               PROVE  LaunchInv'
    OBVIOUS
  <1> USE MaxStartsAssumption DEF TypeOK, LaunchInv, Lives, Goes, Crash
  <1>1. ASSUME NEW g \in Goroutines, StartSwap(g)
        PROVE  LaunchInv'
    BY <1>1 DEF StartSwap, Begins
  <1>2. ASSUME NEW g \in Goroutines, StopSwap(g)
        PROVE  LaunchInv'
    BY <1>2 DEF StopSwap, Ends
  <1>3. ASSUME NEW g \in Goroutines, Launch(g)
        PROVE  LaunchInv'
    BY <1>3 DEF Launch
  <1>4. ASSUME NEW g \in Goroutines, StopCancel(g)
        PROVE  LaunchInv'
    BY <1>4 DEF StopCancel
  <1>5. ASSUME NEW g \in Goroutines, StopWait(g)
        PROVE  LaunchInv'
    BY <1>5 DEF StopWait
  <1>6. ASSUME NEW g \in Goroutines, StopWoken(g)
        PROVE  LaunchInv'
    BY <1>6 DEF StopWoken
  <1>7. ASSUME NEW g \in Goroutines, StopClose(g)
        PROVE  LaunchInv'
    BY <1>7 DEF StopClose
  <1>8. ASSUME NEW l \in Lives, Receive(l)
        PROVE  LaunchInv'
    BY <1>8 DEF Receive
  <1>9. ASSUME NEW l \in Lives, ReceiveClosed(l)
        PROVE  LaunchInv'
    BY <1>9 DEF ReceiveClosed
  <1>10. ASSUME NEW l \in Lives, Finish(l)
         PROVE  LaunchInv'
    BY <1>10 DEF Finish
  <1>11. ASSUME NEW l \in Lives, Exit(l)
         PROVE  LaunchInv'
    BY <1>11 DEF Exit, Leaves
  <1>12. CASE UNCHANGED vars
    BY <1>12 DEF vars, Counted, Alive
  <1>13. QED
    BY <1>1, <1>2, <1>3, <1>4, <1>5, <1>6, <1>7, <1>8, <1>9, <1>10, <1>11, <1>12
       DEF Next, CallStep, LoopStep

(* Every step keeps the account of the life before the first Stop.         *)
LEMMA FirstStep == TypeOK /\ FirstInv /\ [Next]_vars => FirstInv'
  <1> SUFFICES ASSUME TypeOK, FirstInv, [Next]_vars
               PROVE  FirstInv'
    OBVIOUS
  <1> USE MaxStartsAssumption DEF TypeOK, FirstInv, Lives, Goes, Crash
  <1>1. ASSUME NEW g \in Goroutines, StartSwap(g)
        PROVE  FirstInv'
    BY <1>1 DEF StartSwap, Begins
  <1>2. ASSUME NEW g \in Goroutines, StopSwap(g)
        PROVE  FirstInv'
    BY <1>2 DEF StopSwap, Ends
  <1>3. ASSUME NEW g \in Goroutines, Launch(g)
        PROVE  FirstInv'
    BY <1>3 DEF Launch
  <1>4. ASSUME NEW g \in Goroutines, StopCancel(g)
        PROVE  FirstInv'
    BY <1>4 DEF StopCancel
  <1>5. ASSUME NEW g \in Goroutines, StopWait(g)
        PROVE  FirstInv'
    BY <1>5 DEF StopWait
  <1>6. ASSUME NEW g \in Goroutines, StopWoken(g)
        PROVE  FirstInv'
    BY <1>6 DEF StopWoken
  <1>7. ASSUME NEW g \in Goroutines, StopClose(g)
        PROVE  FirstInv'
    BY <1>7 DEF StopClose
  <1>8. ASSUME NEW l \in Lives, Receive(l)
        PROVE  FirstInv'
    BY <1>8 DEF Receive
  <1>9. ASSUME NEW l \in Lives, ReceiveClosed(l)
        PROVE  FirstInv'
    BY <1>9 DEF ReceiveClosed
  <1>10. ASSUME NEW l \in Lives, Finish(l)
         PROVE  FirstInv'
    BY <1>10 DEF Finish
  <1>11. ASSUME NEW l \in Lives, Exit(l)
         PROVE  FirstInv'
    BY <1>11 DEF Exit, Leaves
  <1>12. CASE UNCHANGED vars
    BY <1>12 DEF vars, Counted, Alive
  <1>13. QED
    BY <1>1, <1>2, <1>3, <1>4, <1>5, <1>6, <1>7, <1>8, <1>9, <1>10, <1>11, <1>12
       DEF Next, CallStep, LoopStep

(* Every step keeps the account of the loops of any life.                  *)
LEMMA AnyStep == TypeOK /\ AnyInv /\ [Next]_vars => AnyInv'
  <1> SUFFICES ASSUME TypeOK, AnyInv, [Next]_vars
               PROVE  AnyInv'
    OBVIOUS
  <1> USE DEF TypeOK, AnyInv, Stopping, Goes, Crash
  <1>1. ASSUME NEW g \in Goroutines, StartSwap(g)
        PROVE  AnyInv'
    BY <1>1, Counting DEF StartSwap, Begins
  <1>2. ASSUME NEW g \in Goroutines, StopSwap(g)
        PROVE  AnyInv'
    BY <1>2, Counting DEF StopSwap, Ends
  <1>3. ASSUME NEW g \in Goroutines, Launch(g)
        PROVE  AnyInv'
    BY <1>3, Counting DEF Launch
  <1>4. ASSUME NEW g \in Goroutines, StopCancel(g)
        PROVE  AnyInv'
    BY <1>4, Counting DEF StopCancel
  <1>5. ASSUME NEW g \in Goroutines, StopWait(g)
        PROVE  AnyInv'
    BY <1>5, Counting DEF StopWait
  <1>6. ASSUME NEW g \in Goroutines, StopWoken(g)
        PROVE  AnyInv'
    BY <1>6, Counting DEF StopWoken
  <1>7. ASSUME NEW g \in Goroutines, StopClose(g)
        PROVE  AnyInv'
    BY <1>7, Counting DEF StopClose
  <1>8. ASSUME NEW l \in Lives, Receive(l)
        PROVE  AnyInv'
    BY <1>8, Counting DEF Receive
  <1>9. ASSUME NEW l \in Lives, ReceiveClosed(l)
        PROVE  AnyInv'
    BY <1>9, Counting DEF ReceiveClosed
  <1>10. ASSUME NEW l \in Lives, Finish(l)
         PROVE  AnyInv'
    BY <1>10, Counting DEF Finish
  <1>11. ASSUME NEW l \in Lives, Exit(l)
         PROVE  AnyInv'
    BY <1>11, Counting DEF Exit, Leaves
  <1>12. CASE UNCHANGED vars
    BY <1>12 DEF vars, Counted, Alive
  <1>13. QED
    BY <1>1, <1>2, <1>3, <1>4, <1>5, <1>6, <1>7, <1>8, <1>9, <1>10, <1>11, <1>12
       DEF Next, CallStep, LoopStep

(* Every step keeps the account of the only life.                          *)
LEMMA OnlyStep == TypeOK /\ AnyInv /\ OnlyInv /\ [Next]_vars => OnlyInv'
  <1> SUFFICES ASSUME TypeOK, AnyInv, OnlyInv, [Next]_vars
               PROVE  OnlyInv'
    OBVIOUS
  <1> USE MaxStartsAssumption DEF TypeOK, OnlyInv, InStop, Goes, Crash
  <1>1. ASSUME NEW g \in Goroutines, StartSwap(g)
        PROVE  OnlyInv'
    BY <1>1, Counting DEF StartSwap, Begins
  <1>2. ASSUME NEW g \in Goroutines, StopSwap(g)
        PROVE  OnlyInv'
    BY <1>2, Counting DEF StopSwap, Ends
  <1>3. ASSUME NEW g \in Goroutines, Launch(g)
        PROVE  OnlyInv'
    BY <1>3, Counting DEF Launch, AnyInv
  <1>4. ASSUME NEW g \in Goroutines, StopCancel(g)
        PROVE  OnlyInv'
    BY <1>4, Counting DEF StopCancel
  <1>5. ASSUME NEW g \in Goroutines, StopWait(g)
        PROVE  OnlyInv'
    BY <1>5, Counting DEF StopWait
  <1>6. ASSUME NEW g \in Goroutines, StopWoken(g)
        PROVE  OnlyInv'
    BY <1>6, Counting DEF StopWoken
  <1>7. ASSUME NEW g \in Goroutines, StopClose(g)
        PROVE  OnlyInv'
    BY <1>7, Counting DEF StopClose
  <1>8. ASSUME NEW l \in Lives, Receive(l)
        PROVE  OnlyInv'
    BY <1>8, Counting DEF Receive
  <1>9. ASSUME NEW l \in Lives, ReceiveClosed(l)
        PROVE  OnlyInv'
    BY <1>9, Counting DEF ReceiveClosed
  <1>10. ASSUME NEW l \in Lives, Finish(l)
         PROVE  OnlyInv'
    BY <1>10, Counting DEF Finish
  <1>11. ASSUME NEW l \in Lives, Exit(l)
         PROVE  OnlyInv'
    BY <1>11, Counting DEF Exit, Leaves
  <1>12. CASE UNCHANGED vars
    BY <1>12 DEF vars, Counted, Alive
  <1>13. QED
    BY <1>1, <1>2, <1>3, <1>4, <1>5, <1>6, <1>7, <1>8, <1>9, <1>10, <1>11, <1>12
       DEF Next, CallStep, LoopStep

IInv == TypeOK /\ LaunchInv /\ FirstInv /\ AnyInv /\ OnlyInv

LEMMA IInvAlways == Spec => []IInv
  <1>1. Init => LaunchInv /\ FirstInv /\ AnyInv /\ OnlyInv
    BY DEF Init, LaunchInv, FirstInv, AnyInv, OnlyInv, Counted, Alive, InStop, Stopping
  <1>2. QED
    BY <1>1, Typing, LaunchStep, FirstStep, AnyStep, OnlyStep, PTL DEF Spec, IInv

(* Until somebody calls Stop there are no two loops, however many          *)
(* goroutines call Start.                                                  *)
THEOREM OneLoop == Spec => []OneLoopUntilStop
  <1>1. IInv => OneLoopUntilStop
    BY MaxStartsAssumption
       DEF IInv, TypeOK, LaunchInv, FirstInv, OneLoopUntilStop, Alive, Lives
  <1>2. QED
    BY <1>1, IInvAlways, PTL

(* A bus that is started once does not panic in Start, Stop or its select. *)
THEOREM NoPanicInOneLife == Spec => []PanicsOnlyRestarted
  <1>1. IInv => PanicsOnlyRestarted
    BY DEF IInv, TypeOK, OnlyInv, PanicsOnlyRestarted
  <1>2. QED
    BY <1>1, IInvAlways, PTL

(* A bus that reads as stopped, with nobody in Start or Stop, has no loop. *)
THEOREM Gone == Spec => []StoppedMeansGone
  <1>1. IInv => StoppedMeansGone
    BY DEF IInv, AnyInv, Stopping, StoppedMeansGone
  <1>2. QED
    BY <1>1, IInvAlways, PTL
=============================================================================
