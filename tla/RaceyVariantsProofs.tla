------------------------ MODULE RaceyVariantsProofs -------------------------
(***************************************************************************)
(* Proofs about racey-basic.c and the programs that vary it, for every     *)
(* number of threads, loop count, word and primes, and for racey-readfile  *)
(* every length of the file and of the buffer.                             *)
(***************************************************************************)
EXTENDS RaceyVariants, RaceyMixProofs, FiniteSetTheorems

\* The threads that have still to decrement the counter.
Pending == {t \in Thread : pc[t] \in BeforeDecrement}

\* There are at most NumProcs of them, so counting them makes sense.
LEMMA PendingFinite ==
  /\ IsFiniteSet(Pending)
  /\ Cardinality(Pending) \in 0 .. NumProcs
<1>1. IsFiniteSet(Thread) /\ Cardinality(Thread) = NumProcs
  BY FS_Interval, MainAssumption DEF Thread
<1>2. Pending \subseteq Thread
  BY DEF Pending
<1>3. IsFiniteSet(Pending) /\ Cardinality(Pending) <= Cardinality(Thread)
  BY <1>1, <1>2, FS_Subset
<1>4. Cardinality(Pending) \in Nat
  BY <1>3, FS_CardinalityType
<1> QED
  BY <1>1, <1>3, <1>4, MainAssumption

\* Before any thread is created nobody has announced itself.
LEMMA InitIInv == Init => IInv
<1> SUFFICES ASSUME Init PROVE IInv
  OBVIOUS
<1> USE DEF Init, MainInit, LoopInit
<1>1. m \in [Elem -> Mixed]
  BY InitialMRange
<1>2. 0 \in Elem /\ 0 \in Mixed /\ \A t \in 0 .. NumProcs : t \in Unsigned
  BY MixAssumption, MainAssumption DEF Elem, Unsigned, Mixed
<1>3. TypeOK
  BY <1>1, <1>2, MainAssumption
  DEF TypeOK, MainTypeOK, LoopTypeOK, BeforeDecrement, Thread
<1>4. MainInv
  BY MainAssumption DEF MainInv, Thread
<1>5. LockInv
  BY DEF LockInv, Locked, Thread
<1>6. CounterExact
  <2>1. {t \in Thread : pc[t] \in BeforeDecrement} = 1 .. NumProcs
    BY DEF BeforeDecrement, Thread
  <2>2. Cardinality(1 .. NumProcs) = NumProcs
    BY FS_Interval, MainAssumption
  <2>3. startCounter = NumProcs
    OBVIOUS
  <2> QED
    BY Zenon, <2>1, <2>2, <2>3 DEF CounterExact
<1>7. NobodyStartsEarly /\ LoopInv /\ SignatureIsFinal
  BY DEF NobodyStartsEarly, LoopInv, SignatureIsFinal, LoopPc
<1> QED
  BY <1>3, <1>4, <1>5, <1>6, <1>7 DEF IInv

\* A step of the program is a step of main(), of one thread, or a stutter.
LEMMA StepCases ==
  ASSUME [Next]_vars
  PROVE  \/ MainStep /\ UNCHANGED <<loopVars, barrierVars>>
         \/ \E t \in Thread : BarrierStep(t)
         \/ \E t \in Thread : LoopStep(t) /\ UNCHANGED barrierVars
         \/ UNCHANGED vars
  BY DEF Next, main, ThreadBody, Terminated

\* The steps of main(): creating a thread leaves it pending, joining one and
\* computing the result change no thread.
LEMMA MainStepIInv ==
  ASSUME IInv, MainStep, UNCHANGED <<loopVars, barrierVars>>
  PROVE  IInv'
<1> USE DEF IInv, TypeOK, MainTypeOK, LoopTypeOK, MainInv, loopVars, barrierVars
<1>1. CASE CreateThread
  <2> DEFINE t == mainI + 1
  <2>1. t \in Thread /\ pc[t] = "idle" /\ pc' = [pc EXCEPT ![t] = "start"]
    BY <1>1, MainAssumption DEF CreateThread, Thread
  <2>2. UNCHANGED <<m, sig, mixSig>>
    BY <1>1 DEF CreateThread
  <2>3. TypeOK'
    BY <1>1, <2>1, <2>2, MainAssumption DEF CreateThread, BeforeDecrement
  <2>4. MainInv'
    <3>1. CASE t < NumProcs
      BY <1>1, <2>1, <3>1 DEF CreateThread, Thread
    <3>2. CASE ~(t < NumProcs)
      <4>1. mainPc' = "join" /\ mainI' = 0
        BY <1>1, <3>2 DEF CreateThread
      <4>2. \A u \in Thread : pc'[u] # "idle"
        BY <1>1, <2>1, <3>2, MainAssumption DEF CreateThread, Thread
      <4> QED BY <4>1, <4>2, MainAssumption DEF Thread
    <3> QED BY <3>1, <3>2
  <2>5. LockInv'
    BY <2>1 DEF LockInv, Locked
  <2>6. CounterExact'
    <3>1. Pending' = Pending
      BY <2>1 DEF Pending, BeforeDecrement
    <3> QED BY <3>1 DEF CounterExact, Pending
  <2>7. NobodyStartsEarly' /\ LoopInv'
    BY <2>1 DEF NobodyStartsEarly, LoopInv, BeforeDecrement, LoopPc
  <2>8. SignatureIsFinal'
    BY <1>1 DEF SignatureIsFinal, CreateThread
  <2> QED BY <2>3, <2>4, <2>5, <2>6, <2>7, <2>8
<1>2. CASE JoinThread
  <2>1. UNCHANGED <<pc, m, sig>>
    BY <1>2 DEF JoinThread
  <2>2. TypeOK' /\ MainInv'
    <3>1. TypeOK'
      BY <1>2, <2>1, MainAssumption DEF JoinThread, Thread
    <3>2. \A u \in Thread : pc[u] # "idle" /\ (u <= mainI + 1 => pc[u] = "exit")
      BY <1>2 DEF JoinThread, Thread
    <3>3. /\ mainI' = mainI + 1 /\ mainI \in 0 .. NumProcs - 1
          /\ mainPc' = IF mainI + 1 < NumProcs THEN "join" ELSE "result"
      BY <1>2, MainAssumption DEF JoinThread
    <3>4. MainInv'
      BY <2>1, <3>2, <3>3, MainAssumption DEF Thread
    <3> QED BY <3>1, <3>4
  <2>3. LockInv' /\ CounterExact' /\ NobodyStartsEarly' /\ LoopInv'
    BY <2>1 DEF LockInv, CounterExact, NobodyStartsEarly, LoopInv
  <2>4. SignatureIsFinal'
    BY <1>2 DEF SignatureIsFinal, JoinThread
  <2> QED BY <2>2, <2>3, <2>4
<1>3. CASE ComputeResult
  <2>1. UNCHANGED <<pc, m, sig, mainI>>
    BY <1>3 DEF ComputeResult
  <2>2. TypeOK' /\ MainInv'
    BY <1>3, <2>1 DEF ComputeResult
  <2>3. LockInv' /\ CounterExact' /\ NobodyStartsEarly' /\ LoopInv'
    BY <2>1 DEF LockInv, CounterExact, NobodyStartsEarly, LoopInv
  <2>4. SignatureIsFinal'
    BY <1>3, <2>1 DEF SignatureIsFinal, ComputeResult, LoopInv
  <2> QED BY <2>2, <2>3, <2>4
<1> QED
  BY <1>1, <1>2, <1>3 DEF MainStep

\* The barrier.  Only StoreCounter changes who is pending, and the lock makes
\* the value it stores current; only LeaveSpin lets a thread into the loop.
LEMMA BarrierStepIInv ==
  ASSUME IInv, NEW t \in Thread, BarrierStep(t)
  PROVE  IInv'
<1> USE DEF IInv, TypeOK, MainTypeOK, LoopTypeOK
<1>1. UNCHANGED <<m, sig, mainVars, loopVars>>
  BY DEF BarrierStep, AcquireLock, LoadCounter, StoreCounter, ReleaseLock, LeaveSpin
<1>2. MainInv'
  <2>1. pc[t] \notin {"idle", "exit"} /\ \E l \in {"dec", "decStore", "unlock", "spin", "loop"} :
           pc' = [pc EXCEPT ![t] = l]
    BY DEF BarrierStep, AcquireLock, LoadCounter, StoreCounter, ReleaseLock, LeaveSpin
  <2> QED
    BY <1>1, <2>1 DEF MainInv, mainVars
<1>3. SignatureIsFinal'
  BY <1>1 DEF SignatureIsFinal, MainInv, mainVars, loopVars, BarrierStep,
     AcquireLock, LoadCounter, StoreCounter, ReleaseLock, LeaveSpin
<1>4. CASE StoreCounter(t)
  <2>1. Pending' = Pending \ {t}
    BY <1>4 DEF StoreCounter, Pending, BeforeDecrement
  <2>2. t \in Pending
    BY <1>4 DEF StoreCounter, Pending, BeforeDecrement
  <2>3. Cardinality(Pending') = Cardinality(Pending) - 1
    BY <2>1, <2>2, PendingFinite, FS_RemoveElement
  <2>4. startCounter' = startCounter - 1
    BY <1>4 DEF StoreCounter, LockInv
  <2>5. CounterExact'
    BY <2>3, <2>4 DEF CounterExact, Pending
  <2>6. Cardinality(Pending') \in Nat
    BY <2>1, PendingFinite, FS_Subset, FS_CardinalityType, FS_RemoveElement
  <2>7. startCounter' \in 0 .. NumProcs
    BY <2>4, <2>5, <2>6, MainAssumption DEF CounterExact, Pending
  <2>8. TypeOK'
    BY <1>1, <1>4, <2>7 DEF StoreCounter, mainVars, loopVars
  <2>9. LockInv'
    BY <1>4 DEF StoreCounter, LockInv, Locked
  <2>10. NobodyStartsEarly' /\ LoopInv'
    BY <1>1, <1>4 DEF StoreCounter, NobodyStartsEarly, LoopInv, BeforeDecrement,
       LoopPc, loopVars
  <2> QED BY <1>2, <1>3, <2>5, <2>8, <2>9, <2>10
<1>5. CASE LeaveSpin(t)
  <2>1. Cardinality(Pending) = 0
    BY <1>5 DEF LeaveSpin, CounterExact, Pending
  <2>2. Pending = {}
    BY <2>1, PendingFinite, FS_EmptySet
  <2>3. Pending' = Pending
    BY <1>5 DEF LeaveSpin, Pending, BeforeDecrement
  <2>4. CounterExact'
    BY <1>5, <2>3 DEF LeaveSpin, CounterExact, Pending, barrierVars
  <2>5. NobodyStartsEarly'
    BY <2>2, <2>3 DEF NobodyStartsEarly, Pending
  <2>6. TypeOK'
    BY <1>1, <1>5 DEF LeaveSpin, mainVars, loopVars, barrierVars, LoopPc
  <2>7. LockInv' /\ LoopInv'
    BY <1>1, <1>5 DEF LeaveSpin, LockInv, LoopInv, Locked, loopVars, barrierVars
  <2> QED BY <1>2, <1>3, <2>4, <2>5, <2>6, <2>7
<1>6. CASE AcquireLock(t) \/ LoadCounter(t) \/ ReleaseLock(t)
  <2>1. Pending' = Pending /\ UNCHANGED startCounter
    BY <1>6 DEF AcquireLock, LoadCounter, ReleaseLock, Pending, BeforeDecrement
  <2>2. CounterExact'
    BY <2>1 DEF CounterExact, Pending
  <2>3. TypeOK'
    <3>1. CASE AcquireLock(t)
      BY <1>1, <3>1 DEF AcquireLock, mainVars, loopVars, BeforeDecrement, Thread
    <3>2. CASE LoadCounter(t)
      BY <1>1, <3>2 DEF LoadCounter, mainVars, loopVars, BeforeDecrement
    <3>3. CASE ReleaseLock(t)
      BY <1>1, <3>3, MainAssumption DEF ReleaseLock, mainVars, loopVars, BeforeDecrement
    <3> QED BY <1>6, <3>1, <3>2, <3>3
  <2>4. LockInv'
    <3>1. CASE AcquireLock(t)
      BY <3>1 DEF AcquireLock, LockInv, Locked, Thread
    <3>2. CASE LoadCounter(t)
      BY <3>2 DEF LoadCounter, LockInv, Locked
    <3>3. CASE ReleaseLock(t)
      BY <3>3 DEF ReleaseLock, LockInv, Locked, Thread
    <3> QED BY <1>6, <3>1, <3>2, <3>3
  <2>5. NobodyStartsEarly' /\ LoopInv'
    BY <1>1, <1>6 DEF AcquireLock, LoadCounter, ReleaseLock, NobodyStartsEarly,
       LoopInv, BeforeDecrement, LoopPc, loopVars
  <2> QED BY <1>2, <1>3, <2>2, <2>3, <2>4, <2>5
<1> QED
  BY <1>4, <1>5, <1>6 DEF BarrierStep

\* The main loop: nobody is pending any more, and the mixed numbers stay in
\* the range of mix().
LEMMA LoopStepIInv ==
  ASSUME IInv, NEW t \in Thread, LoopStep(t), UNCHANGED barrierVars
  PROVE  IInv'
<1> USE DEF IInv, TypeOK, MainTypeOK, LoopTypeOK
<1>1. UNCHANGED <<mainVars, startCounter, threadLock, loaded>>
  BY DEF LoopStep, LoadFirst, LoadSecond, StoreSecond, LeaveLoop, barrierVars
<1>2. pc[t] \in LoopPc /\ \E l \in LoopPc \cup {"exit"} : pc' = [pc EXCEPT ![t] = l]
  BY DEF LoopStep, LoadFirst, LoadSecond, StoreSecond, LeaveLoop, LoopPc
<1>3. MainInv'
  BY <1>1, <1>2 DEF MainInv, mainVars, LoopPc
<1>4. SignatureIsFinal'
  BY <1>1, <1>2 DEF SignatureIsFinal, MainInv, mainVars, LoopPc
<1>5. LockInv' /\ CounterExact' /\ NobodyStartsEarly'
  <2>1. Pending' = Pending
    BY <1>2 DEF Pending, LoopPc, BeforeDecrement
  <2>2. CounterExact'
    BY <1>1, <2>1 DEF CounterExact, Pending
  <2>3. LockInv' /\ NobodyStartsEarly'
    BY <1>1, <1>2 DEF LockInv, Locked, NobodyStartsEarly, LoopPc, BeforeDecrement
  <2> QED BY <2>2, <2>3
<1>6. LoopInv'
  BY DEF LoopInv, LoopStep, LoadFirst, LoadSecond, StoreSecond, LeaveLoop, loopVars
<1>7. sig[t] \in Nat /\ num[t] \in Nat
  <2>1. sig[t] \in Unsigned /\ num[t] \in Mixed
    BY DEF Thread
  <2>2. Unsigned \subseteq Nat /\ Mixed \subseteq Nat
    BY MixAssumption DEF Unsigned, Mixed
  <2> QED BY <2>1, <2>2
<1>8. TypeOK'
  <2>1. CASE LoadFirst(t)
    <3>0. IndexOf(sig[t]) \in Elem
      BY <1>7, IndexRange
    <3>1. m[IndexOf(sig[t])] \in Nat
      BY <3>0, MixAssumption DEF Mixed
    <3>2. num' \in [Thread -> Mixed]
      BY <2>1, <1>7, <3>1, MixRange DEF LoadFirst
    <3> QED BY <1>1, <2>1, <3>2 DEF LoadFirst, mainVars, LoopPc
  <2>2. CASE LoadSecond(t)
    <3>0. IndexOf(num[t]) \in Elem
      BY <1>7, IndexRange
    <3>1. IndexOf(num[t]) \in Elem /\ m[IndexOf(num[t])] \in Nat
      BY <3>0, MixAssumption DEF Mixed
    <3>2. num' \in [Thread -> Mixed]
      BY <2>2, <1>7, <3>1, MixRange DEF LoadSecond
    <3>3. index2' \in [Thread -> Elem]
      BY <2>2, <3>1 DEF LoadSecond
    <3> QED BY <1>1, <2>2, <3>2, <3>3 DEF LoadSecond, mainVars, LoopPc
  <2>3. CASE StoreSecond(t)
    <3>1. m' \in [Elem -> Mixed] /\ sig' \in [0 .. NumProcs -> Unsigned]
      BY <2>3, MixedIsUnsigned DEF StoreSecond
    <3>2. pc[t] # "exit" /\ iter[t] < MaxLoop
      BY <2>3 DEF StoreSecond, LoopInv
    <3> QED BY <1>1, <2>3, <3>1, <3>2, MainAssumption DEF StoreSecond, mainVars, LoopPc
  <2>4. CASE LeaveLoop(t)
    BY <1>1, <2>4 DEF LeaveLoop, mainVars, loopVars, LoopPc
  <2> QED BY <2>1, <2>2, <2>3, <2>4 DEF LoopStep
<1> QED
  BY <1>3, <1>4, <1>5, <1>6, <1>8

\* A stutter changes nothing the invariant mentions.
LEMMA StutterIInv ==
  ASSUME IInv, UNCHANGED vars
  PROVE  IInv'
  BY DEF IInv, TypeOK, MainTypeOK, LoopTypeOK, MainInv, LockInv, CounterExact,
     NobodyStartsEarly, LoopInv, SignatureIsFinal, vars, mainVars, loopVars, barrierVars

\* The inductive invariant, and with it every safety property the run checks:
\* threadLock makes the decrements of racey-basic.c:71-77 exact, an exact
\* counter opens the barrier only when nobody is pending, and the joins of
\* :160-163 leave no writer of sig[] when :166-169 fold it.
THEOREM BasicInvariant == Spec => []IInv
<1>1. IInv /\ [Next]_vars => IInv'
  BY StepCases, MainStepIInv, BarrierStepIInv, LoopStepIInv, StutterIInv
<1> QED
  BY <1>1, InitIInv, PTL DEF Spec

\* The variables keep their types: in particular every index computed from a
\* mixed number stays within m[], and startCounter never goes below 0.
THEOREM BasicTypeCorrect == Spec => []TypeOK
  BY BasicInvariant, PTL DEF IInv

\* startCounter always counts the threads whose decrement is still to come.
THEOREM BasicCounterExact == Spec => []CounterExact
  BY BasicInvariant, PTL DEF IInv

\* No thread enters the main loop before every thread has reached the barrier.
THEOREM BasicBarrier == Spec => []NobodyStartsEarly
  BY BasicInvariant, PTL DEF IInv

\* main() folds sig[] only when no thread can write it any more.
THEOREM BasicSignatureIsFinal == Spec => []SignatureIsFinal
  BY BasicInvariant, PTL DEF IInv
-----------------------------------------------------------------------------
\* Why racey-basic.c ends: as in RaceyGuardedProofs, somebody can always take a
\* step, and every step takes a thread or main() nearer to its last.

\* t is at a step that it can take: the lock is free, the barrier is open.
Runnable(t) ==
  /\ pc[t] \notin {"idle", "exit"}
  /\ pc[t] = "start" => threadLock = 0
  /\ pc[t] = "spin" => startCounter = 0

BasicRuns == mainPc = "done" \/ MainRuns \/ \E t \in Thread : Runnable(t)

\* The place of a step in the body of a thread, in racey-basic.c and in the programs
\* that vary it, and how far t has come; an iteration has 3 places.
Place(label) ==
  CASE label = "idle"     -> 0
    [] label = "start"    -> 1
    [] label = "dec"      -> 2
    [] label = "decStore" -> 3
    [] label = "unlock"   -> 4
    [] label = "spin"     -> 5
    [] label = "wait"     -> 5
    [] label = "read"     -> 6
    [] label = "loop"     -> 6
    [] label = "second"   -> 7
    [] label = "store"    -> 8
    [] label = "exit"     -> 9

Labels == BeforeDecrement \cup LoopPc \cup {"unlock", "spin", "wait", "read", "exit"}

Rank(t) == Place(pc[t]) + 3 * iter[t]

BasicRanksEnd ==
  /\ MainRank \in 0 .. 2 * NumProcs + 1
  /\ \A t \in Thread : Rank(t) \in 0 .. 9 + 3 * MaxLoop

\* Nobody goes back, and somebody comes one step further.
BasicAdvance ==
  /\ MainRank' >= MainRank /\ \A t \in Thread : Rank(t)' >= Rank(t)
  /\ MainRank' > MainRank \/ \E t \in Thread : Rank(t)' > Rank(t)

\* Once every thread exists, whoever holds the lock goes on; when nobody does and
\* nobody is on the way to it, the counter is 0 and the barrier is open.
LEMMA SomebodyMoves ==
  ASSUME IInv, \A t \in Thread : pc[t] # "idle", \E t \in Thread : pc[t] # "exit"
  PROVE  \E t \in Thread : Runnable(t)
<1> SUFFICES ASSUME \A t \in Thread : ~Runnable(t) PROVE FALSE
  OBVIOUS
<1> USE DEF IInv, TypeOK
<1>1. threadLock = 0
  <2>1. ASSUME threadLock # 0 PROVE FALSE
    <3>1. threadLock \in Thread
      BY <2>1, MainAssumption DEF Thread
    <3>2. pc[threadLock] \in Locked
      BY <3>1 DEF LockInv
    <3> QED BY <3>1, <3>2 DEF Runnable, Locked
  <2> QED BY <2>1
<1>2. \A t \in Thread : pc[t] \in {"spin", "exit"}
  BY <1>1 DEF Runnable, BeforeDecrement, LoopPc
<1>3. startCounter = 0
  <2>1. {t \in Thread : pc[t] \in BeforeDecrement} = {}
    BY <1>2 DEF BeforeDecrement
  <2> QED BY <2>1, FS_EmptySet, Zenon DEF CounterExact
<1> QED BY <1>2, <1>3 DEF Runnable

\* The place of every label.
LEMMA Places ==
  ASSUME NEW label \in Labels
  PROVE  Place(label) \in 0 .. 9
BY DEF Place, Labels, BeforeDecrement, LoopPc

\* The ranks are bounded.
LEMMA RankRange ==
  ASSUME NEW t \in Thread, pc[t] \in Labels, iter[t] \in 0 .. MaxLoop
  PROVE  Rank(t) \in 0 .. 9 + 3 * MaxLoop
<1>1. Place(pc[t]) \in 0 .. 9 /\ MaxLoop \in Nat
  BY Places, MainAssumption
<1> QED BY <1>1 DEF Rank

\* A thread that goes on to a later place, or to its next iteration, comes further.
LEMMA FurtherOn ==
  ASSUME NEW t \in Thread, pc[t] \in Labels, pc'[t] \in Labels, iter[t] \in 0 .. MaxLoop,
         \/ iter'[t] = iter[t] /\ Place(pc'[t]) > Place(pc[t])
         \/ iter'[t] = iter[t] + 1 /\ pc[t] = "store" /\ pc'[t] = "loop"
  PROVE  Rank(t)' > Rank(t)
<1>1. /\ Place(pc[t]) \in 0 .. 9 /\ Place(pc'[t]) \in 0 .. 9
      /\ iter[t] \in Nat
  BY Places, MainAssumption
<1>2. CASE iter'[t] = iter[t] /\ Place(pc'[t]) > Place(pc[t])
  BY <1>1, <1>2 DEF Rank
<1>3. CASE iter'[t] = iter[t] + 1 /\ pc[t] = "store" /\ pc'[t] = "loop"
  <2>1. Place(pc[t]) = 8 /\ Place(pc'[t]) = 6
    BY <1>3 DEF Place
  <2> QED BY <1>1, <1>3, <2>1 DEF Rank
<1> QED BY <1>2, <1>3

\* A step of the loop.
LEMMA LoopStepFurther ==
  ASSUME NEW t \in Thread, pc \in [Thread -> Labels], iter \in [Thread -> 0 .. MaxLoop],
         LoopStep(t)
  PROVE  /\ Rank(t)' > Rank(t)
         /\ UNCHANGED mainVars /\ \A u \in Thread \ {t} : pc'[u] = pc[u] /\ iter'[u] = iter[u]
<1>1. UNCHANGED mainVars /\ \A u \in Thread \ {t} : pc'[u] = pc[u] /\ iter'[u] = iter[u]
  BY DEF LoopStep, LoadFirst, LoadSecond, StoreSecond, LeaveLoop, loopVars
<1>2. \/ iter'[t] = iter[t] /\ pc[t] = "loop" /\ pc'[t] = "second"
      \/ iter'[t] = iter[t] /\ pc[t] = "second" /\ pc'[t] = "store"
      \/ iter'[t] = iter[t] + 1 /\ pc[t] = "store" /\ pc'[t] = "loop"
      \/ iter'[t] = iter[t] /\ pc[t] = "loop" /\ pc'[t] = "exit"
  BY DEF LoopStep, LoadFirst, LoadSecond, StoreSecond, LeaveLoop, loopVars
<1>3. pc[t] \in Labels /\ pc'[t] \in Labels /\ iter[t] \in 0 .. MaxLoop
  BY <1>2 DEF Labels, LoopPc
<1>4. iter'[t] = iter[t] => Place(pc'[t]) > Place(pc[t])
  BY <1>2, <1>3 DEF Place
<1> QED BY <1>1, <1>2, <1>3, <1>4, FurtherOn

\* A step on the way to the loop.
LEMMA BarrierStepFurther ==
  ASSUME NEW t \in Thread, pc \in [Thread -> Labels], iter \in [Thread -> 0 .. MaxLoop],
         BarrierStep(t)
  PROVE  /\ Rank(t)' > Rank(t)
         /\ UNCHANGED mainVars /\ \A u \in Thread \ {t} : pc'[u] = pc[u] /\ iter'[u] = iter[u]
<1>1. UNCHANGED mainVars /\ \A u \in Thread \ {t} : pc'[u] = pc[u] /\ iter'[u] = iter[u]
  BY DEF BarrierStep, AcquireLock, LoadCounter, StoreCounter, ReleaseLock, LeaveSpin, loopVars
<1>2. /\ iter'[t] = iter[t]
      /\ \/ pc[t] = "start" /\ pc'[t] = "dec"
         \/ pc[t] = "dec" /\ pc'[t] = "decStore"
         \/ pc[t] = "decStore" /\ pc'[t] = "unlock"
         \/ pc[t] = "unlock" /\ pc'[t] = "spin"
         \/ pc[t] = "spin" /\ pc'[t] = "loop"
  BY DEF BarrierStep, AcquireLock, LoadCounter, StoreCounter, ReleaseLock, LeaveSpin, loopVars
<1>3. pc[t] \in Labels /\ pc'[t] \in Labels /\ iter[t] \in 0 .. MaxLoop
  BY <1>2 DEF Labels, LoopPc, BeforeDecrement
<1>4. Place(pc'[t]) > Place(pc[t])
  BY <1>2 DEF Place
<1> QED BY <1>1, <1>2, <1>3, <1>4, FurtherOn

\* A step of main() may create a thread, and leaves the others where they are.
LEMMA CreateFurther ==
  ASSUME pc \in [Thread -> Labels], iter \in [Thread -> 0 .. MaxLoop], UNCHANGED iter,
         UNCHANGED pc \/ (pc[mainI + 1] = "idle" /\ pc' = [pc EXCEPT ![mainI + 1] = "start"])
  PROVE  \A t \in Thread : Rank(t)' >= Rank(t)
<1> SUFFICES ASSUME NEW t \in Thread PROVE Rank(t)' >= Rank(t)
  OBVIOUS
<1>1. Place(pc[t]) \in 0 .. 9 /\ iter[t] \in Nat /\ iter'[t] = iter[t]
  BY Places, MainAssumption
<1>2. CASE pc'[t] = pc[t]
  BY <1>1, <1>2 DEF Rank
<1>3. CASE pc[t] = "idle" /\ pc'[t] = "start"
  <2>1. Place(pc[t]) = 0 /\ Place(pc'[t]) = 1
    BY <1>3 DEF Place
  <2> QED BY <1>1, <2>1 DEF Rank
<1> QED BY <1>2, <1>3

LEMMA BasicRanksBounded == IInv => BasicRanksEnd
<1> SUFFICES ASSUME IInv PROVE BasicRanksEnd
  OBVIOUS
<1>1. MainRank \in 0 .. 2 * NumProcs + 1
  BY MainRankRange DEF IInv, TypeOK, MainTypeOK
<1>2. \A t \in Thread : Rank(t) \in 0 .. 9 + 3 * MaxLoop
  BY RankRange DEF IInv, TypeOK, LoopTypeOK, Labels
<1> QED BY <1>1, <1>2 DEF BasicRanksEnd

LEMMA BasicStepAdvances ==
  ASSUME IInv, BasicRanksEnd, BasicRanksEnd', main \/ \E t \in Thread : ThreadBody(t)
  PROVE  BasicAdvance
<1>1. pc \in [Thread -> Labels] /\ iter \in [Thread -> 0 .. MaxLoop]
  BY DEF IInv, TypeOK, LoopTypeOK, Labels
<1>2. CASE main
  <2>1. MainRank' > MainRank
    BY <1>2, MainAdvances DEF main, MainStep, ComputeResult, IInv, TypeOK, MainTypeOK
  <2>2. UNCHANGED pc \/ (pc[mainI + 1] = "idle" /\ pc' = [pc EXCEPT ![mainI + 1] = "start"])
    BY <1>2, MainAssumption
    DEF main, MainStep, CreateThread, JoinThread, ComputeResult, IInv, TypeOK, MainTypeOK,
        MainInv, Thread
  <2>3. \A t \in Thread : Rank(t)' >= Rank(t)
    BY <1>1, <1>2, <2>2, CreateFurther DEF main, loopVars
  <2> QED BY <2>1, <2>3, MainAssumption DEF BasicAdvance, BasicRanksEnd
<1>3. ASSUME NEW t \in Thread, ThreadBody(t) PROVE BasicAdvance
  <2>1. /\ Rank(t)' > Rank(t)
        /\ UNCHANGED mainVars /\ \A u \in Thread \ {t} : pc'[u] = pc[u] /\ iter'[u] = iter[u]
    BY <1>1, <1>3, LoopStepFurther, BarrierStepFurther DEF ThreadBody
  <2>2. MainRank' = MainRank /\ \A u \in Thread \ {t} : Rank(u)' = Rank(u)
    BY <2>1 DEF MainRank, mainVars, Rank
  <2> QED BY <2>1, <2>2, MainAssumption DEF BasicAdvance, BasicRanksEnd
<1> QED BY <1>2, <1>3

\* racey-basic.c never deadlocks at its hand-made barrier: until main() has printed,
\* some thread is not held up by the lock or the counter, or main() not by a join.
THEOREM BasicNeverStuck == Spec => []BasicRuns
<1>1. IInv => BasicRuns
  BY SomebodyMoves, MainWaits DEF BasicRuns, IInv, TypeOK
<1> QED BY <1>1, BasicInvariant, PTL

\* Every step of racey-basic.c, a reading of the counter that finds it positive
\* aside, takes a thread or main() further and none back, and none has further to
\* go than its last step: with BasicNeverStuck, why the program ends.
THEOREM BasicAdvances == Spec => []BasicRanksEnd /\ [][BasicAdvance]_vars
<1>1. IInv /\ BasicRanksEnd /\ BasicRanksEnd' /\ [Next]_vars => [BasicAdvance]_vars
  BY BasicStepAdvances DEF Next, Terminated
<1> QED BY <1>1, BasicInvariant, BasicRanksBounded, PTL DEF Spec
-----------------------------------------------------------------------------
\* What is said of the variables' types.  The values of the hashes are left
\* out: they come from a recursive function, and no property needs their range.
FunctionOn(f, D) == f = [x \in D |-> f[x]]

Shapes ==
  /\ pc \in [Thread -> {"idle", "start", "wait", "read", "store", "exit"}]
  /\ FunctionOn(sig, 0 .. NumProcs)
  /\ mainPc \in {"create", "join", "result", "done"}
  /\ mainI \in 0 .. NumProcs
  /\ offset \in 0 .. FileLen
  /\ FunctionOn(hash, Thread)
  /\ chunks \in [Thread -> Seq(0 .. FileLen)]
  /\ failed \subseteq Thread

\* The offset stands at the begin of a chunk or at the end of the file, and
\* whatever has been read lies before it.
OffsetInv ==
  /\ offset = FileLen \/ offset % BufSize = 0
  /\ \A t \in Thread : \A i \in DOMAIN chunks[t] : chunks[t][i] < offset

\* A thread leaves its loop at the end of the file or because a read failed,
\* and its hash is in sig[] when it has returned.
LeaveInv ==
  \A t \in Thread :
    /\ pc[t] \in {"store", "exit"} => offset = FileLen \/ t \in failed
    /\ pc[t] = "exit" => sig[t] = hash[t]

ReadInv ==
  /\ Shapes /\ MainInv
  /\ OffsetInv /\ ChunksAreReadOnce
  /\ LeaveInv /\ HashesAreFinal
-----------------------------------------------------------------------------
\* Two begins of chunks are a buffer apart.
LEMMA ChunksApart ==
  ASSUME NEW a \in Nat, NEW b \in Nat, NEW n \in Nat \ {0},
         a % n = 0, b % n = 0, a < b
  PROVE  a + n <= b
<1> DEFINE p == a \div n
           q == b \div n
<1>1. p \in Int /\ a = n * p
  OBVIOUS
<1>2. q \in Int /\ b = n * q
  OBVIOUS
<1>3. n * p < n * q
  BY <1>1, <1>2
<1> HIDE DEF p, q
<1>4. p + 1 <= q
  BY <1>1, <1>2, <1>3
<1>5. n * (p + 1) <= n * q
  BY <1>1, <1>2, <1>4
<1> QED
  BY <1>1, <1>2, <1>5

\* A buffer past the begin of a chunk another may begin.
LEMMA ChunkAfter ==
  ASSUME NEW a \in Nat, NEW n \in Nat \ {0}, a % n = 0
  PROVE  (a + n) % n = 0
<1> DEFINE p == a \div n
           q == (a + n) \div n
           r == (a + n) % n
<1>1. p \in Int /\ a = n * p
  OBVIOUS
<1>2. q \in Int /\ r \in 0 .. n - 1 /\ a + n = n * q + r
  OBVIOUS
<1> HIDE DEF p, q, r
<1>3. n * (p + 1 - q) = r
  BY <1>1, <1>2
<1>4. p + 1 - q = 0
  <2>1. CASE p + 1 - q >= 1
    <3>1. n * (p + 1 - q) >= n
      BY <1>1, <1>2, <2>1
    <3> QED
      BY <1>2, <1>3, <3>1
  <2>2. CASE p + 1 - q <= -1
    <3>1. n * (p + 1 - q) <= -n
      BY <1>1, <1>2, <2>2
    <3> QED
      BY <1>2, <1>3, <3>1
  <2> QED
    BY <1>1, <1>2, <2>1, <2>2
<1>5. r = 0
  BY <1>3, <1>4
<1> QED
  BY <1>5 DEF r

\* A chunk is not empty before the end of the file, and the next begins where it
\* ends, or the file ends there.
LEMMA NextOffset ==
  ASSUME NEW o \in 0 .. FileLen, o < FileLen, o % BufSize = 0
  PROVE  /\ ChunkLen(o) \in 1 .. BufSize
         /\ o + ChunkLen(o) \in 0 .. FileLen
         /\ o + ChunkLen(o) = FileLen \/ (o + ChunkLen(o)) % BufSize = 0
<1>1. CASE FileLen - o < BufSize
  BY <1>1, ReadFileAssumption DEF ChunkLen
<1>2. CASE ~(FileLen - o < BufSize)
  <2>0. o \in Nat /\ BufSize \in Nat \ {0}
    BY ReadFileAssumption
  <2>1. (o + BufSize) % BufSize = 0
    BY <2>0, ChunkAfter, Zenon
  <2> QED
    BY <1>2, <2>1, ReadFileAssumption DEF ChunkLen
<1> QED
  BY <1>1, <1>2

\* What has been read are numbers before the offset.
LEMMA ReadBefore ==
  ASSUME Shapes, OffsetInv, NEW t \in Thread, NEW i \in DOMAIN chunks[t]
  PROVE  chunks[t][i] \in Nat /\ chunks[t][i] < offset
<1>1. chunks[t] \in Seq(0 .. FileLen)
  BY DEF Shapes
<1>2. \A S : \A s \in Seq(S) : \A j \in DOMAIN s : s[j] \in S
  OBVIOUS
<1>3. chunks[t][i] \in 0 .. FileLen
  BY <1>1, <1>2, Zenon
<1> QED
  BY <1>3, ReadFileAssumption DEF OffsetInv

\* Appending adds one element at the end and leaves the others.
LEMMA AppendLast ==
  ASSUME NEW S, NEW s \in Seq(S), NEW x \in S
  PROVE  /\ Append(s, x) \in Seq(S)
         /\ DOMAIN Append(s, x) = DOMAIN s \cup {Len(s) + 1}
         /\ Len(s) + 1 \notin DOMAIN s
         /\ \A i \in DOMAIN s : Append(s, x)[i] = s[i] /\ i < Len(s) + 1
         /\ Append(s, x)[Len(s) + 1] = x
  OBVIOUS
-----------------------------------------------------------------------------
\* Nothing has been read before the threads exist.
LEMMA InitReadInv == ReadFileInit => ReadInv
<1> SUFFICES ASSUME ReadFileInit PROVE ReadInv
  OBVIOUS
<1> USE DEF ReadFileInit, MainInit
<1>1. Shapes
  BY MainAssumption, ReadFileAssumption DEF Shapes, Thread, FunctionOn
<1>2. MainInv
  BY MainAssumption DEF MainInv, Thread
<1>3. OffsetInv
  <2>1. 0 % BufSize = 0
    BY ReadFileAssumption
  <2> QED
    BY <2>1 DEF OffsetInv
<1>4. ChunksAreReadOnce
  BY ReadFileAssumption DEF ChunksAreReadOnce
<1>5. LeaveInv /\ HashesAreFinal
  BY DEF LeaveInv, HashesAreFinal
<1> QED
  BY <1>1, <1>2, <1>3, <1>4, <1>5 DEF ReadInv

\* main() touches neither the file nor the hashes.
LEMMA MainStepReadInv ==
  ASSUME ReadInv, ReadFileMain
  PROVE  ReadInv'
<1> USE DEF ReadInv, Shapes, MainInv
<1>1. UNCHANGED <<m, sig, offset, hash, chunks, failed>>
  BY DEF ReadFileMain, MainStep, CreateThread, JoinThread, ComputeResult, readVars
<1>2. OffsetInv' /\ ChunksAreReadOnce'
  BY <1>1 DEF OffsetInv, ChunksAreReadOnce
<1>3. CASE CreateThread
  <2> DEFINE t == mainI + 1
  <2>1. t \in Thread /\ pc[t] = "idle" /\ pc' = [pc EXCEPT ![t] = "start"]
    BY <1>3, MainAssumption DEF CreateThread, Thread
  <2>2. Shapes'
    BY <1>1, <1>3, <2>1, MainAssumption DEF CreateThread
  <2>3. MainInv'
    <3>1. CASE t < NumProcs
      BY <1>3, <2>1, <3>1 DEF CreateThread, Thread
    <3>2. CASE ~(t < NumProcs)
      BY <1>3, <2>1, <3>2, MainAssumption DEF CreateThread, Thread
    <3> QED BY <3>1, <3>2
  <2>4. LeaveInv'
    BY <1>1, <2>1 DEF LeaveInv
  <2>5. HashesAreFinal'
    BY <1>3 DEF HashesAreFinal, CreateThread
  <2> QED BY <1>2, <2>2, <2>3, <2>4, <2>5
<1>4. CASE JoinThread
  <2>1. UNCHANGED pc
    BY <1>4 DEF JoinThread
  <2>2. Shapes' /\ MainInv'
    BY <1>1, <1>4, <2>1, MainAssumption DEF JoinThread, Thread
  <2>3. LeaveInv'
    BY <1>1, <2>1 DEF LeaveInv
  <2>4. HashesAreFinal'
    BY <1>4 DEF HashesAreFinal, JoinThread
  <2> QED BY <1>2, <2>2, <2>3, <2>4
<1>5. CASE ComputeResult
  <2>1. UNCHANGED <<pc, mainI>> /\ mainPc = "result" /\ mainPc' = "done"
    BY <1>5 DEF ComputeResult
  <2>2. Shapes' /\ MainInv'
    BY <1>1, <2>1
  <2>3. LeaveInv'
    BY <1>1, <2>1 DEF LeaveInv
  <2>4. offset = FileLen \/ failed = Thread
    BY <2>1 DEF LeaveInv
  <2>5. mixSig' = Signature(sig, NumProcs)
    BY <1>5 DEF ComputeResult
  <2>6. HashesAreFinal'
    BY <1>1, <2>1, <2>4, <2>5 DEF HashesAreFinal, LeaveInv
  <2> QED BY <1>2, <2>2, <2>3, <2>6
<1> QED
  BY <1>3, <1>4, <1>5 DEF ReadFileMain, MainStep

\* A read: the chunk at the offset is nobody's so far, and it is the only one
\* that begins before the new offset and not before the old one.
LEMMA ReadChunkReadInv ==
  ASSUME ReadInv, NEW t \in Thread, ReadChunk(t)
  PROVE  ReadInv'
<1> USE DEF ReadInv, Shapes
<1> DEFINE next == offset + ChunkLen(offset)
           last == Len(chunks[t]) + 1
<1>1. /\ pc[t] = "read" /\ offset < FileLen /\ offset % BufSize = 0
      /\ offset \in 0 .. FileLen /\ offset \in Nat
  BY ReadFileAssumption DEF ReadChunk, OffsetInv
<1>2. /\ offset' = next
      /\ chunks' = [chunks EXCEPT ![t] = Append(chunks[t], offset)]
      /\ UNCHANGED <<pc, m, sig, mainPc, mainI, mixSig, failed>>
  BY DEF ReadChunk, mainVars
<1>3. /\ ChunkLen(offset) \in 1 .. BufSize
      /\ next \in 0 .. FileLen
      /\ next = FileLen \/ next % BufSize = 0
  BY <1>1, NextOffset
<1>4. offset < next /\ next <= offset + BufSize
  BY <1>1, <1>3, ReadFileAssumption
<1> HIDE DEF next
<1>5. /\ chunks'[t] \in Seq(0 .. FileLen)
      /\ DOMAIN chunks'[t] = DOMAIN chunks[t] \cup {last}
      /\ last \notin DOMAIN chunks[t]
      /\ \A i \in DOMAIN chunks[t] : chunks'[t][i] = chunks[t][i] /\ i < last
      /\ chunks'[t][last] = offset
  BY <1>1, <1>2, AppendLast
<1>6. \A u \in Thread \ {t} : chunks'[u] = chunks[u]
  BY <1>2
<1>7. Shapes'
  <2>1. FunctionOn(hash', Thread)
    BY DEF ReadChunk, FunctionOn
  <2> QED
    BY <1>2, <1>3, <1>5, <2>1, ReadFileAssumption
<1>8. MainInv'
  BY <1>2 DEF MainInv
<1>9. OffsetInv'
  <2>1. ASSUME NEW u \in Thread, NEW i \in DOMAIN chunks'[u]
        PROVE  chunks'[u][i] < next
    <3>1. CASE u = t /\ i = last
      BY <1>4, <1>5, <3>1
    <3>2. CASE ~(u = t /\ i = last)
      <4>1. i \in DOMAIN chunks[u] /\ chunks'[u][i] = chunks[u][i]
        BY <1>5, <1>6, <3>2
      <4>2. chunks[u][i] < offset /\ chunks[u][i] \in Nat
        BY <4>1, ReadBefore
      <4> QED
        BY <1>1, <1>3, <1>4, <4>1, <4>2, ReadFileAssumption
    <3> QED BY <3>1, <3>2
  <2> QED
    BY <1>2, <1>3, <2>1 DEF OffsetInv
<1>10. \A u, v \in Thread : \A i \in DOMAIN chunks[u], j \in DOMAIN chunks[v] :
          chunks[u][i] = chunks[v][j] => u = v /\ i = j
  BY DEF ChunksAreReadOnce
<1>11. ChunksAreReadOnce'
  <2>1. ASSUME NEW u \in Thread, NEW i \in DOMAIN chunks[u]
        PROVE  chunks[u][i] < offset /\ chunks[u][i] # offset
    <3>1. chunks[u][i] < offset /\ chunks[u][i] \in Nat
      BY ReadBefore
    <3> QED BY <1>1, <3>1
  <2>2. ASSUME NEW u \in Thread, NEW v \in Thread,
               NEW i \in DOMAIN chunks'[u], NEW j \in DOMAIN chunks'[v],
               chunks'[u][i] = chunks'[v][j]
        PROVE  u = v /\ i = j
    <3>1. CASE (u = t /\ i = last) \/ (v = t /\ j = last)
      BY <1>5, <1>6, <2>1, <2>2, <3>1
    <3>2. CASE ~(u = t /\ i = last) /\ ~(v = t /\ j = last)
      <4>1. i \in DOMAIN chunks[u] /\ chunks'[u][i] = chunks[u][i]
        BY <1>5, <1>6, <3>2
      <4>2. j \in DOMAIN chunks[v] /\ chunks'[v][j] = chunks[v][j]
        BY <1>5, <1>6, <3>2
      <4>3. chunks[u][i] = chunks[v][j]
        BY <2>2, <4>1, <4>2
      <4> QED
        BY <1>10, <4>1, <4>2, <4>3, SMT
    <3> QED BY <3>1, <3>2
  <2>3. ASSUME NEW u \in Thread, NEW i \in DOMAIN chunks'[u], NEW j \in DOMAIN chunks'[u],
               i < j
        PROVE  chunks'[u][i] < chunks'[u][j]
    <3>1. CASE u = t /\ j = last
      <4>1. i \in DOMAIN chunks[t] /\ chunks'[t][i] = chunks[t][i]
        BY <1>5, <2>3, <3>1
      <4> QED
        BY <1>5, <2>1, <3>1, <4>1
    <3>2. CASE u = t /\ j # last
      <4>1. j \in DOMAIN chunks[t] /\ j < last /\ j \in Nat
        BY <1>5, <3>2
      <4>2. i # last
        BY <2>3, <3>2, <4>1
      <4>3. i \in DOMAIN chunks[t]
        BY <1>5, <3>2, <4>2
      <4> QED
        BY <1>5, <2>3, <3>2, <4>1, <4>3 DEF ChunksAreReadOnce
    <3>3. CASE u # t
      BY <1>6, <2>3, <3>3 DEF ChunksAreReadOnce
    <3> QED BY <3>1, <3>2, <3>3
  <2>4. ASSUME NEW o \in 0 .. FileLen - 1, o % BufSize = 0, o < next
        PROVE  \E u \in Thread : \E i \in DOMAIN chunks'[u] : chunks'[u][i] = o
    <3>1. CASE o < offset
      <4>1. PICK u \in Thread : \E i \in DOMAIN chunks[u] : chunks[u][i] = o
        BY <2>4, <3>1 DEF ChunksAreReadOnce
      <4> QED BY <1>5, <1>6, <4>1
    <3>2. CASE o = offset
      BY <1>5, <3>2
    <3>3. CASE offset < o
      <4>1. o \in Nat /\ BufSize \in Nat \ {0}
        BY ReadFileAssumption
      <4>2. offset + BufSize <= o
        BY <1>1, <2>4, <3>3, <4>1, ChunksApart, Zenon
      <4> QED
        BY <1>1, <1>3, <1>4, <2>4, <4>1, <4>2
    <3> QED BY <1>1, <3>1, <3>2, <3>3
  <2>5. ASSUME NEW o \in 0 .. FileLen - 1,
               NEW u \in Thread, NEW i \in DOMAIN chunks'[u], chunks'[u][i] = o
        PROVE  o < next
    BY <1>2, <1>9, <2>5 DEF OffsetInv
  <2> QED
    BY <1>2, <2>2, <2>3, <2>4, <2>5 DEF ChunksAreReadOnce
<1>12. LeaveInv'
  <2>1. \A u \in Thread : pc[u] \in {"store", "exit"} => u # t /\ hash'[u] = hash[u]
    BY <1>1 DEF ReadChunk, FunctionOn
  <2> QED
    BY <1>1, <1>2, <2>1 DEF LeaveInv
<1>13. HashesAreFinal'
  BY <1>1, <1>2 DEF HashesAreFinal
<1> QED
  BY <1>7, <1>8, <1>9, <1>11, <1>12, <1>13

\* The other steps of a thread read nothing.
LEMMA ThreadReadInv ==
  ASSUME ReadInv, NEW t \in Thread,
         Arrive(t) \/ PassReadBarrier(t) \/ ReadNothing(t) \/ StoreHash(t)
  PROVE  ReadInv'
<1> USE DEF ReadInv, Shapes
<1>1. /\ UNCHANGED <<m, mainPc, mainI, mixSig, offset, chunks>>
      /\ pc[t] \notin {"idle", "exit"}
      /\ pc' \in [Thread -> {"idle", "start", "wait", "read", "store", "exit"}]
      /\ pc'[t] # "idle" /\ \A u \in Thread \ {t} : pc'[u] = pc[u]
  BY DEF Arrive, PassReadBarrier, ReadNothing, StoreHash, mainVars, readVars
<1>2. OffsetInv' /\ ChunksAreReadOnce'
  BY <1>1 DEF OffsetInv, ChunksAreReadOnce
<1>3. MainInv'
  BY <1>1 DEF MainInv
<1>4. HashesAreFinal'
  BY <1>1 DEF HashesAreFinal, MainInv
<1>5. t \in 0 .. NumProcs
  BY MainAssumption DEF Thread
<1>6. CASE Arrive(t) \/ PassReadBarrier(t)
  <2>1. /\ UNCHANGED <<sig, failed>>
        /\ pc'[t] \notin {"store", "exit"}
    BY <1>6 DEF Arrive, PassReadBarrier, readVars
  <2>2. FunctionOn(hash', Thread) /\ \A u \in Thread \ {t} : hash'[u] = hash[u]
    BY <1>6 DEF Arrive, PassReadBarrier, readVars, FunctionOn
  <2>3. Shapes'
    BY <1>1, <2>1, <2>2
  <2>4. LeaveInv'
    BY <1>1, <2>1, <2>2 DEF LeaveInv
  <2> QED BY <2>3, <2>4, <1>2, <1>3, <1>4
<1>7. CASE ReadNothing(t)
  <2>1. /\ UNCHANGED sig
        /\ pc'[t] = "store"
        /\ failed' \in {failed, failed \cup {t}}
        /\ offset = FileLen \/ t \in failed'
    BY <1>7 DEF ReadNothing
  <2>2. FunctionOn(hash', Thread) /\ \A u \in Thread \ {t} : hash'[u] = hash[u]
    BY <1>7 DEF ReadNothing, FunctionOn
  <2>3. Shapes'
    BY <1>1, <2>1, <2>2
  <2>4. LeaveInv'
    BY <1>1, <2>1, <2>2 DEF LeaveInv
  <2> QED BY <2>3, <2>4, <1>2, <1>3, <1>4
<1>8. CASE StoreHash(t)
  <2>1. UNCHANGED <<hash, failed>> /\ pc[t] = "store" /\ pc'[t] = "exit"
    BY <1>8 DEF StoreHash, readVars
  <2>2. /\ FunctionOn(sig', 0 .. NumProcs)
        /\ sig'[t] = hash[t] /\ \A u \in (0 .. NumProcs) \ {t} : sig'[u] = sig[u]
    BY <1>5, <1>8 DEF StoreHash, FunctionOn
  <2>3. \A u \in Thread \ {t} : sig'[u] = sig[u]
    BY <2>2, MainAssumption DEF Thread
  <2>4. Shapes'
    BY <1>1, <2>1, <2>2
  <2>5. LeaveInv'
    BY <1>1, <2>1, <2>2, <2>3 DEF LeaveInv
  <2> QED BY <2>4, <2>5, <1>2, <1>3, <1>4
<1> QED
  BY <1>6, <1>7, <1>8

LEMMA StutterReadInv ==
  ASSUME ReadInv, UNCHANGED readFileVars
  PROVE  ReadInv'
  BY DEF ReadInv, Shapes, MainInv, OffsetInv, ChunksAreReadOnce, LeaveInv,
     HashesAreFinal, readFileVars, mainVars, readVars

\* The inductive invariant: the offset stands where the next chunk begins, what
\* has been read lies before it, and a thread leaves with its hash stored.
THEOREM ReadInvariant == ReadFileSpec => []ReadInv
<1>1. ReadInv /\ [ReadFileNext]_readFileVars => ReadInv'
  BY MainStepReadInv, ReadChunkReadInv, ThreadReadInv, StutterReadInv
     DEF ReadFileNext, ReadFileDone, ReadFileBody
<1> QED
  BY <1>1, InitReadInv, PTL DEF ReadFileSpec

\* Every chunk before the offset has been read by exactly one thread, in the
\* order of the file (racey-readfile.c:79-86), whichever threads read it.
THEOREM ReadOnce == ReadFileSpec => []ChunksAreReadOnce
  BY ReadInvariant, PTL DEF ReadInv

\* main() folds the final hashes of the whole file, unless a read has failed in
\* every thread (:142-178).
THEOREM HashesFinal == ReadFileSpec => []HashesAreFinal
  BY ReadInvariant, PTL DEF ReadInv
-----------------------------------------------------------------------------
\* The programs without a barrier, of which racey-forkmmap may fail to fork.
FreePc == {"idle", "start", "exit"} \cup LoopPc

FreeInv ==
  /\ pc \in [Thread -> FreePc]
  /\ mainPc \in {"create", "join", "result", "done", "failed"}
  /\ mainI \in 0 .. NumProcs
  /\ iter \in [Thread -> 0 .. MaxLoop]
  /\ LoopInv /\ SignatureIsFinal

\* What main()'s loops of fork and wait have established: as many children as it has
\* counted have ended, whichever they are, and no other child exists past mainI.
ForkInv ==
  /\ reaped \subseteq {t \in Thread : pc[t] = "exit"}
  /\ mainPc = "create" =>
       mainI < NumProcs /\ reaped = {} /\ \A t \in Thread : pc[t] = "idle" <=> t > mainI
  /\ mainPc = "join" =>
       mainI < NumProcs /\ Cardinality(reaped) = mainI /\ \A t \in Thread : pc[t] # "idle"
  /\ mainPc \in {"result", "done"} => reaped = Thread

\* The iterations between two pages.
Every == MaxLoop \div parts

\* A thread has mapped a page for every multiple of Every that it has passed; the
\* division by 0 comes in the first iteration of all, while main() waits.
PageInv ==
  /\ parts \in PartsSet /\ pages \in [Thread -> Nat] /\ killed \in BOOLEAN
  /\ program # "freqsyscall" \/ MaxLoop < parts => \A t \in Thread : pages[t] = 0
  /\ killed => program = "freqsyscall" /\ MaxLoop < parts /\ mainPc \in {"create", "join"}
  /\ program = "freqsyscall" /\ MaxLoop < parts /\ ~killed => \A t \in Thread : iter[t] = 0
  /\ program = "freqsyscall" /\ parts <= MaxLoop =>
       \A t \in Thread : (pages[t] - 1) * Every < iter[t] /\ iter[t] <= pages[t] * Every

\* The file is unmapped, and removed, by the last step of main() and no other.
MapInv == linked = mapped /\ (~mapped => program = "mmaptmpfile" /\ mainPc = "done")

VariantsInv ==
  /\ program \in {"nobarrier", "freqsyscall", "mmaptmpfile", "forkmmap", "readfile"}
  /\ program = "nobarrier" => FreeInv /\ MainInv
  /\ program = "forkmmap" => FreeInv /\ ForkInv
  /\ program \in {"freqsyscall", "mmaptmpfile"} => IInv
  /\ program = "readfile" => ReadInv
  /\ ChunksAreReadOnce
  /\ iter \in [Thread -> 0 .. MaxLoop] /\ offset \in 0 .. FileLen
  /\ PageInv /\ MapInv
-----------------------------------------------------------------------------
\* A loop of at least as many iterations as parts passes fewer than 2 * p - 1
\* multiples of what a part has.
LEMMA PartsBound ==
  ASSUME NEW p \in Nat \ {0}, p <= MaxLoop
  PROVE  /\ MaxLoop \div p \in Nat \ {0}
         /\ MaxLoop <= (2 * p - 1) * (MaxLoop \div p)
<1> DEFINE d == MaxLoop \div p
           r == MaxLoop % p
<1>1. d \in Int /\ r \in 0 .. p - 1 /\ MaxLoop = p * d + r
  BY MainAssumption
<1> HIDE DEF d, r
<1>2. d >= 1
  <2>1. ASSUME d <= 0 PROVE p * d <= 0
    BY <1>1, <2>1
  <2> QED
    BY <1>1, <2>1, MainAssumption
<1>3. (p - 1) * d >= p - 1
  <2>1. (p - 1) * (d - 1) >= 0
    BY <1>1, <1>2
  <2> QED
    BY <1>1, <2>1
<1>4. (2 * p - 1) * d = p * d + (p - 1) * d
  BY <1>1
<1>5. MaxLoop <= (2 * p - 1) * d
  BY <1>1, <1>3, <1>4
<1> QED
  BY <1>1, <1>2, <1>5 DEF d

\* A shorter loop has parts of no iteration: the division by 0.
LEMMA NoPart ==
  ASSUME NEW p \in Nat \ {0}, MaxLoop < p
  PROVE  MaxLoop \div p = 0
  BY MainAssumption

\* Between two multiples of d only the upper one is divided by d.
LEMMA Multiple ==
  ASSUME NEW d \in Nat \ {0}, NEW p \in Nat, NEW i \in Nat, (p - 1) * d < i, i <= p * d
  PROVE  i % d = 0 <=> i = p * d
<1> DEFINE q == i \div d
           r == i % d
<1>1. q \in Int /\ r \in 0 .. d - 1 /\ i = d * q + r
  OBVIOUS
<1> HIDE DEF q, r
<1>2. d * (p - q) = p * d - i + r
  BY <1>1
<1>3. ASSUME r = 0 PROVE i = p * d
  <2>1. d * (p - q) >= 0 /\ d * (p - q) < d
    BY <1>1, <1>2, <1>3
  <2>2. ~(p - q >= 1)
    <3>1. ASSUME p - q >= 1 PROVE d * (p - q) >= d
      BY <1>1, <3>1
    <3> QED BY <2>1, <3>1, <1>1
  <2>3. ~(p - q <= -1)
    <3>1. ASSUME p - q <= -1 PROVE d * (p - q) <= -d
      BY <1>1, <3>1
    <3> QED BY <2>1, <3>1, <1>1
  <2>4. p = q
    BY <1>1, <2>2, <2>3
  <2> QED
    BY <1>1, <1>3, <2>4
<1>4. ASSUME i = p * d PROVE r = 0
  <2>1. d * (p - q) = r
    BY <1>1, <1>2, <1>4
  <2>2. ~(p - q >= 1)
    <3>1. ASSUME p - q >= 1 PROVE d * (p - q) >= d
      BY <1>1, <3>1
    <3> QED BY <2>1, <3>1, <1>1
  <2>3. ~(p - q <= -1)
    <3>1. ASSUME p - q <= -1 PROVE d * (p - q) <= -d
      BY <1>1, <3>1
    <3> QED BY <2>1, <3>1, <1>1
  <2>4. p = q
    BY <1>1, <2>2, <2>3
  <2> QED
    BY <1>1, <2>1, <2>4
<1> QED
  BY <1>3, <1>4 DEF r

\* The function that adds up the pages of the first n threads.
Sums(n, f) == f = [t \in 0 .. n |-> IF t = 0 THEN 0 ELSE pages[t] + f[t - 1]]

\* Such a function exists for every n, as the fold of sig[] does.
LEMMA SumExists ==
  ASSUME NEW n \in Nat
  PROVE  \E f : Sums(n, f)
<1> DEFINE S == {k \in Nat : \E f : Sums(k, f)}
<1>1. 0 \in S
  <2>1. Sums(0, [t \in 0 .. 0 |-> 0])
    BY DEF Sums
  <2> QED
    BY <2>1
<1>2. ASSUME NEW k \in Nat, k \in S
      PROVE  k + 1 \in S
  <2>1. PICK f : Sums(k, f)
    BY <1>2
  <2> DEFINE g == [t \in 0 .. k + 1 |-> IF t = k + 1 THEN pages[t] + f[k] ELSE f[t]]
  <2>2. Sums(k + 1, g)
    BY <2>1 DEF Sums
  <2> QED
    BY <2>2
<1> HIDE DEF S
<1>3. n \in S
  BY <1>1, <1>2, SetInduction
<1> QED
  BY <1>3 DEF S

\* If no thread has mapped more than k pages and one has mapped fewer, then all of
\* them together have mapped fewer than k times as many as there are threads.
LEMMA PagesBelow ==
  ASSUME pages \in [Thread -> Nat], NEW k \in Nat, \A t \in Thread : pages[t] <= k,
         NEW t0 \in Thread, pages[t0] < k
  PROVE  AllPages \in Nat /\ AllPages < NumProcs * k
<1> DEFINE sum == CHOOSE f : Sums(NumProcs, f)
<1>1. Sums(NumProcs, sum)
  BY SumExists, MainAssumption
<1>2. AllPages = sum[NumProcs]
  BY DEF AllPages, Sums
<1> HIDE DEF sum
<1> DEFINE S == {n \in Nat : n <= NumProcs =>
                   sum[n] \in Nat /\ sum[n] <= n * k /\ (t0 <= n => sum[n] < n * k)}
<1>3. 0 \in S
  BY <1>1, MainAssumption DEF Sums, Thread
<1>4. ASSUME NEW n \in Nat, n \in S
      PROVE  n + 1 \in S
  <2> SUFFICES ASSUME n + 1 <= NumProcs
               PROVE  /\ sum[n + 1] \in Nat /\ sum[n + 1] <= (n + 1) * k
                      /\ t0 <= n + 1 => sum[n + 1] < (n + 1) * k
    OBVIOUS
  <2>1. /\ sum[n] \in Nat /\ sum[n] <= n * k
        /\ t0 <= n => sum[n] < n * k
    BY <1>4, MainAssumption
  <2>2. sum[n + 1] = pages[n + 1] + sum[n]
    BY <1>1, MainAssumption DEF Sums
  <2>3. pages[n + 1] \in Nat /\ pages[n + 1] <= k /\ (t0 = n + 1 => pages[n + 1] < k)
    BY MainAssumption DEF Thread
  <2>4. (n + 1) * k = n * k + k /\ n * k \in Nat
    OBVIOUS
  <2>5. t0 \in Nat
    BY DEF Thread
  <2> DEFINE a == n * k
             b == (n + 1) * k
  <2> HIDE DEF a, b
  <2>6. /\ sum[n + 1] \in Nat /\ sum[n + 1] <= b
        /\ t0 <= n + 1 => sum[n + 1] < b
    BY <2>1, <2>2, <2>3, <2>4, <2>5 DEF a, b
  <2> QED
    BY <2>6 DEF b
<1> HIDE DEF S
<1>5. NumProcs \in S
  BY <1>3, <1>4, SetInduction, MainAssumption
<1> QED
  BY <1>2, <1>5, MainAssumption DEF S, Thread
-----------------------------------------------------------------------------
\* Before the first step every program is in the same state.
LEMMA InitVariantsInv == VariantsInit => VariantsInv
<1> SUFFICES ASSUME VariantsInit PROVE VariantsInv
  OBVIOUS
<1> USE DEF VariantsInit, FreqInit, MmapInit, InitMmap, ForkInit, NoBarrierInit
<1>1. IInv
  BY InitIInv
<1>2. ReadInv
  BY InitReadInv
<1>3. /\ pc = [t \in Thread |-> "idle"] /\ iter = [t \in Thread |-> 0]
      /\ mainPc = "create" /\ mainI = 0
  BY DEF Init, MainInit, LoopInit
<1>4. FreeInv
  BY <1>1, <1>3, MainAssumption DEF FreeInv, FreePc, IInv
<1>5. ForkInv
  BY <1>3, MainAssumption DEF ForkInv, Thread
<1>6. PageInv
  <2>1. parts \in Nat \ {0}
    BY FreqAssumption
  <2>2. parts <= MaxLoop => (0 - 1) * Every < 0 /\ 0 <= 0 * Every
    BY <2>1, PartsBound DEF Every
  <2> QED
    BY <1>3, <2>2 DEF PageInv
<1>7. MapInv
  BY DEF MapInv
<1>8. iter \in [Thread -> 0 .. MaxLoop] /\ offset \in 0 .. FileLen
  BY <1>1, <1>2 DEF IInv, TypeOK, LoopTypeOK, ReadInv, Shapes
<1> QED
  BY <1>1, <1>2, <1>4, <1>5, <1>6, <1>7, <1>8 DEF VariantsInv, IInv, ReadInv
-----------------------------------------------------------------------------
\* Without a barrier: a thread or a child that takes a step exists and has not
\* ended, so main() has not its result.
LEMMA BodyFree ==
  ASSUME FreeInv, NEW t \in Thread, NoBarrierBody(t)
  PROVE  /\ FreeInv' /\ UNCHANGED mainVars
         /\ pc[t] \notin {"idle", "exit"} /\ pc'[t] # "idle"
         /\ \A u \in Thread \ {t} : pc'[u] = pc[u]
<1> USE DEF FreeInv, FreePc, LoopPc
<1>1. /\ UNCHANGED mainVars /\ pc[t] \notin {"idle", "exit"}
      /\ \E l \in LoopPc \cup {"exit"} : pc' = [pc EXCEPT ![t] = l]
  BY DEF NoBarrierBody, EnterLoop, LoopStep, LoadFirst, LoadSecond, StoreSecond, LeaveLoop
<1>2. iter' \in [Thread -> 0 .. MaxLoop] /\ LoopInv'
  <2>1. CASE EnterLoop(t)
    BY <2>1 DEF EnterLoop, LoopInv, loopVars
  <2>2. CASE LoadFirst(t)
    BY <2>2 DEF LoadFirst, LoopInv
  <2>3. CASE LoadSecond(t)
    BY <2>3 DEF LoadSecond, LoopInv
  <2>4. CASE StoreSecond(t)
    <3>1. iter[t] < MaxLoop /\ iter[t] \in 0 .. MaxLoop
      BY <2>4 DEF StoreSecond, LoopInv
    <3> QED
      BY <2>4, <3>1, MainAssumption DEF StoreSecond, LoopInv
  <2>5. CASE LeaveLoop(t)
    BY <2>5 DEF LeaveLoop, LoopInv, loopVars
  <2> QED
    BY <2>1, <2>2, <2>3, <2>4, <2>5 DEF NoBarrierBody, LoopStep
<1>3. SignatureIsFinal'
  BY <1>1 DEF SignatureIsFinal, mainVars
<1>4. FreeInv'
  BY <1>1, <1>2, <1>3 DEF mainVars
<1> QED
  BY <1>1, <1>4

\* racey-nobarrier: main() is that of the other threaded programs.
LEMMA NoBarrierStepInv ==
  ASSUME FreeInv, MainInv, NoBarrierMain \/ \E t \in Thread : NoBarrierBody(t)
  PROVE  FreeInv' /\ MainInv'
<1>1. CASE NoBarrierMain
  <2> USE DEF FreeInv, FreePc, MainInv, NoBarrierMain, loopVars
  <2>1. CASE CreateThread
    <3> DEFINE t == mainI + 1
    <3>1. t \in Thread /\ pc[t] = "idle" /\ pc' = [pc EXCEPT ![t] = "start"]
      BY <2>1, MainAssumption DEF CreateThread, Thread
    <3>2. LoopInv' /\ SignatureIsFinal'
      BY <1>1, <2>1, <3>1 DEF CreateThread, LoopInv, SignatureIsFinal
    <3>3. FreeInv'
      BY <1>1, <2>1, <3>1, <3>2, MainAssumption DEF CreateThread
    <3>4. MainInv'
      <4>1. CASE t < NumProcs
        BY <2>1, <3>1, <4>1 DEF CreateThread, Thread
      <4>2. CASE ~(t < NumProcs)
        BY <2>1, <3>1, <4>2, MainAssumption DEF CreateThread, Thread
      <4> QED
        BY <4>1, <4>2
    <3> QED
      BY <3>3, <3>4
  <2>2. CASE JoinThread
    <3>1. LoopInv' /\ SignatureIsFinal'
      BY <1>1, <2>2 DEF JoinThread, LoopInv, SignatureIsFinal
    <3> QED
      BY <1>1, <2>2, <3>1, MainAssumption DEF JoinThread, Thread
  <2>3. CASE ComputeResult
    <3>1. LoopInv' /\ SignatureIsFinal'
      BY <1>1, <2>3 DEF ComputeResult, LoopInv, SignatureIsFinal
    <3> QED
      BY <1>1, <2>3, <3>1 DEF ComputeResult
  <2> QED
    BY <1>1, <2>1, <2>2, <2>3 DEF MainStep
<1>2. ASSUME NEW t \in Thread, NoBarrierBody(t)
      PROVE  FreeInv' /\ MainInv'
  BY <1>2, BodyFree DEF MainInv, mainVars
<1> QED
  BY <1>1, <1>2

\* racey-forkmmap: every wait() returns a child that no wait() has returned before,
\* so as many waits as forks return them all.
LEMMA ForkStepInv ==
  ASSUME FreeInv, ForkInv, ForkMain \/ \E t \in Thread : ChildProcess(t)
  PROVE  FreeInv' /\ ForkInv'
<1> USE DEF FreeInv, FreePc, ForkInv, loopVars
<1>0. IsFiniteSet(Thread) /\ Cardinality(Thread) = NumProcs
  BY FS_Interval, MainAssumption DEF Thread
<1>1. CASE Fork
  <2> DEFINE t == mainI + 1
  <2>1. t \in Thread /\ pc[t] = "idle" /\ pc' = [pc EXCEPT ![t] = "start"]
    BY <1>1, MainAssumption DEF Fork, CreateThread, Thread
  <2>2. LoopInv' /\ SignatureIsFinal'
    BY <1>1, <2>1 DEF Fork, CreateThread, LoopInv, SignatureIsFinal
  <2>3. FreeInv'
    BY <1>1, <2>1, <2>2, MainAssumption DEF Fork, CreateThread
  <2>4. reaped' = {} /\ Cardinality({}) = 0
    BY <1>1, FS_EmptySet DEF Fork, CreateThread
  <2>5. ForkInv'
    <3>1. CASE t < NumProcs
      BY <1>1, <2>1, <2>4, <3>1 DEF Fork, CreateThread, Thread
    <3>2. CASE ~(t < NumProcs)
      <4>1. mainI' = 0 /\ mainPc' = "join"
        BY <1>1, <3>2 DEF Fork, CreateThread
      <4>2. \A u \in Thread : pc'[u] # "idle"
        BY <1>1, <2>1, <3>2, MainAssumption DEF Fork, CreateThread, Thread
      <4> QED
        BY <2>4, <4>1, <4>2, MainAssumption
    <3> QED
      BY <3>1, <3>2
  <2> QED
    BY <2>3, <2>5
<1>2. CASE ForkFails
  <2>1. LoopInv' /\ SignatureIsFinal'
    BY <1>2 DEF ForkFails, LoopInv, SignatureIsFinal
  <2> QED
    BY <1>2, <2>1 DEF ForkFails
<1>3. CASE Wait
  <2>1. PICK t \in Thread \ reaped : pc[t] = "exit" /\ reaped' = reaped \cup {t}
    BY <1>3 DEF Wait
  <2>2. IsFiniteSet(reaped) /\ reaped' \subseteq Thread
    BY <1>0, <2>1, FS_Subset
  <2>3. Cardinality(reaped') = mainI + 1
    BY <1>3, <2>1, <2>2, FS_AddElement DEF Wait
  <2>4. mainI + 1 = NumProcs => reaped' = Thread
    BY <1>0, <2>2, <2>3, FS_Subset
  <2>5. mainI' = mainI + 1 /\ mainI + 1 <= NumProcs /\ UNCHANGED <<pc, iter>>
    BY <1>3, MainAssumption DEF Wait
  <2>6. LoopInv' /\ SignatureIsFinal'
    BY <1>3, <2>5 DEF Wait, LoopInv, SignatureIsFinal
  <2>7. FreeInv'
    BY <1>3, <2>5, <2>6, MainAssumption DEF Wait
  <2>8. ForkInv'
    <3>1. CASE mainI + 1 < NumProcs
      BY <1>3, <2>1, <2>3, <2>5, <3>1 DEF Wait
    <3>2. CASE mainI + 1 = NumProcs
      BY <1>3, <2>1, <2>4, <2>5, <3>2 DEF Wait
    <3> QED
      BY <2>5, <3>1, <3>2, MainAssumption
  <2> QED
    BY <2>7, <2>8
<1>4. CASE ComputeResult /\ UNCHANGED <<loopVars, reaped>>
  <2>1. LoopInv' /\ SignatureIsFinal'
    <3>1. \A t \in Thread : pc[t] = "exit" /\ iter[t] = MaxLoop
      BY <1>4 DEF ComputeResult, LoopInv
    <3> QED
      BY <1>4, <3>1 DEF ComputeResult, LoopInv, SignatureIsFinal
  <2> QED
    BY <1>4, <2>1 DEF ComputeResult
<1>5. ASSUME NEW t \in Thread, ChildProcess(t)
      PROVE  FreeInv' /\ ForkInv'
  <2>1. /\ FreeInv' /\ UNCHANGED <<mainVars, reaped>>
        /\ pc[t] \notin {"idle", "exit"} /\ pc'[t] # "idle"
        /\ \A u \in Thread \ {t} : pc'[u] = pc[u]
    BY <1>5, BodyFree DEF ChildProcess
  <2>2. ForkInv'
    BY <2>1 DEF mainVars
  <2> QED
    BY <2>1, <2>2
<1> QED
  BY <1>1, <1>2, <1>3, <1>4, <1>5 DEF ForkMain
-----------------------------------------------------------------------------
\* A stutter or a step that leaves the loops alone.
LEMMA SamePages ==
  ASSUME PageInv, UNCHANGED <<freqVars, iter, program>>, killed => UNCHANGED mainPc
  PROVE  PageInv'
  BY DEF PageInv, Every, freqVars

\* A step of a program that has no pages changes nothing about them.
LEMMA NoPages ==
  ASSUME PageInv, program # "freqsyscall", UNCHANGED <<freqVars, program>>
  PROVE  PageInv'
  BY DEF PageInv, freqVars

\* An iteration of racey-freqsyscall divides by 0, or maps a page that still fits,
\* because this thread at least has not mapped its last.
LEMMA MapPageInv ==
  ASSUME PageInv, IInv, program = "freqsyscall", ~killed, UNCHANGED program,
         NEW t \in Thread, StoreSecond(t), MapPage(t)
  PROVE  PageInv'
<1>1. /\ parts \in Nat \ {0} /\ parts \in PartsSet
      /\ pages \in [Thread -> Nat] /\ iter \in [Thread -> 0 .. MaxLoop]
  BY FreqAssumption DEF PageInv, IInv, TypeOK, LoopTypeOK
<1>2. /\ pc[t] = "store" /\ iter[t] \in Nat /\ iter[t] < MaxLoop /\ UNCHANGED mainPc
      /\ iter' = [iter EXCEPT ![t] = @ + 1]
  BY <1>1, MainAssumption DEF StoreSecond, mainVars, IInv, LoopInv
<1>3. mainPc \in {"create", "join"}
  BY <1>2 DEF IInv, TypeOK, MainTypeOK, MainInv
<1>4. CASE MaxLoop < parts
  <2>1. MaxLoop \div parts = 0
    BY <1>1, <1>4, NoPart
  <2>2. killed' = TRUE /\ UNCHANGED <<parts, pages>>
    BY <2>1 DEF MapPage
  <2> QED
    BY <1>1, <1>2, <1>3, <1>4, <2>2, MainAssumption DEF PageInv
<1>5. CASE parts <= MaxLoop
  <2>1. Every \in Nat \ {0} /\ MaxLoop <= (2 * parts - 1) * Every /\ Every' = MaxLoop \div parts'
    BY <1>1, <1>5, PartsBound DEF Every
  <2>2. \A u \in Thread : (pages[u] - 1) * Every < iter[u] /\ iter[u] <= pages[u] * Every
    BY <1>5 DEF PageInv
  <2>3. iter[t] % Every = 0 <=> iter[t] = pages[t] * Every
    <3>1. pages[t] \in Nat
      BY <1>1
    <3> QED
      BY <1>2, <2>1, <2>2, <3>1, Multiple
  <2>4. \A u \in Thread : pages[u] <= 2 * parts - 1
    <3>1. SUFFICES ASSUME NEW u \in Thread, pages[u] >= 2 * parts PROVE FALSE
      BY <1>1
    <3>2. iter[u] \in Nat /\ pages[u] \in Nat /\ iter[u] <= MaxLoop
      BY <1>1, MainAssumption
    <3>3. (pages[u] - 1) * Every >= (2 * parts - 1) * Every
      BY <1>1, <2>1, <3>1, <3>2
    <3>4. (pages[u] - 1) * Every \in Int /\ (2 * parts - 1) * Every \in Int
      BY <1>1, <2>1, <3>2
    <3> DEFINE a == (pages[u] - 1) * Every
               b == (2 * parts - 1) * Every
    <3>5. a >= b /\ a \in Int /\ b \in Int /\ a < iter[u] /\ MaxLoop <= b
      BY <2>1, <2>2, <3>3, <3>4
    <3> HIDE DEF a, b
    <3> QED
      BY <3>2, <3>5, MainAssumption
  <2>5. CASE iter[t] = pages[t] * Every
    <3>1. pages' = [pages EXCEPT ![t] = @ + 1] /\ killed' = (AllPages >= MaxMaps) /\ UNCHANGED parts
      BY <2>1, <2>3, <2>5 DEF MapPage, Every
    <3>2. pages[t] < 2 * parts - 1
      <4>1. pages[t] # 2 * parts - 1
        BY <1>2, <2>1, <2>5, MainAssumption
      <4> QED
        BY <1>1, <2>4, <4>1
    <3>3. AllPages \in Nat /\ AllPages < NumProcs * (2 * parts - 1)
      <4> DEFINE k == 2 * parts - 1
      <4>1. k \in Nat /\ pages[t] < k /\ \A u \in Thread : pages[u] <= k
        BY <1>1, <2>4, <3>2
      <4> HIDE DEF k
      <4>2. AllPages \in Nat /\ AllPages < NumProcs * k
        BY <1>1, <4>1, PagesBelow
      <4> QED
        BY <4>2 DEF k
    <3>4. NumProcs * (2 * parts - 1) <= MaxMaps /\ MaxMaps \in Nat
      BY <1>1, <1>5, FreqAssumption
    <3>5. ~killed' /\ killed' \in BOOLEAN
      <4> DEFINE k == NumProcs * (2 * parts - 1)
      <4>1. k \in Int
        BY <1>1, MainAssumption
      <4> HIDE DEF k
      <4>2. AllPages < k /\ k <= MaxMaps
        BY <3>3, <3>4 DEF k
      <4>3. ~(AllPages >= MaxMaps)
        BY <3>3, <3>4, <4>1, <4>2
      <4> DEFINE full == AllPages >= MaxMaps
      <4>4. killed' = full /\ ~full
        BY <3>1, <4>3
      <4>5. full \in BOOLEAN
        BY <3>3, <3>4
      <4> HIDE DEF full
      <4> QED
        BY <4>4, <4>5
    <3>6. \A u \in Thread : (pages'[u] - 1) * Every < iter'[u] /\ iter'[u] <= pages'[u] * Every
      <4>1. pages'[t] = pages[t] + 1 /\ iter'[t] = iter[t] + 1 /\ pages[t] \in Nat
        BY <1>1, <1>2, <3>1
      <4>2. (pages'[t] - 1) * Every < iter'[t] /\ iter'[t] <= pages'[t] * Every
        <5>1. (pages[t] + 1) * Every = pages[t] * Every + Every
          BY <2>1, <4>1
        <5>2. pages'[t] - 1 = pages[t]
          BY <4>1
        <5>3. (pages'[t] - 1) * Every = iter[t] /\ pages'[t] * Every = iter[t] + Every
          BY <2>5, <4>1, <5>1, <5>2
        <5> QED
          BY <1>2, <2>1, <4>1, <5>3
      <4>3. \A u \in Thread \ {t} : pages'[u] = pages[u] /\ iter'[u] = iter[u]
        BY <1>1, <1>2, <3>1
      <4> QED
        BY <2>2, <4>2, <4>3, Zenon
    <3>7. pages' \in [Thread -> Nat]
      BY <1>1, <3>1
    <3>8. Every' = Every
      BY <3>1 DEF Every
    <3> QED
      BY <1>1, <1>5, <3>1, <3>5, <3>6, <3>7, <3>8, MainAssumption DEF PageInv
  <2>6. CASE iter[t] # pages[t] * Every
    <3>1. UNCHANGED freqVars
      BY <2>1, <2>3, <2>6 DEF MapPage, Every
    <3>2. iter'[t] = iter[t] + 1 /\ \A u \in Thread \ {t} : iter'[u] = iter[u]
      BY <1>1, <1>2
    <3>3. \A u \in Thread : (pages[u] - 1) * Every < iter'[u] /\ iter'[u] <= pages[u] * Every
      <4>1. pages[t] * Every \in Int /\ (pages[t] - 1) * Every \in Int
        BY <1>1, <2>1
      <4> DEFINE a == (pages[t] - 1) * Every
                 b == pages[t] * Every
      <4>2. a < iter[t] /\ iter[t] <= b /\ iter[t] # b
        BY <2>2, <2>6
      <4> HIDE DEF a, b
      <4>3. a < iter'[t] /\ iter'[t] <= b
        BY <1>2, <3>2, <4>1, <4>2 DEF a, b
      <4> QED
        BY <2>2, <3>2, <4>3 DEF a, b
    <3>4. Every' = Every
      BY <3>1 DEF Every, freqVars
    <3> QED
      BY <1>1, <1>2, <1>5, <3>1, <3>3, <3>4, MainAssumption DEF PageInv, freqVars
  <2> QED
    BY <2>5, <2>6
<1> QED
  BY <1>1, <1>4, <1>5, MainAssumption

\* racey-freqsyscall: the steps of racey-basic, and the pages.
LEMMA FreqStepInv ==
  ASSUME IInv, PageInv, program = "freqsyscall", ~killed, UNCHANGED program,
         FreqMain \/ \E t \in Thread : FreqBody(t)
  PROVE  IInv' /\ PageInv'
<1>1. CASE FreqMain
  <2>1. MainStep /\ UNCHANGED <<loopVars, barrierVars, freqVars>>
    BY <1>1 DEF FreqMain, main
  <2>2. IInv'
    BY <2>1, MainStepIInv
  <2>3. PageInv'
    BY <2>1, SamePages DEF loopVars, freqVars
  <2> QED
    BY <2>2, <2>3
<1>2. ASSUME NEW t \in Thread, FreqBody(t)
      PROVE  IInv' /\ PageInv'
  <2>1. CASE BarrierStep(t) /\ UNCHANGED freqVars
    <3>1. UNCHANGED <<iter, mainPc>>
      BY <2>1 DEF BarrierStep, AcquireLock, LoadCounter, StoreCounter, ReleaseLock, LeaveSpin,
         loopVars, mainVars
    <3> QED
      BY <2>1, <3>1, BarrierStepIInv, SamePages
  <2>2. CASE (LoadFirst(t) \/ LoadSecond(t) \/ LeaveLoop(t)) /\ UNCHANGED <<barrierVars, freqVars>>
    <3>1. UNCHANGED <<iter, mainPc>>
      BY <2>2 DEF LoadFirst, LoadSecond, LeaveLoop, loopVars, mainVars
    <3>2. IInv'
      BY <2>2, LoopStepIInv DEF LoopStep
    <3> QED
      BY <2>2, <3>1, <3>2, SamePages
  <2>3. CASE StoreSecond(t) /\ MapPage(t) /\ UNCHANGED barrierVars
    <3>1. IInv'
      BY <2>3, LoopStepIInv DEF LoopStep
    <3> QED
      BY <2>3, <3>1, MapPageInv
  <2> QED
    BY <1>2, <2>1, <2>2, <2>3 DEF FreqBody
<1> QED
  BY <1>1, <1>2

\* racey-mmaptmpfile: when the file is unmapped everyone has returned.
LEMMA MmapStepInv ==
  ASSUME IInv, MapInv, program = "mmaptmpfile", UNCHANGED program,
         MmapMain \/ \E t \in Thread : MmapBody(t)
  PROVE  IInv' /\ MapInv'
<1>1. CASE main /\ UNCHANGED fileVars
  <2>1. IInv'
    BY <1>1, MainStepIInv DEF main
  <2>2. MapInv'
    BY <1>1 DEF MapInv, main, MainStep, CreateThread, JoinThread, ComputeResult, fileVars
  <2> QED
    BY <2>1, <2>2
<1>2. CASE CloseMmap
  BY <1>2, StutterIInv DEF CloseMmap, MapInv, vars, mainVars
<1>3. ASSUME NEW t \in Thread, MmapBody(t)
      PROVE  IInv' /\ MapInv'
  <2>1. UNCHANGED <<fileVars, mainVars>>
    BY <1>3 DEF MmapBody, ThreadBody, BarrierStep, AcquireLock, LoadCounter, StoreCounter,
       ReleaseLock, LeaveSpin, LoopStep, LoadFirst, LoadSecond, StoreSecond, LeaveLoop
  <2>2. IInv'
    BY <1>3, BarrierStepIInv, LoopStepIInv DEF MmapBody, ThreadBody
  <2> QED
    BY <2>1, <2>2 DEF MapInv, fileVars, mainVars
<1> QED
  BY <1>1, <1>2, <1>3 DEF MmapMain
\* racey-readfile: see the invariant of its own specification.
LEMMA ReadStepInv ==
  ASSUME ReadInv, ReadFileMain \/ \E t \in Thread : ReadFileBody(t)
  PROVE  ReadInv'
  BY MainStepReadInv, ReadChunkReadInv, ThreadReadInv DEF ReadFileBody

\* What a program leaves alone keeps its part of the invariant.
LEMMA OthersKept ==
  ASSUME VariantsInv, UNCHANGED program
  PROVE  /\ UNCHANGED readVars => ChunksAreReadOnce' /\ offset' \in 0 .. FileLen
         /\ UNCHANGED freqVars /\ program # "freqsyscall" => PageInv'
         /\ UNCHANGED fileVars /\ program # "mmaptmpfile" => MapInv'
  BY NoPages DEF VariantsInv, ChunksAreReadOnce, readVars, MapInv, fileVars

\* The types of the counters, by the invariant of the program that changes them.
LEMMA CountersTyped ==
  /\ FreeInv' \/ IInv' => iter' \in [Thread -> 0 .. MaxLoop]
  /\ ReadInv' => offset' \in 0 .. FileLen
  BY DEF FreeInv, IInv, TypeOK, LoopTypeOK, ReadInv, Shapes

LEMMA StepVariantsInv ==
  ASSUME VariantsInv, [VariantsNext]_allVars
  PROVE  VariantsInv'
<1> USE DEF VariantsInv
<1>1. CASE NoBarrier(NoBarrierMain) \/ \E t \in Thread : NoBarrier(NoBarrierBody(t))
  <2>1. /\ program = "nobarrier" /\ UNCHANGED <<freqVars, fileVars, readVars, program>>
        /\ NoBarrierMain \/ \E t \in Thread : NoBarrierBody(t)
    BY <1>1 DEF NoBarrier
  <2> QED
    BY <2>1, NoBarrierStepInv, OthersKept, CountersTyped
<1>2. CASE FreqSyscall(FreqMain) \/ \E t \in Thread : FreqSyscall(FreqBody(t))
  <2>1. /\ program = "freqsyscall" /\ ~killed /\ UNCHANGED <<fileVars, readVars, program>>
        /\ FreqMain \/ \E t \in Thread : FreqBody(t)
    BY <1>2 DEF FreqSyscall
  <2> QED
    BY <2>1, FreqStepInv, OthersKept, CountersTyped
<1>3. CASE MmapFile(MmapMain) \/ \E t \in Thread : MmapFile(MmapBody(t))
  <2>1. /\ program = "mmaptmpfile" /\ UNCHANGED <<freqVars, readVars, program>>
        /\ MmapMain \/ \E t \in Thread : MmapBody(t)
    BY <1>3 DEF MmapFile
  <2> QED
    BY <2>1, MmapStepInv, OthersKept, CountersTyped
<1>4. CASE ForkMmap(ForkMain) \/ \E t \in Thread : ForkMmap(ChildProcess(t))
  <2>1. /\ program = "forkmmap" /\ UNCHANGED <<freqVars, fileVars, readVars, program>>
        /\ ForkMain \/ \E t \in Thread : ChildProcess(t)
    BY <1>4 DEF ForkMmap
  <2> QED
    BY <2>1, ForkStepInv, OthersKept, CountersTyped
<1>5. CASE ReadFile(ReadFileMain) \/ \E t \in Thread : ReadFile(ReadFileBody(t))
  <2>1. /\ program = "readfile" /\ UNCHANGED <<loopVars, freqVars, fileVars, program>>
        /\ ReadFileMain \/ \E t \in Thread : ReadFileBody(t)
    BY <1>5 DEF ReadFile
  <2>2. UNCHANGED iter
    BY <2>1 DEF loopVars
  <2> QED
    BY <2>1, <2>2, ReadStepInv, OthersKept, CountersTyped DEF ReadInv
<1>6. CASE UNCHANGED allVars
  <2>1. UNCHANGED <<vars, freqVars, fileVars, reaped, readVars, program>>
    BY <1>6 DEF allVars
  <2>2. ChunksAreReadOnce' /\ MapInv' /\ UNCHANGED <<iter, offset>>
    BY <2>1 DEF ChunksAreReadOnce, readVars, MapInv, fileVars, vars, mainVars, loopVars
  <2>3. IInv => IInv'
    BY <2>1, StutterIInv
  <2>4. ReadInv => ReadInv'
    BY <2>1, StutterReadInv DEF vars, readFileVars
  <2>5. PageInv'
    BY <2>1, SamePages DEF vars, mainVars, loopVars
  <2>6. (FreeInv => FreeInv') /\ (MainInv => MainInv') /\ (ForkInv => ForkInv')
    BY <2>1 DEF FreeInv, LoopInv, SignatureIsFinal, MainInv, ForkInv, vars, mainVars, loopVars
  <2> QED
    BY <2>1, <2>2, <2>3, <2>4, <2>5, <2>6
<1> QED
  BY <1>1, <1>2, <1>3, <1>4, <1>5, <1>6 DEF VariantsNext, Main, Body

\* What the invariant says of faults.
LEMMA VariantsInvFaultFree == VariantsInv => NobodyFaults
<1> SUFFICES ASSUME VariantsInv PROVE NobodyFaults
  OBVIOUS
<1> USE DEF VariantsInv
<1>1. parts \in Nat \ {0} /\ pages \in [Thread -> Nat]
  BY FreqAssumption DEF PageInv
<1>2. killed => MaxLoop < parts
  BY DEF PageInv
<1>3. ASSUME program = "freqsyscall", mainPc = "done", MaxLoop < parts
      PROVE  FALSE
  <2>1. \A t \in Thread : iter[t] = 0 /\ iter[t] = MaxLoop
    BY <1>3 DEF PageInv, IInv, SignatureIsFinal
  <2>2. 1 \in Thread
    BY MainAssumption DEF Thread
  <2> QED
    BY <2>1, <2>2, MainAssumption
<1>4. \A t \in Thread : pages[t] <= MostPages
  <2>1. CASE program # "freqsyscall" \/ MaxLoop < parts
    BY <1>1, <2>1 DEF PageInv, MostPages
  <2>2. CASE program = "freqsyscall" /\ parts <= MaxLoop
    <3>1. SUFFICES ASSUME NEW t \in Thread, pages[t] >= 2 * parts PROVE FALSE
      BY <1>1 DEF MostPages
    <3>2. iter[t] \in 0 .. MaxLoop /\ pages[t] \in Nat
      BY <1>1, <2>2 DEF IInv, TypeOK, LoopTypeOK
    <3> DEFINE a == (pages[t] - 1) * Every
               b == (2 * parts - 1) * Every
    <3>3. Every \in Nat \ {0} /\ MaxLoop <= b
      BY <1>1, <2>2, PartsBound DEF Every
    <3>4. a >= b /\ a \in Int /\ b \in Int
      BY <1>1, <3>1, <3>2, <3>3
    <3>5. a < iter[t]
      BY <2>2 DEF PageInv
    <3> HIDE DEF a, b
    <3> QED
      BY <3>2, <3>3, <3>4, <3>5, MainAssumption
  <2> QED
    BY <1>1, <2>1, <2>2, MainAssumption
<1>5. ~mapped => ~UsesSig
  BY DEF MapInv, IInv, MainInv, UsesSig, LoopPc
<1> QED
  BY <1>1, <1>2, <1>3, <1>4, <1>5, MainAssumption DEF NobodyFaults

\* The inductive invariant of the programs together: each keeps its own part and
\* leaves the others' alone.
THEOREM VariantsInvariant == VariantsSpec => []VariantsInv
<1>1. VariantsInv /\ [VariantsNext]_allVars => VariantsInv'
  BY StepVariantsInv
<1> QED
  BY <1>1, InitVariantsInv, PTL DEF VariantsSpec

\* Whatever program runs, main() folds sig[] when nobody can change it any more:
\* racey-forkmmap too, which waits for as many children as it has forked without
\* asking which (racey-forkmmap.c:166-175).
THEOREM VariantsSignatureIsFinal == VariantsSpec => []EverySignatureIsFinal
<1>1. VariantsInv => EverySignatureIsFinal
  BY DEF VariantsInv, EverySignatureIsFinal, IInv, FreeInv, ReadInv
<1> QED
  BY <1>1, VariantsInvariant, PTL

\* Only racey-freqsyscall faults, and only with MaxLoop < 200 (racey-freqsyscall.c:99):
\* with more its pages fit, because no thread passes more than 399 multiples, and
\* racey-mmaptmpfile unmaps sig[] when nobody uses it any more.
THEOREM VariantsFaultFree == VariantsSpec => []NobodyFaults
  BY VariantsInvariant, VariantsInvFaultFree, PTL
-----------------------------------------------------------------------------
\* Why every variant ends.

\* t is at a step that it can take: like racey-basic.c, or past the barrier of
\* racey-readfile.c, or without a barrier.
VariantRunnable(t) ==
  /\ pc[t] \notin {"idle", "exit"}
  /\ program \in {"freqsyscall", "mmaptmpfile"} => Runnable(t)
  /\ pc[t] = "wait" => \A u \in Thread : pc[u] \notin {"idle", "start"}

\* main() can take a step: racey-forkmmap.c waits for any child that no wait() has
\* returned so far, racey-mmaptmpfile.c has its file to remove.
VariantMainRuns ==
  IF program = "forkmmap"
    THEN \/ mainPc \in {"create", "result"}
         \/ mainPc = "join" /\ \E t \in Thread \ reaped : pc[t] = "exit"
    ELSE MainRuns \/ (program = "mmaptmpfile" /\ mainPc = "done" /\ mapped)

VariantRuns == Ended \/ VariantMainRuns \/ \E t \in Thread : VariantRunnable(t)

VariantRanksEnd ==
  /\ BasicRanksEnd
  /\ offset \in 0 .. FileLen

\* Nobody goes back, and somebody comes further: a thread, main(), the offset of the
\* file that is read, or the removal of the temporary file.
VariantAdvance ==
  /\ MainRank' >= MainRank /\ \A t \in Thread : Rank(t)' >= Rank(t)
  /\ offset' >= offset /\ (mapped' => mapped)
  /\ \/ MainRank' > MainRank \/ \E t \in Thread : Rank(t)' > Rank(t)
     \/ offset' > offset
     \/ mapped /\ ~mapped'

\* Whoever is not held up by a barrier or a lock goes on, and somebody is not.
LEMMA VariantMoves == VariantsInv => VariantRuns
<1> SUFFICES ASSUME VariantsInv, ~Ended, ~VariantMainRuns,
                    \A t \in Thread : ~VariantRunnable(t)
             PROVE  FALSE
  BY DEF VariantRuns
<1> USE DEF VariantsInv
<1>1. CASE program = "nobarrier"
  <2>1. \A t \in Thread : pc[t] \in {"idle", "exit"}
    BY <1>1 DEF VariantRunnable, FreeInv, FreePc, LoopPc
  <2>2. mainPc # "done" /\ mainPc # "failed"
    BY <1>1, <2>1 DEF Ended
  <2>3. mainPc = "join" /\ pc[mainI + 1] # "exit"
    BY <1>1, <2>2 DEF VariantMainRuns, MainRuns, FreeInv
  <2>4. mainI + 1 \in Thread
    BY <1>1, <2>3, MainAssumption DEF MainInv, FreeInv, Thread
  <2> QED BY <1>1, <2>1, <2>3, <2>4 DEF MainInv
<1>2. CASE program = "forkmmap"
  <2>1. \A t \in Thread : pc[t] \in {"idle", "exit"}
    BY <1>2 DEF VariantRunnable, FreeInv, FreePc, LoopPc
  <2>2. mainPc = "join"
    BY <1>2, <2>1 DEF Ended, VariantMainRuns, FreeInv
  <2>3. \A t \in Thread : pc[t] = "exit"
    BY <1>2, <2>1, <2>2 DEF ForkInv
  <2>4. reaped = Thread
    BY <1>2, <2>2, <2>3 DEF VariantMainRuns, ForkInv
  <2>5. Cardinality(Thread) = NumProcs
    BY FS_Interval, MainAssumption DEF Thread
  <2> QED BY <1>2, <2>2, <2>4, <2>5, MainAssumption DEF ForkInv
<1>3. CASE program \in {"freqsyscall", "mmaptmpfile"}
  <2>1. CASE mainPc = "done"
    BY <1>3, <2>1 DEF Ended, VariantMainRuns, MapInv, IInv, MainInv
  <2>2. CASE mainPc # "done"
    <3>1. (\A t \in Thread : pc[t] # "idle") /\ \E t \in Thread : pc[t] # "exit"
      BY <1>3, <2>2, MainWaits DEF VariantMainRuns, IInv, TypeOK
    <3>2. PICK t \in Thread : Runnable(t)
      BY <1>3, <3>1, SomebodyMoves
    <3> QED BY <1>3, <3>2 DEF VariantRunnable, Runnable, IInv, TypeOK, BeforeDecrement, LoopPc
  <2> QED BY <2>1, <2>2
<1>4. CASE program = "readfile"
  <2>1. mainPc # "done"
    BY <1>4 DEF Ended, ReadInv, MainInv
  <2>2. mainPc = "join" /\ pc[mainI + 1] # "exit"
    BY <1>4, <2>1 DEF VariantMainRuns, MainRuns, ReadInv, Shapes
  <2>3. (\A t \in Thread : pc[t] # "idle") /\ mainI + 1 \in Thread
    BY <1>4, <2>2, MainAssumption DEF MainInv, ReadInv, Shapes, Thread
  <2>4. \A t \in Thread : pc[t] \in {"wait", "exit"}
    BY <1>4, <2>3 DEF VariantRunnable, ReadInv, Shapes
  <2>5. \A t \in Thread : pc[t] # "wait"
    BY <1>4, <2>4 DEF VariantRunnable
  <2> QED BY <2>2, <2>3, <2>4, <2>5
<1> QED BY <1>1, <1>2, <1>3, <1>4

\* What the ranks are made of.
LEMMA VariantTypes ==
  ASSUME VariantsInv
  PROVE  /\ pc \in [Thread -> Labels] /\ iter \in [Thread -> 0 .. MaxLoop]
         /\ mainI \in 0 .. NumProcs /\ offset \in 0 .. FileLen
BY DEF VariantsInv, IInv, TypeOK, MainTypeOK, FreeInv, FreePc, ReadInv, Shapes, Labels, BeforeDecrement, LoopPc

LEMMA VariantRanksBounded == VariantsInv => VariantRanksEnd
<1> SUFFICES ASSUME VariantsInv PROVE VariantRanksEnd
  OBVIOUS
<1>1. MainRank \in 0 .. 2 * NumProcs + 1
  BY VariantTypes, MainRankRange
<1>2. \A t \in Thread : Rank(t) \in 0 .. 9 + 3 * MaxLoop
  BY VariantTypes, RankRange
<1> QED BY <1>1, <1>2, VariantTypes DEF VariantRanksEnd, BasicRanksEnd

\* main(): a fork that fails is its last step, as the printing is.
LEMMA VariantMainFurther ==
  ASSUME VariantsInv, VariantRanksEnd, VariantRanksEnd',
         UNCHANGED <<iter, offset, mapped>>,
         MainStep \/ ForkFails \/ Wait
  PROVE  VariantAdvance
<1> USE DEF VariantsInv
<1>0. /\ mainI \in 0 .. NumProcs /\ pc \in [Thread -> Labels]
      /\ mainPc = "create" => mainI < NumProcs /\ pc[mainI + 1] = "idle"
      /\ mainPc = "join" => mainI < NumProcs
  BY VariantTypes, MainAssumption DEF IInv, ReadInv, MainInv, ForkInv, Thread
<1>1. MainRank' > MainRank
  <2>1. CASE CreateThread
    BY <1>0, <2>1, MainAssumption DEF CreateThread, MainRank
  <2>2. CASE JoinThread \/ Wait
    BY <1>0, <2>2, MainAssumption DEF JoinThread, Wait, MainRank
  <2>3. CASE ComputeResult
    BY <2>3, MainAssumption DEF ComputeResult, MainRank
  <2>4. CASE ForkFails
    BY <1>0, <2>4, MainAssumption DEF ForkFails, MainRank
  <2> QED BY <2>1, <2>2, <2>3, <2>4 DEF MainStep
<1>2. UNCHANGED pc \/ (pc[mainI + 1] = "idle" /\ pc' = [pc EXCEPT ![mainI + 1] = "start"])
  BY <1>0 DEF MainStep, CreateThread, JoinThread, ComputeResult, ForkFails, Wait
<1>3. \A t \in Thread : Rank(t)' >= Rank(t)
  BY <1>2, VariantTypes, CreateFurther
<1> QED BY <1>1, <1>3, MainAssumption, ReadFileAssumption DEF VariantAdvance, VariantRanksEnd, BasicRanksEnd

\* A thread or a child.
LEMMA VariantThreadFurther ==
  ASSUME VariantRanksEnd, VariantRanksEnd', NEW t \in Thread, UNCHANGED <<mainVars, mapped>>,
         \A u \in Thread \ {t} : pc'[u] = pc[u] /\ iter'[u] = iter[u],
         \/ Rank(t)' > Rank(t) /\ UNCHANGED offset
         \/ UNCHANGED <<pc, iter>> /\ offset' > offset
  PROVE  VariantAdvance
<1>1. MainRank' = MainRank /\ \A u \in Thread \ {t} : Rank(u)' = Rank(u)
  BY DEF MainRank, mainVars, Rank
<1>2. Rank(t)' > Rank(t) \/ Rank(t)' = Rank(t)
  BY DEF Rank
<1> QED BY <1>1, <1>2, MainAssumption, ReadFileAssumption DEF VariantAdvance, VariantRanksEnd, BasicRanksEnd

\* A step of racey-readfile.c comes to a later place or reads a chunk.
LEMMA ReadStepFurther ==
  ASSUME ReadInv, pc \in [Thread -> Labels], iter \in [Thread -> 0 .. MaxLoop],
         NEW t \in Thread, ReadFileBody(t), UNCHANGED loopVars
  PROVE  /\ \A u \in Thread \ {t} : pc'[u] = pc[u] /\ iter'[u] = iter[u]
         /\ UNCHANGED mainVars
         /\ \/ Rank(t)' > Rank(t) /\ UNCHANGED offset
            \/ UNCHANGED <<pc, iter>> /\ offset' > offset
<1>1. UNCHANGED mainVars /\ \A u \in Thread \ {t} : pc'[u] = pc[u] /\ iter'[u] = iter[u]
  BY DEF ReadFileBody, Arrive, PassReadBarrier, ReadChunk, ReadNothing, StoreHash, loopVars
<1>2. CASE ReadChunk(t)
  <2>1. offset \in 0 .. FileLen /\ offset < FileLen /\ offset % BufSize = 0 /\ offset' = offset + ChunkLen(offset)
    BY <1>2 DEF ReadChunk, ReadInv, Shapes, OffsetInv
  <2>2. ChunkLen(offset) \in 1 .. BufSize
    BY <2>1, NextOffset
  <2>3. offset' > offset
    BY <2>1, <2>2, ReadFileAssumption
  <2> QED BY <1>1, <1>2, <2>3 DEF ReadChunk, loopVars
<1>3. CASE ~ReadChunk(t)
  <2>1. /\ UNCHANGED <<offset, iter>>
        /\ \/ pc[t] = "start" /\ pc'[t] = "wait"
           \/ pc[t] = "wait" /\ pc'[t] = "read"
           \/ pc[t] = "read" /\ pc'[t] = "store"
           \/ pc[t] = "store" /\ pc'[t] = "exit"
    BY <1>3 DEF ReadFileBody, Arrive, PassReadBarrier, ReadNothing, StoreHash, readVars, loopVars
  <2>2. pc[t] \in Labels /\ pc'[t] \in Labels
    BY <2>1 DEF Labels, BeforeDecrement, LoopPc
  <2>3. Place(pc'[t]) > Place(pc[t])
    BY <2>1 DEF Place
  <2> QED BY <1>1, <2>1, <2>2, <2>3, FurtherOn
<1> QED BY <1>2, <1>3

LEMMA VariantStepAdvances ==
  ASSUME VariantsInv, VariantRanksEnd, VariantRanksEnd', Main \/ \E t \in Thread : Body(t)
  PROVE  VariantAdvance
<1>1. CASE Main
  <2>1. CASE MmapFile(CloseMmap)
    <3>1. mapped /\ ~mapped' /\ UNCHANGED <<pc, mainPc, mainI, iter, offset>>
      BY <2>1 DEF MmapFile, CloseMmap, vars, mainVars, loopVars, readVars
    <3>2. MainRank' = MainRank /\ \A t \in Thread : Rank(t)' = Rank(t)
      BY <3>1 DEF MainRank, Rank
    <3> QED BY <3>1, <3>2, MainAssumption, ReadFileAssumption DEF VariantAdvance, VariantRanksEnd, BasicRanksEnd
  <2>2. CASE ~MmapFile(CloseMmap)
    <3>1. UNCHANGED <<iter, offset, mapped>> /\ (MainStep \/ ForkFails \/ Wait)
      BY <1>1, <2>2
      DEF Main, NoBarrier, NoBarrierMain, FreqSyscall, FreqMain, main, MmapFile, MmapMain, ForkMmap, ForkMain, Fork,
          ForkFails, Wait, ReadFile, ReadFileMain, MainStep, loopVars, fileVars, readVars
    <3> QED BY <3>1, VariantMainFurther
  <2> QED BY <2>1, <2>2
<1>2. ASSUME NEW t \in Thread, Body(t) PROVE VariantAdvance
  <2>0. pc \in [Thread -> Labels] /\ iter \in [Thread -> 0 .. MaxLoop]
    BY VariantTypes
  <2>1. CASE program = "readfile"
    <3>1. ReadFileBody(t) /\ UNCHANGED <<loopVars, mapped>> /\ ReadInv
      BY <1>2, <2>1 DEF Body, ReadFile, NoBarrier, FreqSyscall, MmapFile, ForkMmap, fileVars, VariantsInv
    <3> QED BY <2>0, <3>1, ReadStepFurther, VariantThreadFurther
  <2>2. CASE program # "readfile"
    <3>1. UNCHANGED <<offset, mapped>> /\ (EnterLoop(t) \/ LoopStep(t) \/ BarrierStep(t))
      BY <1>2, <2>2
      DEF Body, ReadFile, NoBarrier, FreqSyscall, MmapFile, ForkMmap, fileVars, readVars, FreqBody, MmapBody,
          ThreadBody, ChildProcess, NoBarrierBody, LoopStep
    <3>2. CASE EnterLoop(t)
      <4>1. /\ UNCHANGED <<mainVars, iter>> /\ pc[t] = "start" /\ pc'[t] = "loop"
            /\ \A u \in Thread \ {t} : pc'[u] = pc[u]
        BY <2>0, <3>2 DEF EnterLoop, loopVars
      <4>2. pc[t] \in Labels /\ pc'[t] \in Labels
        BY <4>1 DEF Labels, BeforeDecrement, LoopPc
      <4>3. Place(pc'[t]) > Place(pc[t])
        BY <4>1 DEF Place
      <4>4. Rank(t)' > Rank(t)
        BY <2>0, <4>1, <4>2, <4>3, FurtherOn
      <4> QED BY <3>1, <4>1, <4>4, VariantThreadFurther
    <3> QED BY <2>0, <3>1, <3>2, LoopStepFurther, BarrierStepFurther, VariantThreadFurther
  <2> QED BY <2>1, <2>2
<1> QED BY <1>1, <1>2

\* No variant deadlocks: until it has ended, some thread or child is not held up by
\* a lock or a barrier, or main() not by a join or a wait() for a child; a fork that
\* fails leaves children behind that still end.
THEOREM VariantsNeverStuck == VariantsSpec => []VariantRuns
  BY VariantsInvariant, VariantMoves, PTL

\* Every step of a variant comes nearer to its end, and none goes back: this is why,
\* with VariantsNeverStuck, every variant ends however it is scheduled, whether
\* reads and forks fail or not.
THEOREM VariantsAdvance == VariantsSpec => []VariantRanksEnd /\ [][VariantAdvance]_allVars
<1>1. VariantsInv /\ VariantRanksEnd /\ VariantRanksEnd' /\ [VariantsNext]_allVars => [VariantAdvance]_allVars
  BY VariantStepAdvances DEF VariantsNext
<1> QED BY <1>1, VariantsInvariant, VariantRanksBounded, PTL DEF VariantsSpec
=============================================================================
