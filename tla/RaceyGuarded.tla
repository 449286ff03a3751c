---------------------------- MODULE RaceyGuarded ----------------------------
(***************************************************************************)
(* racey-guarded.c.  The array m[] is partitioned among NLOCK mutexes:     *)
(* element e is guarded by locks[e % NLOCK].  A thread takes one lock to   *)
(* read its first element, releases it, and takes one (perhaps the same)   *)
(* to read and write its second.  The start barrier is a pthread_barrier_t *)
(* of NumProcs threads.                                                    *)
(*                                                                         *)
(* Between a lock and its unlock the loads and stores of m[] are separate  *)
(* steps, so that what the locks protect can be seen to need protection.   *)
(***************************************************************************)
EXTENDS RaceyMain, FiniteSets

CONSTANT NLock   \* NLOCK, the number of mutexes

ASSUME LockAssumption == NLock \in Nat \ {0}

VARIABLES
  iter,      \* the loop counter i
  num,       \* the local num
  index2,    \* the local index2
  locks      \* locks[l]: the thread holding mutex l, 0 when it is free

localVars == <<iter, num, index2>>
vars == <<pc, m, sig, mainVars, localVars, locks>>

Lock == 0 .. NLock - 1

\* index % NLOCK
LockOf(index) == index % NLock

FirstSection == {"load1", "unlock1"}
SecondSection == {"load2", "store2", "unlock2"}
LoopPc == {"lock1", "lock2", "save"} \cup FirstSection \cup SecondSection

TypeOK ==
  /\ pc \in [Thread -> {"idle", "start", "wait", "exit"} \cup LoopPc]
  /\ MainTypeOK
  /\ iter \in [Thread -> 0 .. MaxLoop]
  /\ num \in [Thread -> Mixed]
  /\ index2 \in [Thread -> Elem]
  /\ locks \in [Lock -> 0 .. NumProcs]

Init ==
  /\ MainInit
  /\ iter = [t \in Thread |-> 0]
  /\ num = [t \in Thread |-> 0]
  /\ index2 = [t \in Thread |-> 0]
  /\ locks = [l \in Lock |-> 0]

\* pthread_barrier_wait(&barrier): a thread arrives, and goes on once all have.
ArriveBarrier(t) ==
  /\ pc[t] = "start"
  /\ pc' = [pc EXCEPT ![t] = "wait"]
  /\ UNCHANGED <<m, sig, locks, mainVars, localVars>>

PassBarrier(t) ==
  /\ pc[t] = "wait"
  /\ \A u \in Thread : pc[u] \notin {"idle", "start"}
  /\ pc' = [pc EXCEPT ![t] = "lock1"]
  /\ UNCHANGED <<m, sig, locks, mainVars, localVars>>

\* Mutant: whoever comes takes the lock.
lockItemUnchecked(t, index) == locks' = [locks EXCEPT ![LockOf(index)] = t]

\* lockItem(index): pthread_mutex_lock(&locks[index % NLOCK])
lockItem(t, index) ==
  /\ locks[LockOf(index)] = 0
  /\ locks' = [locks EXCEPT ![LockOf(index)] = t]

\* unlockItem(index)
unlockItem(index) == locks' = [locks EXCEPT ![LockOf(index)] = 0]

\* Mutant: i <= MaxLoop.
LockFirstOnceMore(t) ==
  /\ pc[t] = "lock1"
  /\ iter[t] <= MaxLoop
  /\ lockItem(t, IndexOf(sig[t]))
  /\ pc' = [pc EXCEPT ![t] = "load1"]
  /\ UNCHANGED <<m, sig, mainVars, localVars>>

\* index1 = num%MAX_ELEM; lockItem(index1)
LockFirst(t) ==
  /\ pc[t] = "lock1"
  /\ iter[t] < MaxLoop
  /\ lockItem(t, IndexOf(sig[t]))
  /\ pc' = [pc EXCEPT ![t] = "load1"]
  /\ UNCHANGED <<m, sig, mainVars, localVars>>

\* num = mix(num, m[index1].value)
ReadFirst(t) ==
  /\ pc[t] = "load1"
  /\ num' = [num EXCEPT ![t] = Mix(sig[t], m[IndexOf(sig[t])])]
  /\ pc' = [pc EXCEPT ![t] = "unlock1"]
  /\ UNCHANGED <<m, sig, iter, index2, locks, mainVars>>

\* Mutant: the first lock is kept while the second is taken.
UnlockFirstNever(t) ==
  /\ pc[t] = "unlock1"
  /\ index2' = [index2 EXCEPT ![t] = IndexOf(num[t])]
  /\ pc' = [pc EXCEPT ![t] = "lock2"]
  /\ UNCHANGED <<m, sig, iter, num, locks, mainVars>>

\* Mutant: the second element is the first one again.
UnlockFirstSameIndex(t) ==
  /\ pc[t] = "unlock1"
  /\ unlockItem(IndexOf(sig[t]))
  /\ index2' = [index2 EXCEPT ![t] = IndexOf(sig[t])]
  /\ pc' = [pc EXCEPT ![t] = "lock2"]
  /\ UNCHANGED <<m, sig, iter, num, mainVars>>

\* unlockItem(index1); index2 = num%MAX_ELEM
UnlockFirst(t) ==
  /\ pc[t] = "unlock1"
  /\ unlockItem(IndexOf(sig[t]))
  /\ index2' = [index2 EXCEPT ![t] = IndexOf(num[t])]
  /\ pc' = [pc EXCEPT ![t] = "lock2"]
  /\ UNCHANGED <<m, sig, iter, num, mainVars>>

\* lockItem(index2)
LockSecond(t) ==
  /\ pc[t] = "lock2"
  /\ lockItem(t, index2[t])
  /\ pc' = [pc EXCEPT ![t] = "load2"]
  /\ UNCHANGED <<m, sig, mainVars, localVars>>

\* num = mix(num, m[index2].value)
ReadSecond(t) ==
  /\ pc[t] = "load2"
  /\ num' = [num EXCEPT ![t] = Mix(num[t], m[index2[t]])]
  /\ pc' = [pc EXCEPT ![t] = "store2"]
  /\ UNCHANGED <<m, sig, iter, index2, locks, mainVars>>

\* m[index2].value = num
WriteSecond(t) ==
  /\ pc[t] = "store2"
  /\ m' = [m EXCEPT ![index2[t]] = num[t]]
  /\ pc' = [pc EXCEPT ![t] = "unlock2"]
  /\ UNCHANGED <<sig, locks, mainVars, localVars>>

\* Mutant: the lock of the new number's element is released, not of index2's.
UnlockSecondByNum(t) ==
  /\ pc[t] = "unlock2"
  /\ unlockItem(IndexOf(num[t]))
  /\ pc' = [pc EXCEPT ![t] = "save"]
  /\ UNCHANGED <<m, sig, mainVars, localVars>>

\* unlockItem(index2)
UnlockSecond(t) ==
  /\ pc[t] = "unlock2"
  /\ unlockItem(index2[t])
  /\ pc' = [pc EXCEPT ![t] = "save"]
  /\ UNCHANGED <<m, sig, mainVars, localVars>>

\* sig[threadId] = num; i++
SaveSig(t) ==
  /\ pc[t] = "save"
  /\ sig' = [sig EXCEPT ![t] = num[t]]
  /\ iter' = [iter EXCEPT ![t] = @ + 1]
  /\ pc' = [pc EXCEPT ![t] = "lock1"]
  /\ UNCHANGED <<m, num, index2, locks, mainVars>>

\* i == MaxLoop: return NULL
LeaveLoop(t) ==
  /\ pc[t] = "lock1"
  /\ iter[t] = MaxLoop
  /\ pc' = [pc EXCEPT ![t] = "exit"]
  /\ UNCHANGED <<m, sig, locks, mainVars, localVars>>

ThreadBody(t) ==
  \/ ArriveBarrier(t) \/ PassBarrier(t)
  \/ LockFirst(t) \/ ReadFirst(t) \/ UnlockFirst(t)
  \/ LockSecond(t) \/ ReadSecond(t) \/ WriteSecond(t) \/ UnlockSecond(t)
  \/ SaveSig(t) \/ LeaveLoop(t)

main == MainStep /\ UNCHANGED <<localVars, locks>>

\* The process has printed its signature and returned.
Terminated == mainPc = "done" /\ UNCHANGED vars

Next == main \/ Terminated \/ \E t \in Thread : ThreadBody(t)

\* The kernel schedules every runnable thread again and again.  Nothing more is
\* asked of the mutexes: a thread takes locks only finitely often, so one that
\* waits finds its lock free for good in the end.
Fairness == WF_vars(main) /\ \A t \in Thread : WF_vars(ThreadBody(t))

Spec == Init /\ [][Next]_vars
FairSpec == Spec /\ Fairness
-----------------------------------------------------------------------------
\* t holds mutex l, from where t stands in its critical sections.
Holds(t, l) ==
  \/ pc[t] \in FirstSection /\ l = LockOf(IndexOf(sig[t]))
  \/ pc[t] \in SecondSection /\ l = LockOf(index2[t])

\* The mutex state agrees with the critical sections: every unlock releases the
\* very lock its thread took, and nobody enters a section whose lock is taken.
LockInv == \A l \in Lock, t \in Thread : locks[l] = t <=> Holds(t, l)

\* The elements of m[] thread t is about to load or to store.
Loading(t) ==
  IF pc[t] = "load1" THEN {IndexOf(sig[t])}
  ELSE IF pc[t] = "load2" THEN {index2[t]} ELSE {}
Storing(t) == IF pc[t] = "store2" THEN {index2[t]} ELSE {}

\* "Technically there are no data races" (README.md:31-32): no two threads are
\* ever about to access one element, one of them to store it.
NoDataRace ==
  \A t, u \in Thread :
    t # u => Storing(t) \cap (Loading(u) \cup Storing(u)) = {}

\* No thread takes a lock while it holds another: index1 and index2 may fall
\* into one partition, and the mutexes are taken in no particular order, so
\* nesting them could block a thread on itself or two threads on each other.
NoNestedLocks ==
  \A t \in Thread :
    pc[t] \in {"lock1", "lock2", "exit"} => \A l \in Lock : locks[l] # t

\* index2 is the index of the number it was computed from, until that number is
\* mixed again; an iteration under way is one of the MaxLoop.
LoopInv ==
  \A t \in Thread :
    /\ pc[t] \in {"lock2", "load2"} => index2[t] = IndexOf(num[t])
    /\ pc[t] \in LoopPc \ {"lock1"} => iter[t] < MaxLoop
    /\ pc[t] = "exit" => iter[t] = MaxLoop

\* The inductive invariant.
IInv == TypeOK /\ MainInv /\ LockInv /\ LoopInv

\* Every thread gets through its iterations and main() prints.
Termination == <>(mainPc = "done")
-----------------------------------------------------------------------------
\* The refinement.  An atomic step takes place when its load of m[] does.  A
\* thread at "store2" has already made its exchange in the abstract run; its
\* store is still to come, but the lock hides that from every other thread.
TheOne(S) == CHOOSE t \in S : TRUE
Owing(e) == {t \in Thread : pc[t] = "store2" /\ index2[t] = e}

mBar == [e \in Elem |->
           IF Owing(e) # {} THEN num[TheOne(Owing(e))] ELSE m[e]]

valBar == [t \in 0 .. NumProcs |->
             IF t \in Thread /\ pc[t] \in {"unlock1", "lock2", "save"} \cup SecondSection
               THEN num[t] ELSE sig[t]]

halfBar == {t \in Thread : pc[t] \in {"unlock1", "lock2", "load2"}}

countBar == [t \in Thread |->
               IF pc[t] \in {"store2", "unlock2", "save"} THEN iter[t] + 1 ELSE iter[t]]

Atomic == INSTANCE AtomicMix
  WITH m <- mBar, val <- valBar, half <- halfBar, count <- countBar,
       done <- (mainPc = "done"), result <- mixSig

\* Each iteration of each thread behaves as two atomic steps.
IterationsAreAtomic == Atomic!Spec
=============================================================================
