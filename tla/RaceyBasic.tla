----------------------------- MODULE RaceyBasic -----------------------------
(***************************************************************************)
(* racey-basic.c.  The threads meet at a hand-made barrier before the main *)
(* loop: each decrements startCounter under threadLock, then spins on the  *)
(* volatile counter until it reads 0.  The decrement is a load and a store *)
(* of a shared variable, so it is the mutex that keeps one thread's        *)
(* decrement from overwriting another's.                                   *)
(***************************************************************************)
EXTENDS MixLoop, FiniteSets

VARIABLES
  startCounter,  \* threads that have still to reach the barrier
  threadLock,    \* the thread holding threadLock, 0 when it is free
  loaded         \* the value startCounter-- has loaded and not yet stored

barrierVars == <<startCounter, threadLock, loaded>>
vars == <<pc, m, sig, mainVars, loopVars, barrierVars>>

\* A thread that has not yet stored its decrement, and one that holds the lock.
BeforeDecrement == {"idle", "start", "dec", "decStore"}
Locked == {"dec", "decStore", "unlock"}

TypeOK ==
  /\ pc \in [Thread -> BeforeDecrement \cup LoopPc \cup {"unlock", "spin", "exit"}]
  /\ MainTypeOK
  /\ LoopTypeOK
  /\ startCounter \in 0 .. NumProcs
  /\ threadLock \in 0 .. NumProcs
  /\ loaded \in [Thread -> 0 .. NumProcs]

Init ==
  /\ MainInit
  /\ LoopInit
  /\ startCounter = NumProcs
  /\ threadLock = 0
  /\ loaded = [t \in Thread |-> 0]

\* Mutant: the mutex is not locked.
AcquireNothing(t) ==
  /\ pc[t] = "start"
  /\ pc' = [pc EXCEPT ![t] = "dec"]
  /\ UNCHANGED <<m, sig, threadLock, startCounter, loaded, mainVars, loopVars>>

\* pthread_mutex_lock(&threadLock)
AcquireLock(t) ==
  /\ pc[t] = "start"
  /\ threadLock = 0
  /\ threadLock' = t
  /\ pc' = [pc EXCEPT ![t] = "dec"]
  /\ UNCHANGED <<m, sig, startCounter, loaded, mainVars, loopVars>>

\* startCounter--, the load
LoadCounter(t) ==
  /\ pc[t] = "dec"
  /\ loaded' = [loaded EXCEPT ![t] = startCounter]
  /\ pc' = [pc EXCEPT ![t] = "decStore"]
  /\ UNCHANGED <<m, sig, startCounter, threadLock, mainVars, loopVars>>

\* startCounter--, the store
StoreCounter(t) ==
  /\ pc[t] = "decStore"
  /\ startCounter' = loaded[t] - 1
  /\ pc' = [pc EXCEPT ![t] = "unlock"]
  /\ UNCHANGED <<m, sig, threadLock, loaded, mainVars, loopVars>>

\* Mutant: the mutex is not unlocked.
ReleaseNothing(t) ==
  /\ pc[t] = "unlock"
  /\ pc' = [pc EXCEPT ![t] = "spin"]
  /\ UNCHANGED <<m, sig, threadLock, startCounter, loaded, mainVars, loopVars>>

\* pthread_mutex_unlock(&threadLock)
ReleaseLock(t) ==
  /\ pc[t] = "unlock"
  /\ threadLock' = 0
  /\ pc' = [pc EXCEPT ![t] = "spin"]
  /\ UNCHANGED <<m, sig, startCounter, loaded, mainVars, loopVars>>

\* Mutant: the barrier opens when all but one have come.
LeaveSpinEarly(t) ==
  /\ pc[t] = "spin"
  /\ startCounter <= 1
  /\ pc' = [pc EXCEPT ![t] = "loop"]
  /\ UNCHANGED <<m, sig, mainVars, loopVars, barrierVars>>

\* while(startCounter) {}: reading another value than 0 changes nothing.
LeaveSpin(t) ==
  /\ pc[t] = "spin"
  /\ startCounter = 0
  /\ pc' = [pc EXCEPT ![t] = "loop"]
  /\ UNCHANGED <<m, sig, mainVars, loopVars, barrierVars>>

BarrierStep(t) ==
  \/ AcquireLock(t) \/ LoadCounter(t) \/ StoreCounter(t)
  \/ ReleaseLock(t) \/ LeaveSpin(t)

ThreadBody(t) == BarrierStep(t) \/ (LoopStep(t) /\ UNCHANGED barrierVars)

main == MainStep /\ UNCHANGED <<loopVars, barrierVars>>

\* The process has printed its signature and returned.
Terminated == mainPc = "done" /\ UNCHANGED vars

Next == main \/ Terminated \/ \E t \in Thread : ThreadBody(t)

\* The kernel schedules every runnable thread again and again.
Fairness == WF_vars(main) /\ \A t \in Thread : WF_vars(ThreadBody(t))

Spec == Init /\ [][Next]_vars
FairSpec == Spec /\ Fairness
-----------------------------------------------------------------------------
\* The mutual exclusion of the decrements, and what it buys: the counter is
\* exact at every moment, the moments between a load and its store included.
LockInv ==
  /\ \A t \in Thread : pc[t] \in Locked <=> threadLock = t
  /\ \A t \in Thread : pc[t] = "decStore" => loaded[t] = startCounter

\* startCounter is the number of threads whose decrement is still to come: no
\* decrement is lost, none is made twice (racey-basic.c:71-78).
CounterExact ==
  startCounter = Cardinality({t \in Thread : pc[t] \in BeforeDecrement})

\* "make sure thread on different processors are starting at roughly the same
\* time": a thread is in its main loop, or past it, only when every thread has
\* been created and has announced itself at the barrier.
NobodyStartsEarly ==
  (\E t \in Thread : pc[t] \in LoopPc \cup {"exit"})
    => \A u \in Thread : pc[u] \notin BeforeDecrement

\* The signature is folded from final values: once main() holds it, no thread
\* can still change sig[], and it is the fold of the sig[] one sees then.
SignatureIsFinal ==
  mainPc = "done" =>
    /\ \A t \in Thread : pc[t] = "exit" /\ iter[t] = MaxLoop
    /\ mixSig = Signature(sig, NumProcs)

\* An iteration under way is one of the MaxLoop, and a thread that has returned
\* has made them all.
LoopInv ==
  \A t \in Thread :
    /\ pc[t] \in {"second", "store"} => iter[t] < MaxLoop
    /\ pc[t] = "exit" => iter[t] = MaxLoop

\* The inductive invariant: the safety properties above, with what main() and
\* the lock guarantee in between.
IInv ==
  /\ TypeOK
  /\ MainInv
  /\ LockInv
  /\ CounterExact
  /\ NobodyStartsEarly
  /\ LoopInv
  /\ SignatureIsFinal

\* Every thread gets through the barrier and the loop, and main() prints.
Termination == <>(mainPc = "done")
=============================================================================
