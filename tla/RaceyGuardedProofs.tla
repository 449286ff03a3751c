------------------------- MODULE RaceyGuardedProofs -------------------------
(***************************************************************************)
(* Proofs about racey-guarded.c for every number of threads, locks,        *)
(* elements and iterations: its critical sections exclude each other, so   *)
(* it has no data race, and it implements AtomicMix.                       *)
(***************************************************************************)
EXTENDS RaceyGuarded, RaceyMixProofs

\* Every index falls into one of the partitions.
LEMMA LockOfRange ==
  ASSUME NEW e \in Elem
  PROVE  LockOf(e) \in Lock
<1>1. e \in Nat
  BY MixAssumption DEF Elem
<1> QED
  BY <1>1, ModRange, LockAssumption DEF LockOf, Lock

\* The two elements a thread works on, and the numbers it finds there.
LEMMA IndicesInRange ==
  ASSUME TypeOK, NEW t \in Thread
  PROVE  /\ sig[t] \in Nat /\ num[t] \in Nat
         /\ IndexOf(sig[t]) \in Elem /\ m[IndexOf(sig[t])] \in Nat
         /\ index2[t] \in Elem /\ m[index2[t]] \in Nat
         /\ LockOf(IndexOf(sig[t])) \in Lock /\ LockOf(index2[t]) \in Lock
<1>1. sig[t] \in Nat /\ num[t] \in Nat
  BY MixAssumption DEF TypeOK, MainTypeOK, Unsigned, Mixed, Thread
<1>2. IndexOf(sig[t]) \in Elem
  BY <1>1, IndexRange
<1>3. index2[t] \in Elem
  BY DEF TypeOK
<1>4. \A e \in Elem : m[e] \in Nat
  BY MixAssumption DEF TypeOK, MainTypeOK, Mixed
<1> QED
  BY <1>1, <1>2, <1>3, <1>4, LockOfRange

\* Before any thread is created all locks are free.
LEMMA InitIInv == Init => IInv
<1> SUFFICES ASSUME Init PROVE IInv
  OBVIOUS
<1> USE DEF Init, MainInit
<1>1. 0 \in Elem /\ 0 \in Mixed /\ \A t \in 0 .. NumProcs : t \in Unsigned
  BY MixAssumption, MainAssumption DEF Elem, Unsigned, Mixed
<1>2. TypeOK
  BY <1>1, InitialMRange, MainAssumption DEF TypeOK, MainTypeOK, Thread
<1>3. MainInv
  BY MainAssumption DEF MainInv, Thread
<1>4. LockInv
  BY DEF LockInv, Holds, FirstSection, SecondSection, Thread
<1>5. LoopInv
  BY DEF LoopInv, LoopPc, FirstSection, SecondSection
<1> QED
  BY <1>2, <1>3, <1>4, <1>5 DEF IInv

\* The steps of main() take no lock and touch no thread's locals.
LEMMA MainStepIInv ==
  ASSUME IInv, main
  PROVE  IInv'
<1> USE DEF IInv, main, localVars
<1>1. CASE CreateThread
  <2> DEFINE t == mainI + 1
  <2>1. t \in Thread /\ pc[t] = "idle" /\ pc' = [pc EXCEPT ![t] = "start"]
    BY <1>1, MainAssumption DEF CreateThread, Thread, TypeOK, MainTypeOK, MainInv
  <2>2. UNCHANGED <<m, sig, mixSig, iter, num, index2, locks>>
    BY <1>1 DEF CreateThread
  <2>3. TypeOK'
    BY <1>1, <2>1, <2>2, MainAssumption DEF CreateThread, TypeOK, MainTypeOK, MainInv
  <2>4. MainInv'
    <3>1. CASE t < NumProcs
      BY <1>1, <2>1, <3>1 DEF CreateThread, Thread, TypeOK, MainTypeOK, MainInv
    <3>2. CASE ~(t < NumProcs)
      BY <1>1, <2>1, <3>2, MainAssumption DEF CreateThread, Thread, TypeOK,
         MainTypeOK, MainInv
    <3> QED BY <3>1, <3>2
  <2>5. LockInv' /\ LoopInv'
    BY <2>1, <2>2 DEF LockInv, Holds, LoopInv, LoopPc, FirstSection, SecondSection, TypeOK
  <2> QED BY <2>3, <2>4, <2>5
<1>2. CASE JoinThread
  <2>1. UNCHANGED <<pc, m, sig, mixSig, iter, num, index2, locks>>
    BY <1>2 DEF JoinThread
  <2>2. TypeOK' /\ MainInv'
    BY <1>2, <2>1, MainAssumption DEF JoinThread, Thread, TypeOK, MainTypeOK, MainInv
  <2>3. LockInv' /\ LoopInv'
    BY <2>1 DEF LockInv, Holds, LoopInv
  <2> QED BY <2>2, <2>3
<1>3. CASE ComputeResult
  <2>1. UNCHANGED <<pc, m, sig, mainI, iter, num, index2, locks>>
    BY <1>3 DEF ComputeResult
  <2>2. TypeOK' /\ MainInv'
    BY <1>3, <2>1 DEF ComputeResult, TypeOK, MainTypeOK, MainInv
  <2>3. LockInv' /\ LoopInv'
    BY <2>1 DEF LockInv, Holds, LoopInv
  <2> QED BY <2>2, <2>3
<1> QED
  BY <1>1, <1>2, <1>3 DEF MainStep

\* A thread's step leaves main() where it is and the other threads where they
\* are, and neither creates a thread nor undoes its return.
LEMMA ThreadFrame ==
  ASSUME IInv, NEW t \in Thread, ThreadBody(t)
  PROVE  /\ UNCHANGED mainVars
         /\ pc[t] \notin {"idle", "exit"}
         /\ \E l \in {"wait", "exit"} \cup LoopPc : pc' = [pc EXCEPT ![t] = l]
         /\ \A u \in Thread \ {t} :
              sig'[u] = sig[u] /\ num'[u] = num[u] /\ index2'[u] = index2[u]
<1> USE DEF IInv, TypeOK, MainTypeOK, mainVars, localVars, LoopPc, FirstSection,
            SecondSection
<1>1. CASE ArriveBarrier(t) \/ PassBarrier(t) \/ LeaveLoop(t)
  BY <1>1 DEF ArriveBarrier, PassBarrier, LeaveLoop
<1>2. CASE LockFirst(t) \/ LockSecond(t)
  BY <1>2 DEF LockFirst, LockSecond
<1>3. CASE ReadFirst(t) \/ ReadSecond(t)
  BY <1>3 DEF ReadFirst, ReadSecond
<1>4. CASE UnlockFirst(t) \/ UnlockSecond(t)
  BY <1>4 DEF UnlockFirst, UnlockSecond
<1>5. CASE WriteSecond(t)
  BY <1>5 DEF WriteSecond
<1>6. CASE SaveSig(t)
  BY <1>6 DEF SaveSig, Thread
<1> QED
  BY <1>1, <1>2, <1>3, <1>4, <1>5, <1>6 DEF ThreadBody

\* A thread's step keeps the types: the numbers it loads and stores are mixed.
LEMMA ThreadTypeOK ==
  ASSUME IInv, NEW t \in Thread, ThreadBody(t)
  PROVE  TypeOK'
<1>0. 0 \in 0 .. NumProcs
  BY MainAssumption
<1> USE DEF IInv, TypeOK, MainTypeOK, LoopPc, FirstSection, SecondSection, mainVars, localVars
<1>1. CASE ArriveBarrier(t)
  BY <1>1 DEF ArriveBarrier
<1>2. CASE PassBarrier(t)
  BY <1>2 DEF PassBarrier
<1>3. CASE LockFirst(t)
  BY <1>3, IndicesInRange DEF LockFirst, lockItem, Thread
<1>4. CASE ReadFirst(t)
  <2>1. num' \in [Thread -> Mixed]
    BY <1>4, IndicesInRange, MixRange DEF ReadFirst
  <2> QED BY <1>4, <2>1 DEF ReadFirst
<1>5. CASE UnlockFirst(t)
  <2>0. IndexOf(num[t]) \in Elem
    BY IndicesInRange, IndexRange
  <2>1. index2' \in [Thread -> Elem]
    BY Zenon, <1>5, <2>0 DEF UnlockFirst
  <2>2. locks' \in [Lock -> 0 .. NumProcs]
    BY Zenon, <1>0, <1>5 DEF UnlockFirst, unlockItem
  <2> QED BY <1>5, <2>1, <2>2 DEF UnlockFirst
<1>6. CASE LockSecond(t)
  BY <1>6, IndicesInRange DEF LockSecond, lockItem, Thread
<1>7. CASE ReadSecond(t)
  <2>1. num' \in [Thread -> Mixed]
    BY <1>7, IndicesInRange, MixRange DEF ReadSecond
  <2> QED BY <1>7, <2>1 DEF ReadSecond
<1>8. CASE WriteSecond(t)
  BY <1>8 DEF WriteSecond
<1>9. CASE UnlockSecond(t)
  <2>1. locks' \in [Lock -> 0 .. NumProcs]
    BY Zenon, <1>0, <1>9 DEF UnlockSecond, unlockItem
  <2> QED BY <1>9, <2>1 DEF UnlockSecond
<1>10. CASE SaveSig(t)
  <2>0. num[t] \in Unsigned
    BY MixedIsUnsigned
  <2>1. sig' \in [0 .. NumProcs -> Unsigned]
    BY Zenon, <1>10, <2>0 DEF SaveSig
  <2>2. iter[t] < MaxLoop
    BY <1>10 DEF SaveSig, LoopInv
  <2> QED BY <1>10, <2>1, <2>2, MainAssumption DEF SaveSig
<1>11. CASE LeaveLoop(t)
  BY <1>11 DEF LeaveLoop
<1> QED
  BY <1>1, <1>2, <1>3, <1>4, <1>5, <1>6, <1>7, <1>8, <1>9, <1>10, <1>11 DEF ThreadBody

\* Only four kinds of steps touch the locks: a lock is taken when it is free,
\* and the lock released is the one whose index the thread still remembers.
LEMMA ThreadLockInv ==
  ASSUME IInv, NEW t \in Thread, ThreadBody(t)
  PROVE  LockInv'
<1>0. TypeOK /\ LockInv
  BY DEF IInv
<1>00. /\ LockOf(IndexOf(sig[t])) \in Lock /\ LockOf(index2[t]) \in Lock
       /\ 0 \notin Thread
  BY <1>0, IndicesInRange DEF Thread
<1> USE DEF LockInv, Holds, FirstSection, SecondSection, TypeOK, MainTypeOK, localVars
<1>1. CASE ArriveBarrier(t) \/ PassBarrier(t) \/ LeaveLoop(t)
  <2>1. CASE ArriveBarrier(t)
    BY <1>0, <2>1 DEF ArriveBarrier
  <2>2. CASE PassBarrier(t)
    BY <1>0, <2>2 DEF PassBarrier
  <2>3. CASE LeaveLoop(t)
    BY <1>0, <2>3 DEF LeaveLoop
  <2> QED BY <1>1, <2>1, <2>2, <2>3
<1>2. CASE LockFirst(t)
  BY <1>0, <1>00, <1>2 DEF LockFirst, lockItem
<1>3. CASE UnlockFirst(t)
  BY <1>0, <1>00, <1>3 DEF UnlockFirst, unlockItem
<1>4. CASE LockSecond(t)
  BY <1>0, <1>00, <1>4 DEF LockSecond, lockItem
<1>5. CASE UnlockSecond(t)
  BY <1>0, <1>00, <1>5 DEF UnlockSecond, unlockItem
<1>6. CASE ReadFirst(t) \/ ReadSecond(t) \/ WriteSecond(t)
  <2>1. CASE ReadFirst(t)
    BY <1>0, <2>1 DEF ReadFirst
  <2>2. CASE ReadSecond(t)
    BY <1>0, <2>2 DEF ReadSecond
  <2>3. CASE WriteSecond(t)
    BY <1>0, <2>3 DEF WriteSecond
  <2> QED BY <1>6, <2>1, <2>2, <2>3
<1>7. CASE SaveSig(t)
  BY <1>0, <1>7 DEF SaveSig, Thread
<1> QED
  BY <1>1, <1>2, <1>3, <1>4, <1>5, <1>6, <1>7 DEF ThreadBody

\* A thread's step keeps main()'s bookkeeping and the thread's own.
LEMMA ThreadLoopInv ==
  ASSUME IInv, NEW t \in Thread, ThreadBody(t)
  PROVE  MainInv' /\ LoopInv'
<1>1. MainInv'
  BY ThreadFrame DEF IInv, MainInv, mainVars, TypeOK, LoopPc, FirstSection, SecondSection
<1>2. LoopInv'
  BY DEF IInv, TypeOK, LoopInv, LoopPc, FirstSection, SecondSection, localVars,
     ThreadBody, ArriveBarrier, PassBarrier, LockFirst, ReadFirst, UnlockFirst,
     LockSecond, ReadSecond, WriteSecond, UnlockSecond, SaveSig, LeaveLoop
<1> QED
  BY <1>1, <1>2

\* A stutter changes nothing the invariant mentions.
LEMMA StutterIInv ==
  ASSUME IInv, UNCHANGED vars
  PROVE  IInv'
  BY DEF IInv, TypeOK, MainTypeOK, MainInv, LockInv, Holds, LoopInv, vars, mainVars,
     localVars

\* Mutexes and critical sections agree in every reachable state.
THEOREM GuardedInvariant == Spec => []IInv
<1>1. IInv /\ [Next]_vars => IInv'
  BY MainStepIInv, ThreadTypeOK, ThreadLockInv, ThreadLoopInv, StutterIInv
  DEF Next, Terminated, IInv
<1> QED
  BY <1>1, InitIInv, PTL DEF Spec

\* The variables keep their types; every index stays within m[] and locks[].
THEOREM GuardedTypeCorrect == Spec => []TypeOK
  BY GuardedInvariant, PTL DEF IInv

\* The mutexes held are those of the threads inside a critical section.
THEOREM GuardedLocks == Spec => []LockInv
  BY GuardedInvariant, PTL DEF IInv

\* "Technically there are no data races": two threads about to access one
\* element would both hold the lock of its partition.
THEOREM GuardedNoDataRace == Spec => []NoDataRace
<1>1. IInv => NoDataRace
  <2> SUFFICES ASSUME IInv, NEW t \in Thread, NEW u \in Thread, t # u,
                      NEW e \in Storing(t), e \in Loading(u) \cup Storing(u)
               PROVE  FALSE
    BY DEF NoDataRace
  <2>1. e \in Elem /\ LockOf(e) \in Lock
    BY IndicesInRange DEF IInv, Storing
  <2>2. Holds(t, LockOf(e))
    BY DEF Storing, Holds, SecondSection
  <2>3. Holds(u, LockOf(e))
    BY DEF Loading, Storing, Holds, FirstSection, SecondSection
  <2> QED
    BY <2>1, <2>2, <2>3 DEF IInv, LockInv
<1> QED
  BY <1>1, GuardedInvariant, PTL

\* A thread between its critical sections holds no lock at all, so waiting for
\* one never blocks another thread.
THEOREM GuardedNoNestedLocks == Spec => []NoNestedLocks
<1>1. IInv => NoNestedLocks
  BY DEF IInv, LockInv, Holds, NoNestedLocks, FirstSection, SecondSection
<1> QED
  BY <1>1, GuardedInvariant, PTL
-----------------------------------------------------------------------------
(***************************************************************************)
(* The refinement.  Every step of the program is, under the mapping of     *)
(* RaceyGuarded, a step of AtomicMix or no step at all:                    *)
(*                                                                         *)
(*    ReadFirst      MixIn          ReadSecond     Exchange                *)
(*    ComputeResult  Finish         the others     stutter                 *)
(***************************************************************************)

\* The arithmetic of the abstract specification is the program's.
LEMMA SameArithmetic ==
  /\ \A i, j : Atomic!Mix(i, j) = Mix(i, j)
  /\ \A n : Atomic!IndexOf(n) = IndexOf(n)
  /\ Atomic!InitialM = InitialM
  /\ \A s, n : Atomic!Signature(s, n) = Signature(s, n)
  /\ Atomic!Thread = Thread
  BY DEF Atomic!Mix, Mix, Atomic!IndexOf, IndexOf, Atomic!InitialM, InitialM, Atomic!Elem,
     Elem, Atomic!Signature, Signature, Atomic!Thread, Thread

\* The chosen member of a set that has one, and that of a singleton.
LEMMA TheOneMember ==
  /\ \A S : S # {} => TheOne(S) \in S
  /\ \A t : TheOne({t}) = t
  BY DEF TheOne

\* While t holds the lock of an element and has not just loaded it, nobody owes
\* that element a store: the abstract array and the real one agree there.
LEMMA LockedIsCurrent ==
  ASSUME IInv, NEW t \in Thread, NEW e \in Elem,
         Holds(t, LockOf(e)), pc[t] # "store2"
  PROVE  Owing(e) = {} /\ mBar[e] = m[e]
<1>1. LockOf(e) \in Lock
  BY LockOfRange
<1>2. ASSUME NEW u \in Owing(e)
      PROVE  FALSE
  <2>1. Holds(u, LockOf(e)) /\ u \in Thread /\ u # t
    BY <1>2 DEF Owing, Holds, SecondSection
  <2> QED BY <1>1, <2>1 DEF IInv, LockInv
<1>3. Owing(e) = {}
  BY <1>2
<1> QED
  BY <1>3 DEF mBar

\* A thread at its store is the only one that owes its element anything.
LEMMA OnlyOneOwes ==
  ASSUME IInv, NEW t \in Thread, pc[t] = "store2"
  PROVE  Owing(index2[t]) = {t} /\ mBar[index2[t]] = num[t]
<1>1. index2[t] \in Elem /\ LockOf(index2[t]) \in Lock
  BY IndicesInRange DEF IInv
<1>2. Holds(t, LockOf(index2[t]))
  BY DEF Holds, SecondSection
<1>3. ASSUME NEW u \in Owing(index2[t])
      PROVE  u = t
  <2>1. u \in Thread /\ Holds(u, LockOf(index2[t]))
    BY <1>3 DEF Owing, Holds, SecondSection
  <2> QED BY <1>1, <1>2, <2>1 DEF IInv, LockInv
<1>4. Owing(index2[t]) = {t}
  BY <1>3 DEF Owing
<1> QED
  BY <1>1, <1>4, TheOneMember DEF mBar

\* The initial states correspond.
LEMMA InitRefines == Init => Atomic!Init
<1> SUFFICES ASSUME Init PROVE Atomic!Init
  OBVIOUS
<1>1. mBar = InitialM
  BY DEF Init, MainInit, mBar, Owing, InitialM
<1>2. valBar = [t \in 0 .. NumProcs |-> t]
  BY DEF Init, MainInit, valBar, SecondSection
<1>3. halfBar = {}
  BY DEF Init, MainInit, halfBar
<1>4. countBar = [t \in Thread |-> 0]
  BY DEF Init, MainInit, countBar
<1>5. mixSig = 0 /\ (mainPc = "done") = FALSE
  BY DEF Init, MainInit
<1> QED
  BY <1>1, <1>2, <1>3, <1>4, <1>5, SameArithmetic DEF Atomic!Init

\* The abstract state is a function of pc, m, sig, iter, num and index2.
LEMMA SameAbstraction ==
  ASSUME IInv, UNCHANGED <<pc, m, sig, iter, num, index2>>
  PROVE  UNCHANGED <<mBar, valBar, halfBar, countBar>>
  BY DEF mBar, Owing, valBar, halfBar, countBar

\* main() creates and joins threads unseen; computing the signature is Finish.
LEMMA MainRefines ==
  ASSUME IInv, main
  PROVE  Atomic!Finish \/ UNCHANGED Atomic!vars
<1>1. CASE CreateThread
  <2>1. mainI + 1 \in Thread /\ pc[mainI + 1] = "idle"
    BY <1>1, MainAssumption DEF CreateThread, Thread, IInv, TypeOK, MainTypeOK, MainInv
  <2>2. /\ pc' = [pc EXCEPT ![mainI + 1] = "start"]
        /\ UNCHANGED <<m, sig, mixSig, iter, num, index2>>
        /\ mainPc # "done" /\ mainPc' # "done"
    BY <1>1 DEF main, CreateThread, localVars
  <2>3. mBar' = mBar
    <3>1. \A e : Owing(e)' = Owing(e)
      BY <2>1, <2>2 DEF Owing, IInv, TypeOK
    <3> QED BY <2>2, <3>1 DEF mBar
  <2>4. UNCHANGED <<valBar, halfBar, countBar>>
    BY <2>1, <2>2 DEF valBar, halfBar, countBar, IInv, TypeOK, SecondSection
  <2> QED BY <2>2, <2>3, <2>4 DEF Atomic!vars
<1>2. CASE JoinThread
  BY <1>2, SameAbstraction, MainAssumption DEF main, JoinThread, Atomic!vars, localVars
<1>3. CASE ComputeResult
  <2>1. UNCHANGED <<mBar, valBar, halfBar, countBar>>
    BY <1>3, SameAbstraction DEF main, ComputeResult, localVars
  <2>2. \A t \in Thread : pc[t] = "exit" /\ iter[t] = MaxLoop
    BY <1>3 DEF ComputeResult, IInv, MainInv, LoopInv
  <2>3. valBar = sig
    BY <2>2 DEF valBar, SecondSection, IInv, TypeOK, MainTypeOK
  <2>4. halfBar = {} /\ \A t \in Thread : countBar[t] = MaxLoop
    BY <2>2 DEF halfBar, countBar
  <2>5. /\ mainPc # "done" /\ mainPc' = "done"
        /\ mixSig' = Atomic!Signature(valBar, NumProcs)
    BY <1>3, <2>3, SameArithmetic DEF ComputeResult
  <2> QED
    BY <2>1, <2>4, <2>5, SameArithmetic DEF Atomic!Finish
<1> QED
  BY <1>1, <1>2, <1>3 DEF main, MainStep

\* The steps that neither load nor store m[], and the store itself, which the
\* abstract run has already made: the abstract state does not change.
LEMMA HiddenStep ==
  ASSUME IInv, NEW t \in Thread,
         \/ ArriveBarrier(t) \/ PassBarrier(t) \/ LockFirst(t) \/ UnlockFirst(t)
         \/ LockSecond(t) \/ WriteSecond(t) \/ UnlockSecond(t) \/ SaveSig(t)
         \/ LeaveLoop(t)
  PROVE  UNCHANGED Atomic!vars
<1>1. UNCHANGED <<mainPc, mixSig, num>>
  BY DEF ArriveBarrier, PassBarrier, LockFirst, UnlockFirst, LockSecond, WriteSecond,
     UnlockSecond, SaveSig, LeaveLoop, mainVars, localVars
<1>2. UNCHANGED <<valBar, halfBar, countBar>>
  <2> USE DEF IInv, TypeOK, MainTypeOK, valBar, halfBar, countBar, localVars,
              SecondSection, FirstSection, LoopPc
  <2>1. CASE ArriveBarrier(t)
    BY <2>1 DEF ArriveBarrier
  <2>2. CASE PassBarrier(t)
    BY <2>2 DEF PassBarrier
  <2>6. CASE LeaveLoop(t)
    BY <2>6 DEF LeaveLoop
  <2>7. CASE LockFirst(t)
    BY <2>7 DEF LockFirst
  <2>8. CASE LockSecond(t)
    BY <2>8 DEF LockSecond
  <2>9. CASE UnlockSecond(t)
    BY <2>9 DEF UnlockSecond
  <2>3. CASE UnlockFirst(t)
    BY <2>3 DEF UnlockFirst
  <2>4. CASE WriteSecond(t)
    BY <2>4 DEF WriteSecond
  <2>5. CASE SaveSig(t)
    BY <2>5 DEF SaveSig, Thread
  <2> QED BY <2>1, <2>2, <2>3, <2>4, <2>5, <2>6, <2>7, <2>8, <2>9
<1>3. mBar' = mBar
  <2>1. CASE WriteSecond(t)
    <3> DEFINE e == index2[t]
    <3>1. Owing(e) = {t} /\ mBar[e] = num[t] /\ e \in Elem
      BY <2>1, OnlyOneOwes, IndicesInRange DEF WriteSecond, IInv
    <3>2. m' = [m EXCEPT ![e] = num[t]] /\ pc' = [pc EXCEPT ![t] = "unlock2"]
      BY <2>1 DEF WriteSecond
    <3>3. \A f : Owing(f)' = Owing(f) \ {t}
      BY <2>1, <3>2 DEF WriteSecond, Owing, localVars, IInv, TypeOK
    <3>4. mBar'[e] = mBar[e]
      BY <3>1, <3>2, <3>3 DEF mBar, IInv, TypeOK, MainTypeOK
    <3>5. ASSUME NEW f \in Elem \ {e}
          PROVE  mBar'[f] = mBar[f]
      <4>1. Owing(f)' = Owing(f)
        BY <3>3 DEF Owing
      <4> QED BY <1>1, <3>2, <4>1 DEF mBar, IInv, TypeOK, MainTypeOK
    <3> QED BY <3>1, <3>4, <3>5 DEF mBar
  <2>2. CASE ~WriteSecond(t)
    <3>1. /\ UNCHANGED m
          /\ pc[t] # "store2" /\ (\E l : l # "store2" /\ pc' = [pc EXCEPT ![t] = l])
          /\ \A u \in Thread \ {t} : index2'[u] = index2[u]
      BY <2>2 DEF ArriveBarrier, PassBarrier, LockFirst, UnlockFirst, LockSecond,
         UnlockSecond, SaveSig, LeaveLoop, localVars, IInv, TypeOK
    <3>2. \A f : Owing(f)' = Owing(f)
      BY <3>1 DEF Owing, IInv, TypeOK
    <3> QED BY <1>1, <3>1, <3>2 DEF mBar
  <2> QED BY <2>1, <2>2
<1> QED
  BY <1>1, <1>2, <1>3 DEF Atomic!vars

\* The load of the first element is the first atomic step of the iteration.
LEMMA ReadFirstRefines ==
  ASSUME IInv, NEW t \in Thread, ReadFirst(t)
  PROVE  Atomic!MixIn(t)
<1> DEFINE e == IndexOf(sig[t])
<1>1. /\ pc[t] = "load1" /\ pc' = [pc EXCEPT ![t] = "unlock1"]
      /\ num' = [num EXCEPT ![t] = Mix(sig[t], m[e])]
      /\ UNCHANGED <<m, sig, iter, index2, mainPc, mixSig>>
  BY DEF ReadFirst, mainVars
<1>2. e \in Elem /\ mBar[e] = m[e]
  <2>1. e \in Elem
    BY IndicesInRange DEF IInv
  <2> QED BY <1>1, <2>1, LockedIsCurrent DEF Holds, FirstSection
<1>3. mBar' = mBar
  <2>1. \A f : Owing(f)' = Owing(f)
    BY <1>1 DEF Owing, IInv, TypeOK
  <2>2. \A f \in Elem : \A u \in Owing(f) : num'[u] = num[u]
    BY <1>1 DEF Owing, IInv, TypeOK
  <2>3. ASSUME NEW f \in Elem
        PROVE  mBar'[f] = mBar[f]
    <3>1. CASE Owing(f) = {}
      BY <1>1, <2>1, <3>1 DEF mBar
    <3>2. CASE Owing(f) # {}
      <4>1. TheOne(Owing(f)) \in Owing(f)
        BY <3>2, TheOneMember
      <4>2. num'[TheOne(Owing(f))] = num[TheOne(Owing(f))]
        BY <2>2, <4>1
      <4> QED BY <2>1, <3>2, <4>2 DEF mBar
    <3> QED BY <3>1, <3>2
  <2> QED BY <2>3 DEF mBar
<1>4. t \in 0 .. NumProcs /\ valBar[t] = sig[t]
  BY <1>1, MainAssumption DEF valBar, SecondSection, Thread
<1>5. valBar' = [valBar EXCEPT ![t] = Mix(sig[t], m[e])]
  BY <1>1, <1>4 DEF valBar, SecondSection, IInv, TypeOK
<1>6. t \notin halfBar /\ halfBar' = halfBar \cup {t}
  BY <1>1 DEF halfBar, IInv, TypeOK
<1>7. countBar[t] < MaxLoop /\ countBar' = countBar
  BY <1>1 DEF countBar, IInv, TypeOK, LoopInv, LoopPc, FirstSection
<1> QED
  BY <1>1, <1>2, <1>3, <1>4, <1>5, <1>6, <1>7, SameArithmetic DEF Atomic!MixIn

\* The load of the second element is the exchange: the store that follows under
\* the same lock is already part of the abstract array.
LEMMA ReadSecondRefines ==
  ASSUME IInv, NEW t \in Thread, ReadSecond(t)
  PROVE  Atomic!Exchange(t)
<1>0. PICK e \in Elem : e = index2[t]
  BY IndicesInRange DEF IInv
<1> DEFINE v == Mix(num[t], m[e])
<1>1. /\ pc[t] = "load2" /\ pc' = [pc EXCEPT ![t] = "store2"]
      /\ num' = [num EXCEPT ![t] = v]
      /\ UNCHANGED <<m, sig, iter, index2, mainPc, mixSig>>
  BY <1>0 DEF ReadSecond, mainVars
<1>2. Owing(e) = {} /\ mBar[e] = m[e]
  BY <1>0, <1>1, LockedIsCurrent DEF Holds, SecondSection
<1>3. e = IndexOf(num[t])
  BY <1>0, <1>1 DEF IInv, LoopInv
<1>4. t \in 0 .. NumProcs /\ valBar[t] = num[t]
  BY <1>1, MainAssumption DEF valBar, SecondSection, Thread
<1>5. valBar' = [valBar EXCEPT ![t] = v]
  BY <1>1, <1>4 DEF valBar, SecondSection, IInv, TypeOK
<1>6. t \in halfBar /\ halfBar' = halfBar \ {t}
  BY <1>1 DEF halfBar, IInv, TypeOK
<1>7. countBar' = [countBar EXCEPT ![t] = @ + 1]
  BY <1>1 DEF countBar, IInv, TypeOK
<1>8. mBar' = [mBar EXCEPT ![e] = v]
  <2>1. \A f : Owing(f)' = Owing(f) \cup {u \in {t} : f = e}
    BY <1>0, <1>1 DEF Owing, IInv, TypeOK
  <2>2. mBar'[e] = v
    <3>1. Owing(e)' = {t} /\ num'[t] = v
      BY <1>1, <1>2, <2>1 DEF IInv, TypeOK
    <3>2. Owing(e)' # {} /\ TheOne(Owing(e)') = t
      BY <3>1, TheOneMember
    <3>3. num'[TheOne(Owing(e)')] = v
      BY <3>1, <3>2
    <3> HIDE DEF v
    <3> QED BY <1>2, <3>2, <3>3 DEF mBar
  <2>3. ASSUME NEW f \in Elem \ {e}
        PROVE  mBar'[f] = mBar[f]
    <3>1. Owing(f)' = Owing(f)
      BY <2>1
    <3>2. \A u \in Owing(f) : u # t /\ num'[u] = num[u]
      BY <1>1 DEF Owing, IInv, TypeOK
    <3>3. CASE Owing(f) = {}
      BY <1>1, <3>1, <3>3 DEF mBar
    <3>4. CASE Owing(f) # {}
      <4>1. TheOne(Owing(f)) \in Owing(f)
        BY <3>4, TheOneMember
      <4>2. num'[TheOne(Owing(f))] = num[TheOne(Owing(f))]
        BY <3>2, <4>1
      <4> QED BY <3>1, <3>4, <4>2 DEF mBar
    <3> QED BY <3>3, <3>4
  <2> HIDE DEF v
  <2> QED BY <1>2, <2>2, <2>3 DEF mBar
<1> QED
  BY <1>1, <1>2, <1>3, <1>4, <1>5, <1>6, <1>7, <1>8, SameArithmetic DEF Atomic!Exchange

\* Each iteration of racey-guarded.c:101-118 behaves as two atomic steps: the
\* only races left are races for the locks.
THEOREM GuardedImplementsAtomicMix == Spec => IterationsAreAtomic
<1>1. IInv /\ [Next]_vars => [Atomic!Next]_(Atomic!vars)
  <2> SUFFICES ASSUME IInv, [Next]_vars PROVE [Atomic!Next]_(Atomic!vars)
    OBVIOUS
  <2>1. CASE main
    BY <2>1, MainRefines DEF Atomic!Next
  <2>2. CASE \E t \in Thread : ThreadBody(t)
    <3>1. PICK t \in Thread : ThreadBody(t)
      BY <2>2
    <3>2. CASE ReadFirst(t)
      BY <3>2, ReadFirstRefines, SameArithmetic DEF Atomic!Next
    <3>3. CASE ReadSecond(t)
      BY <3>3, ReadSecondRefines, SameArithmetic DEF Atomic!Next
    <3>4. CASE ~ReadFirst(t) /\ ~ReadSecond(t)
      BY <3>1, <3>4, HiddenStep DEF ThreadBody
    <3> QED BY <3>2, <3>3, <3>4
  <2>3. CASE UNCHANGED vars
    <3>1. UNCHANGED <<mBar, valBar, halfBar, countBar>>
      BY <2>3, SameAbstraction DEF vars, localVars
    <3> QED BY <2>3, <3>1 DEF vars, mainVars, Atomic!vars
  <2> QED
    BY <2>1, <2>2, <2>3 DEF Next, Terminated
<1> QED
  BY <1>1, InitRefines, GuardedInvariant, PTL DEF Spec, IterationsAreAtomic, Atomic!Spec

-----------------------------------------------------------------------------
\* Why the program ends.  The threads and main() are somewhere between their
\* first step and their last; somebody can always take the next one, and whoever
\* does comes nearer to the last.

\* t is at a step that it can take: its barrier is open, its lock is free.
Runnable(t) ==
  /\ pc[t] \notin {"idle", "exit"}
  /\ pc[t] = "wait" => \A u \in Thread : pc[u] \notin {"idle", "start"}
  /\ pc[t] = "lock1" /\ iter[t] < MaxLoop => locks[LockOf(IndexOf(sig[t]))] = 0
  /\ pc[t] = "lock2" => locks[LockOf(index2[t])] = 0

SomebodyRuns == mainPc = "done" \/ MainRuns \/ \E t \in Thread : Runnable(t)

\* The place of a step in the body of a thread, 8 places in an iteration, and how
\* far t has come.
Place(label) ==
  CASE label = "idle"    -> 0
    [] label = "start"   -> 1
    [] label = "wait"    -> 2
    [] label = "lock1"   -> 3
    [] label = "load1"   -> 4
    [] label = "unlock1" -> 5
    [] label = "lock2"   -> 6
    [] label = "load2"   -> 7
    [] label = "store2"  -> 8
    [] label = "unlock2" -> 9
    [] label = "save"    -> 10
    [] label = "exit"    -> 11

Rank(t) == Place(pc[t]) + 8 * iter[t]

RanksEnd ==
  /\ MainRank \in 0 .. 2 * NumProcs + 1
  /\ \A t \in Thread : Rank(t) \in 0 .. 11 + 8 * MaxLoop

\* Nobody goes back, and somebody comes one step further.
Advance ==
  /\ MainRank' >= MainRank /\ \A t \in Thread : Rank(t)' >= Rank(t)
  /\ MainRank' > MainRank \/ \E t \in Thread : Rank(t)' > Rank(t)

\* Whoever holds a lock is in its critical section and goes on, so that in the
\* end every lock is free; whoever waits at the barrier waits for somebody who
\* is to come.
LEMMA SomebodyMoves == IInv => SomebodyRuns
<1> SUFFICES ASSUME IInv, mainPc # "done", ~MainRuns, \A t \in Thread : ~Runnable(t)
             PROVE  FALSE
  BY DEF SomebodyRuns
<1> USE DEF IInv
<1>1. (\A t \in Thread : pc[t] # "idle") /\ \E t \in Thread : pc[t] # "exit"
  BY MainWaits DEF TypeOK
<1>2. ASSUME NEW l \in Lock, locks[l] # 0
      PROVE  FALSE
  <2>1. locks[l] \in Thread
    BY <1>2, MainAssumption DEF TypeOK, Thread
  <2>2. pc[locks[l]] \in FirstSection \cup SecondSection
    BY <2>1 DEF LockInv, Holds
  <2> QED BY <2>1, <2>2 DEF Runnable, FirstSection, SecondSection
<1>3. \A t \in Thread : pc[t] \notin {"lock1", "lock2"}
  BY <1>2, IndicesInRange DEF Runnable
<1>4. \A t \in Thread : pc[t] \in {"wait", "exit"}
  BY <1>1, <1>3 DEF Runnable, TypeOK, LoopPc, FirstSection, SecondSection
<1>5. \A t \in Thread : pc[t] # "wait"
  BY <1>4 DEF Runnable
<1> QED BY <1>1, <1>4, <1>5

\* The ranks are bounded.
LEMMA RanksBounded == IInv => RanksEnd
<1> SUFFICES ASSUME IInv PROVE RanksEnd
  OBVIOUS
<1>1. MainRank \in 0 .. 2 * NumProcs + 1
  BY MainRankRange DEF IInv, TypeOK, MainTypeOK
<1>2. ASSUME NEW t \in Thread
      PROVE  Rank(t) \in 0 .. 11 + 8 * MaxLoop
  <2>1. /\ pc[t] \in {"idle", "start", "wait", "exit"} \cup LoopPc
        /\ iter[t] \in 0 .. MaxLoop /\ MaxLoop \in Nat
    BY MainAssumption DEF IInv, TypeOK
  <2>2. Place(pc[t]) \in 0 .. 11
    BY <2>1 DEF Place, LoopPc, FirstSection, SecondSection
  <2> QED BY <2>1, <2>2 DEF Rank
<1> QED BY <1>1, <1>2 DEF RanksEnd

\* A step of a thread takes that thread further and leaves the others and main()
\* where they are.
LEMMA ThreadAdvances ==
  ASSUME IInv, RanksEnd, RanksEnd', NEW t \in Thread, ThreadBody(t)
  PROVE  Advance
<1>1. UNCHANGED mainVars /\ \A u \in Thread : u # t => pc'[u] = pc[u] /\ iter'[u] = iter[u]
  BY DEF ThreadBody, ArriveBarrier, PassBarrier, LockFirst, ReadFirst, UnlockFirst, LockSecond,
     ReadSecond, WriteSecond, UnlockSecond, SaveSig, LeaveLoop, localVars, IInv, TypeOK
<1>2. MainRank' = MainRank /\ \A u \in Thread : u # t => Rank(u)' = Rank(u)
  BY <1>1 DEF MainRank, mainVars, Rank
<1>3. iter[t] \in Nat
  BY DEF IInv, TypeOK
<1>4. \/ iter'[t] = iter[t] /\ Place(pc'[t]) = Place(pc[t]) + 1
      \/ iter'[t] = iter[t] /\ Place(pc[t]) = 3 /\ Place(pc'[t]) = 11
      \/ iter'[t] = iter[t] + 1 /\ Place(pc[t]) = 10 /\ Place(pc'[t]) = 3
  <2> USE DEF IInv, TypeOK, localVars, Place
  <2>1. CASE ArriveBarrier(t)
    BY <2>1 DEF ArriveBarrier
  <2>2. CASE PassBarrier(t)
    BY <2>2 DEF PassBarrier
  <2>3. CASE LockFirst(t)
    <3>1. pc[t] = "lock1" /\ pc'[t] = "load1" /\ iter'[t] = iter[t]
      BY <2>3 DEF LockFirst
    <3> QED BY <3>1
  <2>4. CASE ReadFirst(t)
    BY <2>4 DEF ReadFirst
  <2>5. CASE UnlockFirst(t)
    BY <2>5 DEF UnlockFirst
  <2>6. CASE LockSecond(t)
    BY <2>6 DEF LockSecond
  <2>7. CASE ReadSecond(t)
    BY <2>7 DEF ReadSecond
  <2>8. CASE WriteSecond(t)
    BY <2>8 DEF WriteSecond
  <2>9. CASE UnlockSecond(t)
    BY <2>9 DEF UnlockSecond
  <2>10. CASE SaveSig(t)
    BY <2>10 DEF SaveSig
  <2>11. CASE LeaveLoop(t)
    BY <2>11 DEF LeaveLoop
  <2> QED BY <2>1, <2>2, <2>3, <2>4, <2>5, <2>6, <2>7, <2>8, <2>9, <2>10, <2>11 DEF ThreadBody
<1>5. Rank(t)' > Rank(t)
  <2>1. Place(pc[t]) \in 0 .. 11
    BY DEF Place, IInv, TypeOK, LoopPc, FirstSection, SecondSection
  <2> QED BY <1>3, <1>4, <2>1 DEF Rank
<1> QED BY <1>2, <1>5, MainAssumption DEF Advance, RanksEnd

\* A step of main() takes main() further, and may create a thread.
LEMMA MainStepAdvances ==
  ASSUME IInv, RanksEnd, RanksEnd', main
  PROVE  Advance
<1>1. MainRank' > MainRank
  BY MainAdvances DEF main, MainStep, ComputeResult, IInv, TypeOK, MainTypeOK
<1>2. ASSUME NEW t \in Thread
      PROVE  Rank(t)' >= Rank(t)
  <2>1. iter[t] \in Nat /\ iter' = iter
    BY DEF main, localVars, IInv, TypeOK
  <2>2. CASE pc'[t] = pc[t]
    BY <2>1, <2>2, MainAssumption DEF Rank, RanksEnd
  <2>3. CASE pc[t] = "idle" /\ pc'[t] = "start"
    BY <2>1, <2>3 DEF Rank, Place
  <2>4. pc'[t] = pc[t] \/ (pc[t] = "idle" /\ pc'[t] = "start")
    BY MainAssumption DEF main, MainStep, CreateThread, JoinThread, ComputeResult, IInv, MainInv,
       TypeOK, MainTypeOK, Thread
  <2> QED BY <2>2, <2>3, <2>4
<1> QED BY <1>1, <1>2, MainAssumption DEF Advance, RanksEnd

\* racey-guarded.c never deadlocks, although a thread asks for locks in any order:
\* until main() has printed, some thread is neither at a closed barrier nor at a
\* lock that is taken, or main() is not held up by a join.
THEOREM GuardedNeverStuck == Spec => []SomebodyRuns
  BY GuardedInvariant, SomebodyMoves, PTL

\* Every step of racey-guarded.c takes a thread or main() further and none back,
\* and none has further to go than its last step.  With GuardedNeverStuck this is
\* why the program ends, after a bounded number of steps, however it is scheduled.
THEOREM GuardedAdvances == Spec => []RanksEnd /\ [][Advance]_vars
<1>1. IInv /\ RanksEnd /\ RanksEnd' /\ [Next]_vars => [Advance]_vars
  BY ThreadAdvances, MainStepAdvances DEF Next, Terminated
<1> QED
  BY <1>1, GuardedInvariant, RanksBounded, PTL DEF Spec
=============================================================================
