-------------------------- MODULE RaceySignalProofs -------------------------
(***************************************************************************)
(* Proofs about racey-signal.c for every number of threads, loop count,    *)
(* handler length, word and primes.                                        *)
(***************************************************************************)
EXTENDS RaceySignal, RaceyMixProofs

\* Who has come to the first barrier has stored its pthread_self().
KnownInv == \A t \in Thread : pc[t] \notin {"idle", "start"} => t \in known

\* Past the first barrier everybody has come to it, past the second everybody has
\* left the loop.
BarrierInv ==
  \A t \in Thread :
    /\ pc[t] \in LoopPc \cup {"wait2", "return", "exit"} =>
         \A u \in Thread : pc[u] \notin {"idle", "start"}
    /\ pc[t] \in {"return", "exit"} =>
         \A u \in Thread : pc[u] \in {"wait2", "return", "exit"}

\* Only a thread that lives has a signal pending or its handler running.
HandlerInv ==
  \A t \in Thread :
    t \in pending \/ hpc[t] # "none" => pc[t] \notin {"idle", "start", "exit"}

\* What the counters say within an iteration, and after the loop.
CountInv ==
  \A t \in Thread :
    /\ pc[t] \in {"second", "store"} => iter[t] < MaxLoop /\ k[t] < npersig
    /\ pc[t] \in {"wait2", "return", "exit"} => iter[t] = MaxLoop
    /\ hpc[t] \in {"second", "store"} => hiter[t] < HandlerLoop

SigInv ==
  /\ TypeOK /\ MainInv
  /\ KnownInv /\ BarrierInv /\ HandlerInv /\ CountInv
  /\ SignatureIsFinal
-----------------------------------------------------------------------------
\* At least one iteration lies between two signals.
LEMMA PersigType == npersig \in Nat \ {0}
<1>1. MaxLoop \in Nat \ {0}
  BY MainAssumption
<1>2. CASE MaxLoop >= 1000
  BY <1>1, <1>2 DEF npersig
<1>3. CASE MaxLoop < 1000 /\ MaxLoop >= 100
  BY <1>1, <1>3 DEF npersig
<1>4. CASE MaxLoop < 100
  BY <1>1, <1>4 DEF npersig
<1> QED BY <1>1, <1>2, <1>3, <1>4

\* A value picks one of the threads.
LEMMA TargetIsThread ==
  ASSUME TypeOK, NEW t \in Thread
  PROVE  Target(t) \in Thread
<1>1. sig[t] \in Nat
  BY MixAssumption, MainAssumption DEF TypeOK, MainTypeOK, Unsigned, Thread
<1>2. sig[t] % NumProcs \in 0 .. NumProcs - 1
  BY <1>1, ModRange, MainAssumption
<1> QED
  BY <1>2, MainAssumption DEF Target, Thread

\* Whom a thread is about to signal has come to the first barrier, since the
\* sender has passed it, and has not passed the second, since the sender has not.
LEMMA TargetLives ==
  ASSUME SigInv
  PROVE  KillsTheLiving
  BY TargetIsThread DEF SigInv, KnownInv, BarrierInv, KillsTheLiving, Due, LoopPc

\* main() has not come to its end while a thread has not returned.
LEMMA NotYetDone ==
  ASSUME SigInv, NEW t \in Thread, pc[t] # "exit", UNCHANGED mainPc
  PROVE  SignatureIsFinal'
  BY DEF SigInv, MainInv, SignatureIsFinal

LEMMA InitSigInv == Init => SigInv
<1> SUFFICES ASSUME Init PROVE SigInv
  OBVIOUS
<1> USE DEF Init, MainInit, LoopInit
<1>1. m \in [Elem -> Mixed]
  BY InitialMRange
<1>2. 0 \in Elem /\ 0 \in Mixed /\ \A t \in 0 .. NumProcs : t \in Unsigned
  BY MixAssumption, MainAssumption DEF Elem, Unsigned, Mixed
<1>3. \A t \in Thread : SigLen - t \in Unsigned
  BY SignalAssumption, MainAssumption, MixAssumption DEF Thread, Unsigned
<1>4. TypeOK
  BY <1>1, <1>2, <1>3, MainAssumption, SignalAssumption, PersigType
  DEF TypeOK, MainTypeOK, LoopTypeOK, Thread
<1>5. MainInv
  BY MainAssumption DEF MainInv, Thread
<1>6. KnownInv /\ BarrierInv /\ HandlerInv /\ CountInv /\ SignatureIsFinal
  BY DEF KnownInv, BarrierInv, HandlerInv, CountInv, SignatureIsFinal, LoopPc
<1> QED
  BY <1>4, <1>5, <1>6 DEF SigInv

LEMMA MainStepSigInv ==
  ASSUME SigInv, main
  PROVE  SigInv'
<1> USE DEF SigInv, MainInv
<1>1. UNCHANGED <<m, sig, loopVars, k, known, pending, handlerVars>>
  BY DEF main, CreateThread, JoinThread, ComputeBoth
<1>2. UNCHANGED <<iter, num, index2, sig2, hpc, hiter, hnum, hindex2>>
  BY <1>1 DEF loopVars, handlerVars
<1>3. CASE CreateThread
  <2> DEFINE t == mainI + 1
  <2>1. t \in Thread /\ pc[t] = "idle" /\ pc' = [pc EXCEPT ![t] = "start"]
    BY <1>3, MainAssumption DEF CreateThread, Thread, TypeOK, MainTypeOK
  <2>2. TypeOK'
    BY <1>1, <1>2, <1>3, <2>1, MainAssumption DEF CreateThread, TypeOK, MainTypeOK, LoopTypeOK
  <2>3. MainInv'
    <3>1. CASE t < NumProcs
      BY <1>3, <2>1, <3>1 DEF CreateThread, Thread, TypeOK, MainTypeOK
    <3>2. CASE ~(t < NumProcs)
      BY <1>3, <2>1, <3>2, MainAssumption DEF CreateThread, Thread, TypeOK, MainTypeOK
    <3> QED BY <3>1, <3>2
  <2>4. \A u \in Thread : pc[u] \notin LoopPc \cup {"wait2", "return", "exit"}
    BY <2>1 DEF BarrierInv
  <2>5. KnownInv' /\ BarrierInv' /\ CountInv'
    BY <1>1, <1>2, <2>1, <2>4 DEF KnownInv, BarrierInv, CountInv, LoopPc, TypeOK
  <2>6. HandlerInv'
    BY <1>1, <1>2, <2>1 DEF HandlerInv, TypeOK
  <2>7. SignatureIsFinal'
    BY <1>3 DEF SignatureIsFinal, CreateThread
  <2> QED BY <2>2, <2>3, <2>5, <2>6, <2>7
<1>4. CASE JoinThread
  <2>1. UNCHANGED pc
    BY <1>4 DEF JoinThread
  <2>2. TypeOK' /\ MainInv'
    <3>1. /\ mainPc = "join" /\ pc[mainI + 1] = "exit" /\ mainI' = mainI + 1
          /\ mainPc' = IF mainI + 1 < NumProcs THEN "join" ELSE "result"
          /\ mainI \in Nat /\ mainI < NumProcs
      BY <1>4 DEF JoinThread, TypeOK, MainTypeOK
    <3>2. TypeOK'
      BY <1>1, <1>2, <2>1, <3>1, MainAssumption DEF TypeOK, MainTypeOK, LoopTypeOK
    <3>3. MainInv'
      BY <2>1, <3>1, MainAssumption DEF Thread
    <3> QED BY <3>2, <3>3
  <2>3. KnownInv' /\ BarrierInv' /\ HandlerInv' /\ CountInv'
    BY <1>1, <1>2, <2>1 DEF KnownInv, BarrierInv, HandlerInv, CountInv
  <2>4. SignatureIsFinal'
    BY <1>4 DEF SignatureIsFinal, JoinThread
  <2> QED BY <2>2, <2>3, <2>4
<1>5. CASE ComputeBoth
  <2>1. UNCHANGED <<pc, mainI>> /\ mainPc = "result" /\ mainPc' = "done"
    BY <1>5 DEF ComputeBoth
  <2>2. TypeOK' /\ MainInv'
    BY <1>1, <1>2, <2>1 DEF TypeOK, MainTypeOK, LoopTypeOK
  <2>3. KnownInv' /\ BarrierInv' /\ HandlerInv' /\ CountInv'
    BY <1>1, <1>2, <2>1 DEF KnownInv, BarrierInv, HandlerInv, CountInv
  <2>4. /\ pending = {}
        /\ \A t \in Thread : pc[t] = "exit" /\ hpc[t] = "none" /\ iter[t] = MaxLoop
    BY <2>1 DEF HandlerInv, CountInv, TypeOK
  <2>5. mixSig' = ComputeSignature'
    BY <1>1, <1>2, <1>5 DEF ComputeBoth, ComputeSignature
  <2>6. SignatureIsFinal'
    BY <1>1, <1>2, <2>1, <2>4, <2>5 DEF SignatureIsFinal
  <2> QED BY <2>2, <2>3, <2>6
<1> QED
  BY <1>3, <1>4, <1>5 DEF main

\* The barriers and the way out.
LEMMA BarrierStepSigInv ==
  ASSUME SigInv, NEW t \in Thread, hpc[t] = "none",
         \/ Announce(t) \/ PassBarrier(t) \/ LeaveMainLoop(t)
         \/ PassSecondBarrier(t) \/ Return(t)
  PROVE  SigInv'
<1> USE DEF SigInv
<1>1. /\ UNCHANGED <<m, sig, mainPc, mainI, mixSig, iter, num, index2, k>>
      /\ UNCHANGED <<sig2, hpc, hiter, hnum, hindex2>>
      /\ pc[t] \notin {"idle", "exit"}
      /\ \E l \in {"wait", "loop", "wait2", "return", "exit"} : pc' = [pc EXCEPT ![t] = l]
  BY DEF Announce, PassBarrier, LeaveMainLoop, PassSecondBarrier, Return,
     mainVars, loopVars, handlerVars
<1>2. /\ known' \in {known, known \cup {t}}
      /\ pending' \in {pending, pending \ {t}}
  BY DEF Announce, PassBarrier, LeaveMainLoop, PassSecondBarrier, Return
<1>3. MainInv' /\ SignatureIsFinal'
  BY <1>1, NotYetDone DEF MainInv, TypeOK
<1>4. TypeOK'
  BY <1>1, <1>2 DEF TypeOK, MainTypeOK, LoopTypeOK, LoopPc
<1>5. KnownInv' /\ BarrierInv' /\ HandlerInv' /\ CountInv'
  <2> USE DEF KnownInv, BarrierInv, HandlerInv, CountInv, TypeOK, LoopPc
  <2>1. CASE Announce(t)
    BY <1>1, <2>1 DEF Announce
  <2>2. CASE PassBarrier(t)
    BY <1>1, <2>2 DEF PassBarrier
  <2>3. CASE LeaveMainLoop(t)
    BY <1>1, <2>3 DEF LeaveMainLoop
  <2>4. CASE PassSecondBarrier(t)
    BY <1>1, <2>4 DEF PassSecondBarrier
  <2>5. CASE Return(t)
    BY <1>1, <2>5 DEF Return
  <2> QED BY <2>1, <2>2, <2>3, <2>4, <2>5
<1> QED BY <1>3, <1>4, <1>5

\* An iteration stays within the loop and within the range of mix().
LEMMA IterateSigInv ==
  ASSUME SigInv, NEW t \in Thread, Iterate(t)
  PROVE  SigInv'
<1> USE DEF SigInv
<1>1. /\ UNCHANGED <<mainPc, mainI, mixSig, known, pending, sig2, hpc, hiter, hnum, hindex2>>
      /\ pc[t] \in LoopPc /\ \E l \in LoopPc : pc' = [pc EXCEPT ![t] = l]
  BY DEF Iterate, LoadFirst, LoadSecond, StoreSecond, mainVars, handlerVars, LoopPc
<1>2. MainInv' /\ SignatureIsFinal'
  BY <1>1, NotYetDone DEF MainInv, TypeOK, LoopPc
<1>3. KnownInv' /\ BarrierInv' /\ HandlerInv'
  BY <1>1 DEF KnownInv, BarrierInv, HandlerInv, TypeOK, LoopPc
<1>4. sig[t] \in Nat /\ num[t] \in Nat
  BY MixAssumption DEF TypeOK, MainTypeOK, LoopTypeOK, Unsigned, Mixed, Thread
<1>5. \A n \in Nat : IndexOf(n) \in Elem /\ m[IndexOf(n)] \in Nat
  <2>1. \A e \in Elem : m[e] \in Mixed
    BY DEF TypeOK, MainTypeOK
  <2>2. Mixed \subseteq Nat
    BY MixAssumption DEF Mixed
  <2> QED
    BY IndexRange, <2>1, <2>2
<1>6. TypeOK' /\ CountInv'
  <2> USE DEF TypeOK, MainTypeOK, LoopTypeOK, CountInv, LoopPc
  <2>1. CASE LoadFirst(t) /\ k[t] < npersig /\ UNCHANGED k
    <3>1. num' \in [Thread -> Mixed]
      BY <2>1, <1>4, <1>5, MixRange DEF LoadFirst
    <3> QED BY <1>1, <2>1, <3>1 DEF LoadFirst
  <2>2. CASE LoadSecond(t) /\ UNCHANGED k
    <3>1. num' \in [Thread -> Mixed] /\ index2' \in [Thread -> Elem]
      BY <2>2, <1>4, <1>5, MixRange DEF LoadSecond
    <3> QED BY <1>1, <2>2, <3>1 DEF LoadSecond
  <2>3. CASE StoreSecond(t) /\ k' = [k EXCEPT ![t] = k[t] + 1]
    <3>1. m' \in [Elem -> Mixed] /\ sig' \in [0 .. NumProcs -> Unsigned]
      BY <2>3, MixedIsUnsigned DEF StoreSecond
    <3>2. iter[t] < MaxLoop /\ k[t] < npersig
      BY <2>3 DEF StoreSecond
    <3>3. iter' \in [Thread -> 0 .. MaxLoop] /\ k' \in [Thread -> 0 .. npersig]
      BY <2>3, <3>2, MainAssumption, PersigType DEF StoreSecond
    <3> QED BY <1>1, <2>3, <3>1, <3>3 DEF StoreSecond
  <2> QED BY <2>1, <2>2, <2>3 DEF Iterate
<1> QED BY <1>2, <1>3, <1>6

\* A signal is sent to a thread that lives, which it then finds alive.
LEMMA KillSigInv ==
  ASSUME SigInv, NEW t \in Thread, hpc[t] = "none", Kill(t)
  PROVE  SigInv'
<1> USE DEF SigInv
<1>1. /\ UNCHANGED <<pc, m, sig, mainPc, mainI, mixSig, iter, num, index2, known>>
      /\ UNCHANGED <<sig2, hnum, hindex2>>
      /\ k' = [k EXCEPT ![t] = 0] /\ pc[t] = "loop" /\ Due(t)
  BY DEF Kill, mainVars, loopVars, Due
<1>2. Target(t) \in Thread /\ pc[Target(t)] \notin {"idle", "start", "exit"}
  BY <1>1, TargetIsThread DEF BarrierInv, LoopPc
<1>3. MainInv' /\ SignatureIsFinal'
  BY <1>1, NotYetDone DEF MainInv
<1>4. KnownInv' /\ BarrierInv'
  BY <1>1 DEF KnownInv, BarrierInv
<1>5. /\ \/ hpc' = hpc /\ hiter' = hiter
         \/ hpc' = [hpc EXCEPT ![t] = "loop"] /\ hiter' = [hiter EXCEPT ![t] = 0]
      /\ pending' \in {pending \ {t}, pending \cup {Target(t)}}
  BY DEF Kill
<1>6. TypeOK'
  <2>1. pending' \subseteq Thread
    BY <1>2, <1>5 DEF TypeOK
  <2>2. hpc' \in [Thread -> {"none"} \cup LoopPc] /\ hiter' \in [Thread -> 0 .. HandlerLoop]
    BY <1>5, SignalAssumption DEF TypeOK, LoopPc
  <2>3. k' \in [Thread -> 0 .. npersig]
    BY <1>1, PersigType DEF TypeOK
  <2> QED
    BY <1>1, <2>1, <2>2, <2>3 DEF TypeOK, MainTypeOK, LoopTypeOK
<1>7. HandlerInv'
  BY <1>1, <1>2, <1>5 DEF HandlerInv, TypeOK
<1>8. CountInv'
  BY <1>1, <1>5 DEF CountInv, TypeOK
<1> QED BY <1>3, <1>4, <1>6, <1>7, <1>8

\* A signal is delivered, and the handler runs, on a thread that lives.
LEMMA HandlerSigInv ==
  ASSUME SigInv, NEW t \in Thread, Deliver(t) \/ ThreadSignalHandler(t)
  PROVE  SigInv'
<1> USE DEF SigInv
<1>1. UNCHANGED <<pc, sig, mainPc, mainI, mixSig, iter, num, index2, k, known>>
  BY DEF Deliver, ThreadSignalHandler, mainVars, loopVars
<1>2. pc[t] \notin {"idle", "start", "exit"}
  BY DEF HandlerInv, Deliver, ThreadSignalHandler, HandlerLoadFirst, HandlerLoadSecond,
     HandlerStore, HandlerReturn
<1>3. MainInv' /\ SignatureIsFinal'
  BY <1>1, <1>2, NotYetDone DEF MainInv
<1>4. KnownInv' /\ BarrierInv'
  BY <1>1 DEF KnownInv, BarrierInv
<1>5. sig2[t] \in Nat /\ hnum[t] \in Nat
  BY MixAssumption DEF TypeOK, Unsigned, Mixed
<1>6. \A n \in Nat : IndexOf(n) \in Elem /\ m[IndexOf(n)] \in Nat
  <2>1. \A e \in Elem : m[e] \in Mixed
    BY DEF TypeOK, MainTypeOK
  <2>2. Mixed \subseteq Nat
    BY MixAssumption DEF Mixed
  <2> QED
    BY IndexRange, <2>1, <2>2
<1>7. TypeOK' /\ HandlerInv' /\ CountInv'
  <2> USE DEF TypeOK, MainTypeOK, LoopTypeOK, HandlerInv, CountInv, LoopPc
  <2>1. CASE Deliver(t)
    BY <1>1, <1>2, <2>1, SignalAssumption DEF Deliver
  <2>2. CASE ThreadSignalHandler(t) /\ HandlerLoadFirst(t)
    <3>1. hnum' \in [Thread -> Mixed]
      BY <2>2, <1>5, <1>6, MixRange DEF HandlerLoadFirst
    <3> QED BY <1>1, <1>2, <2>2, <3>1 DEF ThreadSignalHandler, HandlerLoadFirst
  <2>3. CASE ThreadSignalHandler(t) /\ HandlerLoadSecond(t)
    <3>1. hnum' \in [Thread -> Mixed] /\ hindex2' \in [Thread -> Elem]
      BY <2>3, <1>5, <1>6, MixRange DEF HandlerLoadSecond
    <3> QED BY <1>1, <1>2, <2>3, <3>1 DEF ThreadSignalHandler, HandlerLoadSecond
  <2>4. CASE ThreadSignalHandler(t) /\ HandlerStore(t)
    <3>1. m' \in [Elem -> Mixed] /\ sig2' \in [Thread -> Unsigned]
      BY <2>4, MixedIsUnsigned DEF HandlerStore
    <3>2. hiter' \in [Thread -> 0 .. HandlerLoop]
      BY <2>4, SignalAssumption DEF HandlerStore
    <3> QED BY <1>1, <1>2, <2>4, <3>1, <3>2 DEF ThreadSignalHandler, HandlerStore
  <2>5. CASE ThreadSignalHandler(t) /\ HandlerReturn(t)
    BY <1>1, <1>2, <2>5 DEF ThreadSignalHandler, HandlerReturn
  <2> QED BY <2>1, <2>2, <2>3, <2>4, <2>5 DEF ThreadSignalHandler
<1> QED BY <1>3, <1>4, <1>7

LEMMA StutterSigInv ==
  ASSUME SigInv, UNCHANGED vars
  PROVE  SigInv'
  BY DEF SigInv, TypeOK, MainTypeOK, LoopTypeOK, MainInv, KnownInv, BarrierInv, HandlerInv,
     CountInv, SignatureIsFinal, ComputeSignature, vars, mainVars, loopVars, handlerVars

\* The inductive invariant: who has passed which barrier, and that signals and
\* handlers are found on living threads only.
THEOREM SignalInvariant == Spec => []SigInv
<1>1. SigInv /\ [Next]_vars => SigInv'
  BY MainStepSigInv, BarrierStepSigInv, IterateSigInv, KillSigInv, HandlerSigInv, StutterSigInv
     DEF Next, Step, ThreadBody, Terminated
<1> QED
  BY <1>1, InitSigInv, PTL DEF Spec

\* Indices, counters and mixed numbers keep their ranges, in the handler too.
THEOREM SignalTypeCorrect == Spec => []TypeOK
  BY SignalInvariant, PTL DEF SigInv

\* The two barriers (racey-signal.c:103, :133) are what makes pthread_kill() safe:
\* its target has stored its pthread_self() and has not returned.
THEOREM SignalKillsTheLiving == Spec => []KillsTheLiving
  BY SignalInvariant, TargetLives, PTL

\* No handler runs, and none can still be started, when main() folds sig[] and
\* sig2[] (:200-207).
THEOREM SignalSignatureIsFinal == Spec => []SignatureIsFinal
  BY SignalInvariant, PTL DEF SigInv
-----------------------------------------------------------------------------
\* Why the program ends, although its threads interrupt each other: whoever takes a
\* step comes nearer to the end, and a handler that starts uses a signal up.

\* t is at a step that it can take, in its body or in its handler.
Runnable(t) ==
  \/ hpc[t] # "none" \/ t \in pending
  \/ /\ pc[t] \notin {"idle", "exit"}
     /\ pc[t] = "wait" => \A u \in Thread : pc[u] \notin {"idle", "start"}
     /\ pc[t] = "wait2" => \A u \in Thread : pc[u] \in {"wait2", "return", "exit"}

SomebodyRuns == mainPc = "done" \/ MainRuns \/ \E t \in Thread : Runnable(t)

\* The place of a step in the body of a thread, 4 places in an iteration: at the
\* head of the loop a signal may be due first.
Place(label, counted) ==
  CASE label = "idle"   -> 0
    [] label = "start"  -> 1
    [] label = "wait"   -> 2
    [] label = "loop"   -> IF counted > 0 THEN 3 ELSE 4
    [] label = "second" -> 5
    [] label = "store"  -> 6
    [] label = "wait2"  -> 7
    [] label = "return" -> 8
    [] label = "exit"   -> 9

\* How far the body of t has come, and its handler, which is further when it has returned.
Rank(t) == Place(pc[t], k[t]) + 4 * iter[t]

HandlerPlace(label) ==
  CASE label = "loop"   -> 0
    [] label = "second" -> 1
    [] label = "store"  -> 2
    [] label = "none"   -> 3 * HandlerLoop + 1

HandlerRank(t) ==
  IF hpc[t] = "none" THEN HandlerPlace("none") ELSE HandlerPlace(hpc[t]) + 3 * hiter[t]

RanksEnd ==
  /\ MainRank \in 0 .. 2 * NumProcs + 1
  /\ \A t \in Thread : Rank(t) \in 0 .. 9 + 4 * MaxLoop
  /\ \A t \in Thread : HandlerRank(t) \in 0 .. 2 + 3 * HandlerLoop

\* The bodies and main() do not go back.  A step takes one of them further, or it
\* leaves one signal less to be handled, or, with the same signals pending, it takes
\* a handler further and none back.
Advance ==
  /\ MainRank' >= MainRank /\ \A t \in Thread : Rank(t)' >= Rank(t)
  /\ \/ MainRank' > MainRank
     \/ \E t \in Thread : Rank(t)' > Rank(t)
     \/ pending' \subseteq pending /\ pending' # pending
     \/ /\ pending' = pending
        /\ \A t \in Thread : HandlerRank(t)' >= HandlerRank(t)
        /\ \E t \in Thread : HandlerRank(t)' > HandlerRank(t)

\* Whoever waits at a barrier waits for a thread that is to come.
LEMMA SomebodyMoves == SigInv => SomebodyRuns
<1> SUFFICES ASSUME SigInv, mainPc # "done", ~MainRuns, \A t \in Thread : ~Runnable(t)
             PROVE  FALSE
  BY DEF SomebodyRuns
<1> USE DEF SigInv
<1>1. (\A t \in Thread : pc[t] # "idle") /\ \E t \in Thread : pc[t] # "exit"
  BY MainWaits DEF TypeOK
<1>2. \A t \in Thread : pc[t] \in {"wait", "wait2", "exit"}
  BY <1>1 DEF Runnable, TypeOK, LoopPc
<1>3. \A t \in Thread : pc[t] \in {"wait2", "exit"}
  BY <1>2 DEF Runnable
<1>4. \A t \in Thread : pc[t] = "exit"
  BY <1>3 DEF Runnable
<1> QED BY <1>1, <1>4

\* The ranks are bounded.
LEMMA RanksBounded == SigInv => RanksEnd
<1> SUFFICES ASSUME SigInv PROVE RanksEnd
  OBVIOUS
<1>1. MainRank \in 0 .. 2 * NumProcs + 1
  BY MainRankRange DEF SigInv, TypeOK, MainTypeOK
<1>2. ASSUME NEW t \in Thread
      PROVE  Rank(t) \in 0 .. 9 + 4 * MaxLoop /\ HandlerRank(t) \in 0 .. 2 + 3 * HandlerLoop
  <2>1. /\ pc[t] \in {"idle", "start", "wait", "wait2", "return", "exit"} \cup LoopPc
        /\ iter[t] \in 0 .. MaxLoop /\ MaxLoop \in Nat
    BY MainAssumption DEF SigInv, TypeOK, LoopTypeOK
  <2>2. Place(pc[t], k[t]) \in 0 .. 9
    BY <2>1 DEF Place, LoopPc
  <2>3. Rank(t) \in 0 .. 9 + 4 * MaxLoop
    BY <2>1, <2>2 DEF Rank
  <2>4. hpc[t] \in {"none"} \cup LoopPc /\ hiter[t] \in 0 .. HandlerLoop /\ HandlerLoop \in Nat
    BY SignalAssumption DEF SigInv, TypeOK
  <2>5. HandlerRank(t) \in 0 .. 2 + 3 * HandlerLoop
    BY <2>4 DEF HandlerRank, HandlerPlace, LoopPc
  <2> QED BY <2>3, <2>5
<1> QED BY <1>1, <1>2 DEF RanksEnd

\* A step of main() takes main() further, and may create a thread.
LEMMA MainStepAdvances ==
  ASSUME SigInv, RanksEnd, RanksEnd', main
  PROVE  Advance
<1>1. MainRank' > MainRank
  BY MainAdvances DEF main, ComputeBoth, SigInv, TypeOK, MainTypeOK
<1>2. ASSUME NEW t \in Thread
      PROVE  Rank(t)' >= Rank(t)
  <2>1. iter[t] \in Nat /\ iter' = iter /\ k' = k
    BY DEF main, loopVars, SigInv, TypeOK, LoopTypeOK
  <2>2. CASE pc'[t] = pc[t]
    BY <2>1, <2>2, MainAssumption DEF Rank, RanksEnd
  <2>3. CASE pc[t] = "idle" /\ pc'[t] = "start"
    BY <2>1, <2>3 DEF Rank, Place
  <2>4. pc'[t] = pc[t] \/ (pc[t] = "idle" /\ pc'[t] = "start")
    <3>1. CASE CreateThread
      <4>1. mainI + 1 \in Thread /\ pc[mainI + 1] = "idle"
        BY <3>1, MainAssumption DEF CreateThread, SigInv, MainInv, TypeOK, MainTypeOK, Thread
      <4> QED BY <3>1, <4>1 DEF CreateThread, SigInv, TypeOK
    <3>2. CASE JoinThread \/ ComputeBoth
      BY <3>2 DEF JoinThread, ComputeBoth
    <3> QED BY <3>1, <3>2 DEF main
  <2> QED BY <2>2, <2>3, <2>4
<1> QED BY <1>1, <1>2, MainAssumption DEF Advance, RanksEnd

\* A step of a body, the sending of a signal among them.
LEMMA BodyAdvances ==
  ASSUME SigInv, RanksEnd, RanksEnd', NEW t \in Thread, ThreadBody(t)
  PROVE  Advance
<1>1. /\ UNCHANGED mainVars
      /\ \A u \in Thread : u # t => pc'[u] = pc[u] /\ iter'[u] = iter[u] /\ k'[u] = k[u]
  BY DEF ThreadBody, Announce, PassBarrier, Iterate, LoadFirst, LoadSecond, StoreSecond, Kill,
     LeaveMainLoop, PassSecondBarrier, Return, loopVars, SigInv, TypeOK, LoopTypeOK
<1>2. MainRank' = MainRank /\ \A u \in Thread : u # t => Rank(u)' = Rank(u)
  BY <1>1 DEF MainRank, mainVars, Rank
<1>3. iter[t] \in Nat /\ k[t] \in Nat
  BY PersigType DEF SigInv, TypeOK, LoopTypeOK
<1>4. \/ iter'[t] = iter[t] /\ k'[t] = k[t] /\ pc[t] = "start" /\ pc'[t] = "wait"
      \/ iter'[t] = iter[t] /\ k'[t] = k[t] /\ pc[t] = "wait" /\ pc'[t] = "loop"
      \/ iter'[t] = iter[t] /\ k'[t] = k[t] /\ pc[t] = "loop" /\ pc'[t] = "second"
      \/ iter'[t] = iter[t] /\ k'[t] = k[t] /\ pc[t] = "second" /\ pc'[t] = "store"
      \/ iter'[t] = iter[t] + 1 /\ k'[t] = k[t] + 1 /\ pc[t] = "store" /\ pc'[t] = "loop"
      \/ iter'[t] = iter[t] /\ k[t] > 0 /\ k'[t] = 0 /\ pc[t] = "loop" /\ pc'[t] = "loop"
      \/ iter'[t] = iter[t] /\ k'[t] = k[t] /\ pc[t] = "loop" /\ pc'[t] = "wait2"
      \/ iter'[t] = iter[t] /\ k'[t] = k[t] /\ pc[t] = "wait2" /\ pc'[t] = "return"
      \/ iter'[t] = iter[t] /\ k'[t] = k[t] /\ pc[t] = "return" /\ pc'[t] = "exit"
  <2> USE DEF SigInv, TypeOK, LoopTypeOK, loopVars
  <2>1. CASE Announce(t) \/ PassBarrier(t)
    BY <2>1 DEF Announce, PassBarrier
  <2>2. CASE Iterate(t)
    BY <2>2 DEF Iterate, LoadFirst, LoadSecond, StoreSecond
  <2>3. CASE Kill(t)
    BY <2>3, PersigType DEF Kill, Due
  <2>4. CASE LeaveMainLoop(t) \/ PassSecondBarrier(t) \/ Return(t)
    BY <2>4 DEF LeaveMainLoop, PassSecondBarrier, Return
  <2> QED BY <2>1, <2>2, <2>3, <2>4 DEF ThreadBody
<1>5. Rank(t)' > Rank(t)
  <2>1. Rank(t)' = Place(pc'[t], k'[t]) + 4 * iter'[t]
    BY DEF Rank
  <2>2. \/ iter'[t] = iter[t] /\ Place(pc'[t], k'[t]) > Place(pc[t], k[t])
        \/ iter'[t] = iter[t] + 1 /\ Place(pc[t], k[t]) = 6 /\ Place(pc'[t], k'[t]) = 3
    BY <1>3, <1>4 DEF Place
  <2>3. Place(pc[t], k[t]) \in 0 .. 9 /\ Place(pc'[t], k'[t]) \in 0 .. 9
    BY <1>4 DEF Place
  <2> QED BY <1>3, <2>1, <2>2, <2>3 DEF Rank
<1> QED BY <1>2, <1>5, MainAssumption DEF Advance, RanksEnd

\* A step of a handler, the delivery of its signal among them.
LEMMA HandlerAdvances ==
  ASSUME SigInv, RanksEnd, RanksEnd', NEW t \in Thread, Deliver(t) \/ ThreadSignalHandler(t)
  PROVE  Advance
<1>1. UNCHANGED <<mainPc, mainI, pc, iter, k>>
  BY DEF Deliver, ThreadSignalHandler, mainVars, loopVars
<1>2. MainRank' >= MainRank /\ \A u \in Thread : Rank(u)' >= Rank(u)
  <2>1. MainRank' = MainRank /\ \A u \in Thread : Rank(u)' = Rank(u)
    BY <1>1 DEF MainRank, Rank
  <2> QED BY <2>1, MainAssumption DEF RanksEnd
<1>3. CASE Deliver(t)
  BY <1>2, <1>3 DEF Deliver, Advance
<1>4. CASE ThreadSignalHandler(t)
  <2>1. /\ pending' = pending
        /\ \A u \in Thread : u # t => hpc'[u] = hpc[u] /\ hiter'[u] = hiter[u]
    BY <1>4 DEF ThreadSignalHandler, HandlerLoadFirst, HandlerLoadSecond, HandlerStore,
       HandlerReturn, SigInv, TypeOK
  <2>2. \A u \in Thread : u # t => HandlerRank(u)' = HandlerRank(u)
    BY <2>1 DEF HandlerRank
  <2>3. \/ hpc[t] = "loop" /\ hpc'[t] = "second" /\ hiter'[t] = hiter[t]
        \/ hpc[t] = "second" /\ hpc'[t] = "store" /\ hiter'[t] = hiter[t]
        \/ hpc[t] = "store" /\ hpc'[t] = "loop" /\ hiter'[t] = hiter[t] + 1
        \/ hpc[t] = "loop" /\ hpc'[t] = "none" /\ hiter[t] = HandlerLoop
    BY <1>4 DEF ThreadSignalHandler, HandlerLoadFirst, HandlerLoadSecond, HandlerStore,
       HandlerReturn, SigInv, TypeOK
  <2>4. hiter[t] \in Nat /\ HandlerLoop \in Nat
    BY SignalAssumption DEF SigInv, TypeOK
  <2>5. HandlerRank(t)' > HandlerRank(t)
    BY <2>3, <2>4 DEF HandlerRank, HandlerPlace
  <2>6. \A u \in Thread : HandlerRank(u) \in Nat /\ HandlerRank(u)' \in Nat
    BY SignalAssumption DEF RanksEnd
  <2> QED BY <1>2, <2>1, <2>2, <2>5, <2>6 DEF Advance
<1> QED BY <1>3, <1>4

\* racey-signal.c never deadlocks, whoever interrupts whom: until main() has printed,
\* some thread is not held up by one of the two barriers, or main() not by a join.
THEOREM SignalNeverStuck == Spec => []SomebodyRuns
  BY SignalInvariant, SomebodyMoves, PTL

\* The threads interrupt each other finitely often: a handler runs for a signal that
\* was sent in an iteration, and no step of it sends another (racey-signal.c:64-78).  With
\* SignalNeverStuck this is why the program ends, however it is scheduled.
THEOREM SignalAdvances == Spec => []RanksEnd /\ [][Advance]_vars
<1>1. SigInv /\ RanksEnd /\ RanksEnd' /\ [Next]_vars => [Advance]_vars
  BY MainStepAdvances, BodyAdvances, HandlerAdvances DEF Next, Step, Terminated
<1> QED
  BY <1>1, SignalInvariant, RanksBounded, PTL DEF Spec
=============================================================================
