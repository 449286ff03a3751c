----------------------------- MODULE RaceySignal ----------------------------
(***************************************************************************)
(* racey-signal.c.  Every npersig iterations a thread sends SIGUSR1 to a   *)
(* thread its value picks, perhaps itself.  The handler runs on the target *)
(* thread, between any two of its steps, and mixes m[] as the main loop    *)
(* does, with sig2[] for sig[].  The barrier is used twice: nobody sends a *)
(* signal before all threads have come, nobody returns while one may still *)
(* be sent.                                                                *)
(*                                                                         *)
(* A pending signal is one bit: signals sent before the handler runs are   *)
(* one.  The handler does not interrupt itself (sa_flags = 0).             *)
(***************************************************************************)
EXTENDS MixLoop

CONSTANTS
  SigLen,       \* 33, the length of sig[] and sig2[]
  HandlerLoop   \* 100, the iterations of the handler

ASSUME SignalAssumption ==
  /\ SigLen \in Nat /\ NumProcs < SigLen /\ SigLen <= Word
  /\ HandlerLoop \in Nat \ {0}

\* The iterations between two signals.
npersig == IF MaxLoop >= 1000 THEN MaxLoop \div 1000
           ELSE IF MaxLoop >= 100 THEN MaxLoop \div 100 ELSE 1

VARIABLES
  k,            \* the local k of ThreadBody: iterations since the last signal
  sig2,         \* sig2[1 .. NumProcs]
  known,        \* the threads whose pthread_self() is in threadSelfs[]
  pending,      \* the threads with a SIGUSR1 pending
  hpc,          \* where each thread's handler stands, "none" when it does not run
  hiter, hnum, hindex2   \* the handler's locals

handlerVars == <<sig2, hpc, hiter, hnum, hindex2>>
vars == <<pc, m, sig, mainVars, loopVars, k, known, pending, handlerVars>>

TypeOK ==
  /\ pc \in [Thread -> {"idle", "start", "wait", "wait2", "return", "exit"} \cup LoopPc]
  /\ MainTypeOK
  /\ LoopTypeOK
  /\ k \in [Thread -> 0 .. npersig]
  /\ sig2 \in [Thread -> Unsigned]
  /\ known \subseteq Thread
  /\ pending \subseteq Thread
  /\ hpc \in [Thread -> {"none"} \cup LoopPc]
  /\ hiter \in [Thread -> 0 .. HandlerLoop]
  /\ hnum \in [Thread -> Mixed]
  /\ hindex2 \in [Thread -> Elem]

\* sig2[i] = sig[33-i]; sig2[0], which is sig[33] and so undefined, is not used.
Init ==
  /\ MainInit
  /\ LoopInit
  /\ k = [t \in Thread |-> 0]
  /\ sig2 = [t \in Thread |-> SigLen - t]
  /\ known = {}
  /\ pending = {}
  /\ hpc = [t \in Thread |-> "none"]
  /\ hiter = [t \in Thread |-> 0]
  /\ hnum = [t \in Thread |-> 0]
  /\ hindex2 = [t \in Thread |-> 0]
-----------------------------------------------------------------------------
\* threadSelfs[threadId] = pthread_self(); sigaction(SIGUSR1, &sa, NULL); and
\* the thread comes to the barrier.
Announce(t) ==
  /\ pc[t] = "start"
  /\ known' = known \cup {t}
  /\ pc' = [pc EXCEPT ![t] = "wait"]
  /\ UNCHANGED <<m, sig, mainVars, loopVars, k, pending, handlerVars>>

\* pthread_barrier_wait(&barrier), before the loop
PassBarrier(t) ==
  /\ pc[t] = "wait"
  /\ \A u \in Thread : pc[u] \notin {"idle", "start"}
  /\ pc' = [pc EXCEPT ![t] = "loop"]
  /\ UNCHANGED <<m, sig, mainVars, loopVars, k, known, pending, handlerVars>>

\* One iteration, k < npersig && i < MaxLoop, and ++k, ++i at its end.
Iterate(t) ==
  /\ \/ k[t] < npersig /\ LoadFirst(t) /\ UNCHANGED k
     \/ LoadSecond(t) /\ UNCHANGED k
     \/ StoreSecond(t) /\ k' = [k EXCEPT ![t] = @ + 1]
  /\ UNCHANGED <<known, pending, handlerVars>>

\* The iterations of this signal are done.
Due(t) == pc[t] = "loop" /\ (k[t] = npersig \/ (iter[t] = MaxLoop /\ k[t] > 0))

Target(t) == (sig[t] % NumProcs) + 1

\* Mutant: k goes on from where it was, and the signal is due again at once.
KillKeepingK(t) ==
  /\ Due(t)
  /\ pending' = pending \cup ({Target(t)} \ {t})
  /\ UNCHANGED <<pc, m, sig, mainVars, loopVars, k, known, handlerVars>>

\* pthread_kill(threadSelfs[Target(t)], SIGUSR1).  A thread that signals itself
\* runs its handler before pthread_kill returns.
Kill(t) ==
  /\ Due(t)
  /\ k' = [k EXCEPT ![t] = 0]
  /\ IF Target(t) = t
       THEN /\ hpc' = [hpc EXCEPT ![t] = "loop"]
            /\ hiter' = [hiter EXCEPT ![t] = 0]
            /\ pending' = pending \ {t}
       ELSE /\ pending' = pending \cup {Target(t)}
            /\ UNCHANGED <<hpc, hiter>>
  /\ UNCHANGED <<pc, m, sig, mainVars, loopVars, known, sig2, hnum, hindex2>>

\* i == MaxLoop: the thread comes to the barrier again.
LeaveMainLoop(t) ==
  /\ pc[t] = "loop"
  /\ iter[t] = MaxLoop /\ k[t] = 0
  /\ pc' = [pc EXCEPT ![t] = "wait2"]
  /\ UNCHANGED <<m, sig, mainVars, loopVars, k, known, pending, handlerVars>>

\* Mutant: the second barrier, which "would be nice to *not* put", is left out.
PassSecondBarrierAtOnce(t) ==
  /\ pc[t] = "wait2"
  /\ pc' = [pc EXCEPT ![t] = "return"]
  /\ UNCHANGED <<m, sig, mainVars, loopVars, k, known, pending, handlerVars>>

\* pthread_barrier_wait(&barrier), after the loop
PassSecondBarrier(t) ==
  /\ pc[t] = "wait2"
  /\ \A u \in Thread : pc[u] \in {"wait2", "return", "exit"}
  /\ pc' = [pc EXCEPT ![t] = "return"]
  /\ UNCHANGED <<m, sig, mainVars, loopVars, k, known, pending, handlerVars>>

\* return NULL.  A signal still pending is never handled.
Return(t) ==
  /\ pc[t] = "return"
  /\ pending' = pending \ {t}
  /\ pc' = [pc EXCEPT ![t] = "exit"]
  /\ UNCHANGED <<m, sig, mainVars, loopVars, k, known, handlerVars>>

ThreadBody(t) ==
  /\ hpc[t] = "none"
  /\ \/ Announce(t) \/ PassBarrier(t)
     \/ Iterate(t) \/ Kill(t)
     \/ LeaveMainLoop(t) \/ PassSecondBarrier(t) \/ Return(t)
-----------------------------------------------------------------------------
\* The pending signal interrupts the thread.
Deliver(t) ==
  /\ t \in pending
  /\ hpc[t] = "none"
  /\ pending' = pending \ {t}
  /\ hpc' = [hpc EXCEPT ![t] = "loop"]
  /\ hiter' = [hiter EXCEPT ![t] = 0]
  /\ UNCHANGED <<pc, m, sig, mainVars, loopVars, k, known, sig2, hnum, hindex2>>

\* Mutant: i <= 100.
HandlerLoadOnceMore(t) ==
  /\ hpc[t] = "loop"
  /\ hiter[t] <= HandlerLoop
  /\ hnum' = [hnum EXCEPT ![t] = Mix(sig2[t], m[IndexOf(sig2[t])])]
  /\ hpc' = [hpc EXCEPT ![t] = "second"]
  /\ UNCHANGED <<m, sig2, hiter, hindex2>>

HandlerLoadFirst(t) ==
  /\ hpc[t] = "loop"
  /\ hiter[t] < HandlerLoop
  /\ hnum' = [hnum EXCEPT ![t] = Mix(sig2[t], m[IndexOf(sig2[t])])]
  /\ hpc' = [hpc EXCEPT ![t] = "second"]
  /\ UNCHANGED <<m, sig2, hiter, hindex2>>

HandlerLoadSecond(t) ==
  /\ hpc[t] = "second"
  /\ hindex2' = [hindex2 EXCEPT ![t] = IndexOf(hnum[t])]
  /\ hnum' = [hnum EXCEPT ![t] = Mix(hnum[t], m[IndexOf(hnum[t])])]
  /\ hpc' = [hpc EXCEPT ![t] = "store"]
  /\ UNCHANGED <<m, sig2, hiter>>

HandlerStore(t) ==
  /\ hpc[t] = "store"
  /\ m' = [m EXCEPT ![hindex2[t]] = hnum[t]]
  /\ sig2' = [sig2 EXCEPT ![t] = hnum[t]]
  /\ hiter' = [hiter EXCEPT ![t] = @ + 1]
  /\ hpc' = [hpc EXCEPT ![t] = "loop"]
  /\ UNCHANGED <<hnum, hindex2>>

HandlerReturn(t) ==
  /\ hpc[t] = "loop"
  /\ hiter[t] = HandlerLoop
  /\ hpc' = [hpc EXCEPT ![t] = "none"]
  /\ UNCHANGED <<m, sig2, hiter, hnum, hindex2>>

ThreadSignalHandler(t) ==
  /\ \/ HandlerLoadFirst(t) \/ HandlerLoadSecond(t)
     \/ HandlerStore(t) \/ HandlerReturn(t)
  /\ UNCHANGED <<pc, sig, mainVars, loopVars, k, known, pending>>
-----------------------------------------------------------------------------
\* The loops over sig[] and sig2[]; the second stops before the last thread too.
ComputeSignature ==
  LET fold[j \in 0 .. NumProcs - 1] ==
        IF j = 0 THEN Signature(sig, NumProcs) ELSE Mix(sig2[j], fold[j - 1])
  IN  fold[NumProcs - 1]

ComputeBoth ==
  /\ mainPc = "result"
  /\ mixSig' = ComputeSignature
  /\ mainPc' = "done"
  /\ UNCHANGED <<pc, m, sig, mainI>>

main ==
  /\ CreateThread \/ JoinThread \/ ComputeBoth
  /\ UNCHANGED <<loopVars, k, known, pending, handlerVars>>

\* A thread runs its body, or its handler while that has interrupted it.
Step(t) == ThreadBody(t) \/ Deliver(t) \/ ThreadSignalHandler(t)

\* The process has printed its signature and returned.
Terminated == mainPc = "done" /\ UNCHANGED vars

Next == main \/ Terminated \/ \E t \in Thread : Step(t)

\* The kernel schedules every runnable thread again and again.
Fairness == WF_vars(main) /\ \A t \in Thread : WF_vars(Step(t))

Spec == Init /\ [][Next]_vars
FairSpec == Spec /\ Fairness
-----------------------------------------------------------------------------
\* "some versions of pthreads have a bug that causes pthread_kill() to segfault
\* ... if trying to send a signal to a dead thread" (:129-131): whoever is about
\* to signal signals a thread that has stored its pthread_self(), has installed
\* the handler and has not returned.
KillsTheLiving ==
  \A t \in Thread :
    Due(t) => Target(t) \in known /\ pc[Target(t)] # "exit"

\* The signature is folded from final values: no handler is running or can still
\* run, and mix_sig is the fold of the sig[] and sig2[] one sees then.
SignatureIsFinal ==
  mainPc = "done" =>
    /\ pending = {}
    /\ \A t \in Thread : pc[t] = "exit" /\ hpc[t] = "none" /\ iter[t] = MaxLoop
    /\ mixSig = ComputeSignature

\* However often the threads interrupt each other, they all return.
Termination == <>(mainPc = "done")
=============================================================================
