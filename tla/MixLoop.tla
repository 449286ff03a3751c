------------------------------ MODULE MixLoop -------------------------------
(***************************************************************************)
(* The main loop of a racey thread, at the grain of its accesses to the    *)
(* shared array:                                                           *)
(*                                                                         *)
(*    num = sig[threadId]; index1 = num % MAX_ELEM;                        *)
(*    num = mix(num, m[index1].value);             LoadFirst               *)
(*    index2 = num % MAX_ELEM;                                             *)
(*    num = mix(num, m[index2].value);             LoadSecond              *)
(*    m[index2].value = num; sig[threadId] = num;  StoreSecond             *)
(*                                                                         *)
(* Another thread may run between any two of these steps; the accesses to  *)
(* sig[threadId] and to locals, which no other thread makes before the     *)
(* join, are part of the neighbouring shared access.                       *)
(***************************************************************************)
EXTENDS RaceyMain

VARIABLES
  iter,      \* the loop counter i
  num,       \* the local num
  index2     \* the local index2

loopVars == <<iter, num, index2>>

LoopPc == {"loop", "second", "store"}

LoopTypeOK ==
  /\ iter \in [Thread -> 0 .. MaxLoop]
  /\ num \in [Thread -> Mixed]
  /\ index2 \in [Thread -> Elem]

\* Mutant: i <= MaxLoop.
LoadFirstOnceMore(t) ==
  /\ pc[t] = "loop"
  /\ iter[t] <= MaxLoop
  /\ num' = [num EXCEPT ![t] = Mix(sig[t], m[IndexOf(sig[t])])]
  /\ pc' = [pc EXCEPT ![t] = "second"]
  /\ UNCHANGED <<m, sig, iter, index2, mainVars>>

LoopInit ==
  /\ iter = [t \in Thread |-> 0]
  /\ num = [t \in Thread |-> 0]
  /\ index2 = [t \in Thread |-> 0]

LoadFirst(t) ==
  /\ pc[t] = "loop"
  /\ iter[t] < MaxLoop
  /\ num' = [num EXCEPT ![t] = Mix(sig[t], m[IndexOf(sig[t])])]
  /\ pc' = [pc EXCEPT ![t] = "second"]
  /\ UNCHANGED <<m, sig, iter, index2, mainVars>>

LoadSecond(t) ==
  /\ pc[t] = "second"
  /\ index2' = [index2 EXCEPT ![t] = IndexOf(num[t])]
  /\ num' = [num EXCEPT ![t] = Mix(num[t], m[IndexOf(num[t])])]
  /\ pc' = [pc EXCEPT ![t] = "store"]
  /\ UNCHANGED <<m, sig, iter, mainVars>>

StoreSecond(t) ==
  /\ pc[t] = "store"
  /\ m' = [m EXCEPT ![index2[t]] = num[t]]
  /\ sig' = [sig EXCEPT ![t] = num[t]]
  /\ iter' = [iter EXCEPT ![t] = @ + 1]
  /\ pc' = [pc EXCEPT ![t] = "loop"]
  /\ UNCHANGED <<num, index2, mainVars>>

\* i == MaxLoop: return NULL
LeaveLoop(t) ==
  /\ pc[t] = "loop"
  /\ iter[t] = MaxLoop
  /\ pc' = [pc EXCEPT ![t] = "exit"]
  /\ UNCHANGED <<m, sig, loopVars, mainVars>>

LoopStep(t) == LoadFirst(t) \/ LoadSecond(t) \/ StoreSecond(t) \/ LeaveLoop(t)
=============================================================================
