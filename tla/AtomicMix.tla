----------------------------- MODULE AtomicMix ------------------------------
(***************************************************************************)
(* What racey computes when each access to the shared array is guarded, as *)
(* racey-guarded.c promises: an iteration is two atomic steps.  The first  *)
(* mixes one element into the thread's value; the second mixes another     *)
(* element in and stores the result back into that element, so no store is *)
(* ever lost.  Steps of different threads interleave freely: the order of  *)
(* the steps is the only race left.                                        *)
(***************************************************************************)
EXTENDS RaceyMix

CONSTANTS NumProcs, MaxLoop

Thread == 1 .. NumProcs

VARIABLES
  m,        \* the shared array
  val,      \* each thread's value; val[0] is the seed of the signature
  half,     \* the threads that are half-way through an iteration
  count,    \* completed iterations of each thread
  done,     \* the signature has been computed
  result    \* the signature

vars == <<m, val, half, count, done, result>>

Init ==
  /\ m = InitialM
  /\ val = [t \in 0 .. NumProcs |-> t]
  /\ half = {}
  /\ count = [t \in Thread |-> 0]
  /\ done = FALSE
  /\ result = 0

\* num = mix(num, m[index1].value)
MixIn(t) ==
  /\ t \notin half
  /\ count[t] < MaxLoop
  /\ val' = [val EXCEPT ![t] = Mix(val[t], m[IndexOf(val[t])])]
  /\ half' = half \cup {t}
  /\ UNCHANGED <<m, count, done, result>>

\* num = mix(num, m[index2].value); m[index2].value = num
Exchange(t) ==
  LET e == IndexOf(val[t])
      v == Mix(val[t], m[e])
  IN  /\ t \in half
      /\ val' = [val EXCEPT ![t] = v]
      /\ m' = [m EXCEPT ![e] = v]
      /\ half' = half \ {t}
      /\ count' = [count EXCEPT ![t] = @ + 1]
      /\ UNCHANGED <<done, result>>

Finish ==
  /\ ~done
  /\ half = {} /\ \A t \in Thread : count[t] = MaxLoop
  /\ done' = TRUE
  /\ result' = Signature(val, NumProcs)
  /\ UNCHANGED <<m, val, half, count>>

Next == Finish \/ \E t \in Thread : MixIn(t) \/ Exchange(t)

Spec == Init /\ [][Next]_vars
=============================================================================
