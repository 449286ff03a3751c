--------------------------- MODULE RaceyForkMmap ----------------------------
(***************************************************************************)
(* racey-forkmmap.c: processes instead of threads, which share m[] and     *)
(* sig[] in an anonymous mapping.  The children start without a barrier,   *)
(* main() waits as often as it has forked, for whichever child ends, and a *)
(* fork that fails ends main() alone.                                      *)
(***************************************************************************)
EXTENDS RaceyNoBarrier

VARIABLE reaped   \* the children that wait() has returned

ForkInit == NoBarrierInit /\ reaped = {}

\* ret = fork(); pids[i-1] = ret
Fork == CreateThread /\ UNCHANGED <<loopVars, reaped>>

\* ret < 0: return 1, and the children that exist go on.
ForkFails ==
  /\ mainPc = "create"
  /\ mainPc' = "failed"
  /\ UNCHANGED <<pc, m, sig, mainI, mixSig, loopVars, reaped>>

\* Mutant: one wait() too few.
WaitOnceLess ==
  /\ mainPc = "join"
  /\ \E t \in Thread \ reaped : pc[t] = "exit" /\ reaped' = reaped \cup {t}
  /\ mainI' = mainI + 1
  /\ mainPc' = IF mainI + 2 < NumProcs THEN "join" ELSE "result"
  /\ UNCHANGED <<pc, m, sig, mixSig, loopVars>>

\* wait(NULL), and the search for its result in pids[], which finds it
Wait ==
  /\ mainPc = "join"
  /\ \E t \in Thread \ reaped : pc[t] = "exit" /\ reaped' = reaped \cup {t}
  /\ mainI' = mainI + 1
  /\ mainPc' = IF mainI + 1 < NumProcs THEN "join" ELSE "result"
  /\ UNCHANGED <<pc, m, sig, mixSig, loopVars>>

ForkMain == Fork \/ ForkFails \/ Wait \/ (ComputeResult /\ UNCHANGED <<loopVars, reaped>>)

ChildProcess(t) == NoBarrierBody(t) /\ UNCHANGED reaped
=============================================================================
