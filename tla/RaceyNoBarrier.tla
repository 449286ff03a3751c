--------------------------- MODULE RaceyNoBarrier ---------------------------
(***************************************************************************)
(* racey-nobarrier.c: a thread enters its main loop as soon as it runs,    *)
(* and may have left it before main() creates the next one.                *)
(***************************************************************************)
EXTENDS MixLoop

noBarrierVars == <<pc, m, sig, mainVars, loopVars>>

NoBarrierInit == MainInit /\ LoopInit

\* The loop that seizes the cpu is over, and no barrier follows it.
EnterLoop(t) ==
  /\ pc[t] = "start"
  /\ pc' = [pc EXCEPT ![t] = "loop"]
  /\ UNCHANGED <<m, sig, mainVars, loopVars>>

NoBarrierBody(t) == EnterLoop(t) \/ LoopStep(t)

NoBarrierMain == MainStep /\ UNCHANGED loopVars
=============================================================================
