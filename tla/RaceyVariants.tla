--------------------------- MODULE RaceyVariants ----------------------------
(***************************************************************************)
(* The programs that vary racey-basic in one respect: no barrier, system   *)
(* calls in the loop, sig[] in a file, processes and a shared mapping, a   *)
(* file to read in place of m[].  Which one runs is chosen at the start.   *)
(***************************************************************************)
EXTENDS RaceyFreqSyscall, RaceyMmapFile, RaceyForkMmap, RaceyReadFile

VARIABLE program

allVars == <<vars, freqVars, fileVars, reaped, readVars, program>>

\* A step of one program leaves the others' variables alone.
NoBarrier(A) == program = "nobarrier" /\ A /\ UNCHANGED <<barrierVars, freqVars, fileVars, reaped, readVars, program>>
FreqSyscall(A) == program = "freqsyscall" /\ ~killed /\ A /\ UNCHANGED <<fileVars, reaped, readVars, program>>
MmapFile(A) == program = "mmaptmpfile" /\ A /\ UNCHANGED <<freqVars, reaped, readVars, program>>
ForkMmap(A) == program = "forkmmap" /\ A /\ UNCHANGED <<barrierVars, freqVars, fileVars, readVars, program>>
ReadFile(A) == program = "readfile" /\ A /\ UNCHANGED <<loopVars, barrierVars, freqVars, fileVars, reaped, program>>

VariantsInit ==
  /\ FreqInit /\ MmapInit /\ ForkInit /\ ReadFileInit
  /\ program \in {"nobarrier", "freqsyscall", "mmaptmpfile", "forkmmap", "readfile"}

Main ==
  \/ NoBarrier(NoBarrierMain) \/ FreqSyscall(FreqMain) \/ MmapFile(MmapMain)
  \/ ForkMmap(ForkMain) \/ ReadFile(ReadFileMain)

Body(t) ==
  \/ NoBarrier(NoBarrierBody(t)) \/ FreqSyscall(FreqBody(t)) \/ MmapFile(MmapBody(t))
  \/ ForkMmap(ChildProcess(t)) \/ ReadFile(ReadFileBody(t))

\* A signal has ended the process, or main() has returned, and so have the children that a failed fork left behind.
Ended ==
  \/ killed
  \/ /\ mainPc \in {"done", "failed"}
     /\ program = "mmaptmpfile" => ~linked
     /\ \A t \in Thread : pc[t] \in {"idle", "exit"}

VariantsNext == Main \/ (\E t \in Thread : Body(t)) \/ (Ended /\ UNCHANGED allVars)

\* The kernel schedules every runnable thread and process again and again.
VariantsSpec ==
  /\ VariantsInit /\ [][VariantsNext]_allVars
  /\ WF_allVars(Main) /\ \A t \in Thread : WF_allVars(Body(t))
-----------------------------------------------------------------------------
\* The signature is folded from final values: no thread or child can change sig[]
\* once main() has it, whether it joins threads or counts the children that end.
EverySignatureIsFinal ==
  IF program = "readfile" THEN HashesAreFinal ELSE SignatureIsFinal

\* No program faults, with one exception: racey-freqsyscall dies of a division by
\* zero in every run with MaxLoop < 200, and then prints nothing.  Otherwise the
\* pages that nobody unmaps stay below the limit (racey-freqsyscall.c:99-107), and
\* sig[] is mapped as long as somebody uses it (racey-mmaptmpfile.c:128-134).
NobodyFaults ==
  /\ killed => MaxLoop < parts
  /\ program = "freqsyscall" /\ mainPc = "done" => MaxLoop >= parts
  /\ \A t \in Thread : pages[t] <= MostPages
  /\ ~mapped => ~UsesSig

\* Every variant ends, a failed fork leaves no child behind that does not, and the
\* temporary file is removed.
EveryVariantEnds == <>Ended
=============================================================================
