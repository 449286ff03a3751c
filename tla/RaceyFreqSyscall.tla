-------------------------- MODULE RaceyFreqSyscall --------------------------
(***************************************************************************)
(* racey-freqsyscall.c: racey-basic with system calls in the loop.  Every  *)
(* MaxLoop/200 iterations a thread maps a page, writes it, reads it, makes *)
(* it inaccessible and forgets it: the mappings of all threads add up until*)
(* the process ends, and a mapping that fails is written to all the same.  *)
(***************************************************************************)
EXTENDS RaceyBasic

CONSTANTS
  PartsSet,  \* {200}: the number of parts of the loop; bound: a set, so that MaxLoop
             \* can be both at least as large and smaller in one run
  MaxMaps    \* mappings that the kernel allows a process: vm.max_map_count

\* The loop has parts, and the mappings of all threads fit: 32 threads map at most
\* 32 * 399 pages, and vm.max_map_count is 65530.
ASSUME FreqAssumption ==
  /\ PartsSet \subseteq Nat \ {0} /\ MaxMaps \in Nat
  /\ \A p \in PartsSet : p <= MaxLoop => NumProcs * (2 * p - 1) <= MaxMaps

VARIABLES
  parts,     \* 200
  pages,     \* pages[t]: the pages that thread t has mapped
  killed     \* SIGFPE or SIGSEGV has ended the process

freqVars == <<parts, pages, killed>>

FreqInit == Init /\ parts \in PartsSet /\ pages = [t \in Thread |-> 0] /\ killed = FALSE

AllPages == LET sum[t \in 0 .. NumProcs] == IF t = 0 THEN 0 ELSE pages[t] + sum[t - 1]
            IN  sum[NumProcs]

\* Mutant: twice as many parts.
MapPageTwiceAsOften(t) ==
  IF MaxLoop \div (2 * parts) = 0
    THEN killed' = TRUE /\ UNCHANGED <<parts, pages>>
    ELSE IF iter[t] % (MaxLoop \div (2 * parts)) = 0
      THEN pages' = [pages EXCEPT ![t] = @ + 1] /\ killed' = (AllPages >= MaxMaps) /\ UNCHANGED parts
      ELSE UNCHANGED freqVars

\* if (i % (MaxLoop/200) == 0), which divides by 0 if MaxLoop < 200: mmap, *x = 10, mprotect, k = *x, mprotect
MapPage(t) ==
  IF MaxLoop \div parts = 0
    THEN killed' = TRUE /\ UNCHANGED <<parts, pages>>
    ELSE IF iter[t] % (MaxLoop \div parts) = 0
      THEN pages' = [pages EXCEPT ![t] = @ + 1] /\ killed' = (AllPages >= MaxMaps) /\ UNCHANGED parts
      ELSE UNCHANGED freqVars

\* The body of racey-basic with getuid(), which changes nothing, and the page in
\* each iteration after its store.
FreqBody(t) ==
  \/ (BarrierStep(t) \/ ((LoadFirst(t) \/ LoadSecond(t) \/ LeaveLoop(t)) /\ UNCHANGED barrierVars))
       /\ UNCHANGED freqVars
  \/ StoreSecond(t) /\ MapPage(t) /\ UNCHANGED barrierVars

FreqMain == main /\ UNCHANGED freqVars

\* i % (MaxLoop/200) is 0 at most 399 times in a loop of 200 or more.
MostPages == 2 * parts - 1
=============================================================================
