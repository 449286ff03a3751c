----------------------------- MODULE RaceyMain ------------------------------
(***************************************************************************)
(* The main() that every threaded racey program repeats: create NumProcs   *)
(* threads one after the other, join them in the same order, then fold     *)
(* sig[] into the signature.  A program module extends this one and adds   *)
(* the body of its threads.                                                *)
(*                                                                         *)
(* A created thread runs at once: nothing makes it wait for main() to have *)
(* created the others, which is what the start barriers are for.           *)
(***************************************************************************)
EXTENDS RaceyMix

CONSTANTS
  NumProcs,  \* number of threads, argv[1]
  MaxLoop    \* iterations of each thread's main loop, argv[2]

\* assert(NumProcs > 0 && NumProcs <= 32), assert(MaxLoop > 0); nothing below
\* depends on the upper bound, and sig[] starts with sig[t] = t.
ASSUME MainAssumption ==
  /\ NumProcs \in Nat \ {0}
  /\ MaxLoop \in Nat \ {0}
  /\ NumProcs < Word

Thread == 1 .. NumProcs

VARIABLES
  pc,        \* where each thread stands: "idle" until it is created
  m,         \* the shared array m[]
  sig,       \* sig[0 .. NumProcs]; sig[t] is thread t's, sig[0] nobody's
  mainPc,    \* where main() stands
  mainI,     \* main()'s loop counter i
  mixSig     \* mix_sig

mainVars == <<mainPc, mainI, mixSig>>

MainTypeOK ==
  /\ m \in [Elem -> Mixed]
  /\ sig \in [0 .. NumProcs -> Unsigned]
  /\ mainPc \in {"create", "join", "result", "done"}
  /\ mainI \in 0 .. NumProcs

MainInit ==
  /\ pc = [t \in Thread |-> "idle"]
  /\ m = InitialM
  /\ sig = [t \in 0 .. NumProcs |-> t]
  /\ mainPc = "create"
  /\ mainI = 0
  /\ mixSig = 0

\* tids[i] = i+1; pthread_create(&threads[i], ..., ThreadBody, &tids[i])
CreateThread ==
  /\ mainPc = "create"
  /\ pc' = [pc EXCEPT ![mainI + 1] = "start"]
  /\ IF mainI + 1 < NumProcs
       THEN mainI' = mainI + 1 /\ UNCHANGED mainPc
       ELSE mainI' = 0 /\ mainPc' = "join"
  /\ UNCHANGED <<m, sig, mixSig>>

\* Mutant: the loop of joins stops one thread early, like the one over sig[].
JoinThreadAllButLast ==
  /\ mainPc = "join"
  /\ pc[mainI + 1] = "exit"
  /\ mainI' = mainI + 1
  /\ mainPc' = IF mainI + 2 < NumProcs THEN "join" ELSE "result"
  /\ UNCHANGED <<pc, m, sig, mixSig>>

\* pthread_join(threads[i], NULL) returns once that thread has returned.
JoinThread ==
  /\ mainPc = "join"
  /\ pc[mainI + 1] = "exit"
  /\ mainI' = mainI + 1
  /\ mainPc' = IF mainI + 1 < NumProcs THEN "join" ELSE "result"
  /\ UNCHANGED <<pc, m, sig, mixSig>>

\* The loop over sig[], in one step: every writer of sig[] has been joined.
ComputeResult ==
  /\ mainPc = "result"
  /\ mixSig' = Signature(sig, NumProcs)
  /\ mainPc' = "done"
  /\ UNCHANGED <<pc, m, sig, mainI>>

MainStep == CreateThread \/ JoinThread \/ ComputeResult

\* What main()'s two loops have established so far: the threads not yet
\* created are exactly those past mainI; everyone is created before the joins, and
\* everyone before mainI is joined.
MainInv ==
  /\ mainPc = "create" =>
       mainI < NumProcs /\ \A t \in Thread : pc[t] = "idle" <=> t > mainI
  /\ mainPc = "join" =>
       /\ mainI < NumProcs
       /\ \A t \in Thread : pc[t] # "idle" /\ (t <= mainI => pc[t] = "exit")
  /\ mainPc \in {"result", "done"} => \A t \in Thread : pc[t] = "exit"
=============================================================================
