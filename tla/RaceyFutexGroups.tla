-------------------------- MODULE RaceyFutexGroups --------------------------
(***************************************************************************)
(* racey-futex.c up to its main loop: main() deals the threads out to      *)
(* NFUTEX groups and creates them, each thread looks its group up, and all *)
(* meet at the start barrier.  From there each group runs RaceyFutex.      *)
(*                                                                         *)
(* NumProcs is an argument of the program, so it is a variable here that   *)
(* starts with any value main() accepts.                                   *)
(***************************************************************************)
EXTENDS Integers, FiniteSets

CONSTANTS
  NFUTEX,     \* the number of groups
  MaxProcs    \* 32, the largest NumProcs main() accepts

ASSUME GroupsAssumption ==
  /\ NFUTEX \in Nat \ {0}
  /\ MaxProcs \in Nat \ {0}

Group == 0 .. NFUTEX - 1
Slot == 0 .. MaxProcs       \* the indices of threads[]

VARIABLES
  NumProcs,  \* argv[1]
  begin, end, owner,         \* the fields of groups[i]
  threads,   \* threads[i]: the entries of groups[i].threads[] that are 1
  mainPc,    \* where main() stands
  i, k,      \* main()'s locals
  pc,        \* where each thread stands
  g          \* the group each thread has settled on

groupVars == <<begin, end, owner, threads>>
vars == <<NumProcs, groupVars, mainPc, i, k, pc, g>>

Thread == 1 .. NumProcs

TypeOK ==
  /\ NumProcs \in 1 .. MaxProcs
  /\ begin \in [Group -> 0 .. MaxProcs + 1]
  /\ end \in [Group -> 0 .. MaxProcs + 1]
  /\ owner \in [Group -> -MaxProcs .. 0]
  /\ threads \in [Group -> SUBSET Slot]
  /\ mainPc \in {"groups", "create", "created", "aborted"}
  /\ i \in 0 .. NFUTEX + MaxProcs
  /\ k \in 1 .. MaxProcs + 1
  /\ pc \in [Thread -> {"idle", "search", "barrier", "loop"}]
  /\ g \in [Thread -> Group]

\* assert(NumProcs > 0 && NumProcs <= 32); groups[] is zero, a static array.
Init ==
  /\ NumProcs \in 1 .. MaxProcs
  /\ begin = [j \in Group |-> 0]
  /\ end = [j \in Group |-> 0]
  /\ owner = [j \in Group |-> 0]
  /\ threads = [j \in Group |-> {}]
  /\ mainPc = "groups"
  /\ i = 0
  /\ k = 1
  /\ pc = [t \in Thread |-> "idle"]
  /\ g = [t \in Thread |-> 0]

\* The k at which group i ends: it takes the threads k .. end - 1 that exist.
Capped(last) == IF last <= NumProcs + 1 THEN last ELSE NumProcs + 1

\* Mutant: the loop does not stop at NumProcs.
NextKUncapped == IF NumProcs < NFUTEX THEN k + NumProcs ELSE k + NumProcs \div NFUTEX

\* Mutant: the division rounds up.
NextKRoundedUp ==
  Capped(IF NumProcs < NFUTEX THEN k + NumProcs
         ELSE k + (NumProcs + NFUTEX - 1) \div NFUTEX)

NextK ==
  Capped(IF NumProcs < NFUTEX THEN k + NumProcs ELSE k + NumProcs \div NFUTEX)

\* One iteration of the loop over groups[].
InitGroup ==
  /\ mainPc = "groups"
  /\ begin' = [begin EXCEPT ![i] = k]
  /\ threads' = [threads EXCEPT ![i] = k .. NextK - 1]
  /\ end' = [end EXCEPT ![i] = NextK]
  /\ owner' = [owner EXCEPT ![i] = k - NextK]
  /\ k' = NextK
  /\ IF i + 1 < NFUTEX THEN i' = i + 1 /\ UNCHANGED mainPc
                       ELSE i' = 0 /\ mainPc' = "create"
  /\ UNCHANGED <<NumProcs, pc, g>>

CreateThread ==
  /\ mainPc = "create"
  /\ pc' = [pc EXCEPT ![i + 1] = "search"]
  /\ i' = i + 1
  /\ mainPc' = IF i + 1 < NumProcs THEN "create" ELSE "created"
  /\ UNCHANGED <<NumProcs, groupVars, k, g>>

\* The first group that has the thread, the last of all if none has; then
\* assert(g->threads[threadId]), which ends the process when it fails.
FindGroup(t) ==
  LET having == {j \in Group : t \in threads[j]}
  IN  /\ mainPc # "aborted"
      /\ pc[t] = "search"
      /\ IF having # {}
           THEN /\ g' = [g EXCEPT ![t] = CHOOSE j \in having : \A l \in having : j <= l]
                /\ pc' = [pc EXCEPT ![t] = "barrier"]
                /\ UNCHANGED mainPc
           ELSE /\ g' = [g EXCEPT ![t] = NFUTEX - 1]
                /\ mainPc' = "aborted"
                /\ UNCHANGED pc
      /\ UNCHANGED <<NumProcs, groupVars, i, k>>

\* pthread_barrier_wait(&barrier): NumProcs threads have come, and all go on.
PassBarrier ==
  /\ mainPc # "aborted"
  /\ \A t \in Thread : pc[t] = "barrier"
  /\ pc' = [t \in Thread |-> "loop"]
  /\ UNCHANGED <<NumProcs, groupVars, mainPc, i, k, g>>

\* The process has aborted, or its threads are in their main loops.
Over == mainPc = "aborted" \/ \A t \in Thread : pc[t] = "loop"

Next ==
  \/ InitGroup \/ CreateThread
  \/ (\E t \in Thread : FindGroup(t))
  \/ PassBarrier
  \/ (Over /\ UNCHANGED vars)

Spec == Init /\ [][Next]_vars
FairSpec == Spec /\ WF_vars(Next)
-----------------------------------------------------------------------------
InLoop == \A t \in Thread : pc[t] = "loop"

\* Past the barrier, the groups partition the threads, and every group that has
\* any is in an initial state of RaceyFutex: a non-empty range begin .. end - 1
\* within threads[], all of it present, and as many awaited at the barrier.
GroupsPartitionTheThreads ==
  InLoop =>
    /\ Thread = UNION {threads[j] : j \in Group}
    /\ \A j, l \in Group : j # l => threads[j] \cap threads[l] = {}
    /\ \A t \in Thread : t \in threads[g[t]]
    /\ \A j \in {g[t] : t \in Thread} :
         /\ 0 < begin[j] /\ begin[j] < end[j] /\ end[j] <= MaxProcs + 1
         /\ threads[j] = begin[j] .. end[j] - 1
         /\ owner[j] = -Cardinality(threads[j])

\* The numbers of threads that cannot be dealt out evenly: NumProcs/NFUTEX
\* rounds down, and the last NumProcs % NFUTEX threads get no group.
Uneven == NumProcs >= NFUTEX /\ NumProcs % NFUTEX # 0

\* The program gets to its main loops exactly when its threads divide evenly
\* among the groups, or are fewer than them.
StartsUnlessUneven == (Uneven => <>(mainPc = "aborted")) /\ (~Uneven => <>InLoop)

\* assert(g->threads[threadId]) (racey-futex.c:131) holds for every NumProcs that
\* main() accepts (:216).
EveryThreadHasAGroup == mainPc # "aborted"
=============================================================================
