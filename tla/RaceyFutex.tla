----------------------------- MODULE RaceyFutex -----------------------------
(***************************************************************************)
(* racey-futex.c, the scheduler of one futex group.  group->owner says     *)
(* whose turn it is: a thread, or, when it is negative, every thread of    *)
(* the group, and then it counts up to 0 as they finish: an "execution     *)
(* barrier".  Whoever ran alone, or the group's leader after the barrier,  *)
(* picks the next owner, increments the round, and wakes the sleepers.     *)
(*                                                                         *)
(* owner, round and threads[] are volatile: each access is a step.  What   *)
(* the threads compute (m[], sig[]) reaches the scheduler only as the      *)
(* place where groupPickNext starts its search, any place here.  The scans *)
(* of threads[] are one step each: entries are only ever cleared, so the   *)
(* result of a scan is right at the moment of its last read.               *)
(***************************************************************************)
EXTENDS Integers, FiniteSets

CONSTANTS
  Begin, End,  \* g->begin and g->end: the group is the threads Begin .. End - 1
  Slots,       \* 33, the length of threads[]
  MaxLoop

ASSUME FutexAssumption ==
  /\ Begin \in Nat \ {0}
  /\ End \in Nat /\ Begin < End
  /\ Slots \in Nat /\ End <= Slots
  /\ MaxLoop \in Nat \ {0}

Member == Begin .. End - 1

\* The iterations a thread makes each time it is scheduled.
npersig == IF MaxLoop >= 1000 THEN MaxLoop \div 1000
           ELSE IF MaxLoop >= 100 THEN MaxLoop \div 100 ELSE 1

VARIABLES
  owner,     \* g->owner
  round,     \* g->round
  threads,   \* the entries of g->threads[] that are 1
  pc,        \* where each thread stands
  iter,      \* the local i
  seen,      \* the local owner
  leads,     \* the local isLeader
  oldRound,  \* the local oldRound
  pick,      \* groupPickNext's n, then its result; then the round loaded by ++
  orderly    \* history: no thread has hit one of the three windows below

groupVars == <<owner, round, threads>>
vars == <<owner, round, threads, pc, iter, seen, leads, oldRound, pick, orderly>>

TypeOK ==
  /\ owner \in Int /\ owner >= -Cardinality(Member)
  /\ round \in Nat
  /\ threads \subseteq Member
  /\ pc \in [Member -> {"loop", "leader", "round", "execute", "arrive", "spin",
                        "check", "walk", "publish", "load", "store", "wake",
                        "waitRound", "sleepRound", "waitOwner", "sleepOwner", "exit"}]
  /\ iter \in [Member -> 0 .. MaxLoop]
  /\ seen \in [Member -> Int]
  /\ leads \in [Member -> BOOLEAN]
  /\ oldRound \in [Member -> Nat]
  /\ pick \in [Member -> Int]
  /\ orderly \in BOOLEAN

\* main() has set the group up and every thread has left the start barrier.
Init ==
  /\ owner = -Cardinality(Member)
  /\ round = 0
  /\ threads = Member
  /\ pc = [t \in Member |-> "loop"]
  /\ iter = [t \in Member |-> 0]
  /\ seen = [t \in Member |-> 0]
  /\ leads = [t \in Member |-> FALSE]
  /\ oldRound = [t \in Member |-> 0]
  /\ pick = [t \in Member |-> 0]
  /\ orderly = TRUE

Goto(t, label) == pc' = [pc EXCEPT ![t] = label]

\* The number of present threads.
groupSize == Cardinality(threads)

\* The smallest present thread, or 0 in an empty group.
groupLeader ==
  IF threads = {} THEN 0 ELSE CHOOSE t \in threads : \A u \in threads : t <= u

groupRemoveMe(t) == threads' = threads \ {t}

\* owner == threadId || owner < 0
MyTurn(t) == owner = t \/ owner < 0

\* The first window: the new owner is published before the new round is, and a
\* thread that is awake may take its turn in between.
HandingOver(t) == \E u \in Member \ {t} : pc[u] \in {"load", "store"}

\* The second window: the leader has found itself the leader, and removed itself
\* in its last iterations, before another thread looks for the leader.
LeaderLeft(t) ==
  \E u \in Member \ ({t} \cup threads) : leads[u] /\ pc[u] \in {"arrive", "spin"}

\* The third window: a thread that has finished is late with waking the sleepers
\* on round.  It lets one out that belongs to the next round, and finds its barrier
\* complete and no owner published yet: it goes to sleep on owner, where only a
\* turn alone would wake it.
NoOwner == owner = 0

\* The i < MaxLoop test, and the read of owner that decides whose turn it is.
ReadOwner(t) ==
  /\ pc[t] = "loop"
  /\ iter[t] < MaxLoop
  /\ seen' = [seen EXCEPT ![t] = owner]
  /\ leads' = [leads EXCEPT ![t] = (owner = t)]
  /\ Goto(t, IF ~MyTurn(t) THEN "waitOwner" ELSE IF owner = t THEN "round" ELSE "leader")
  /\ orderly' = (orderly /\ ~NoOwner /\ ~(MyTurn(t) /\ HandingOver(t)))
  /\ UNCHANGED <<groupVars, iter, oldRound, pick>>

\* Mutant: every thread of the round takes itself for the leader.
ScanLeaderUnchecked(t) ==
  /\ pc[t] = "leader"
  /\ leads' = [leads EXCEPT ![t] = TRUE]
  /\ orderly' = (orderly /\ ~LeaderLeft(t))
  /\ Goto(t, "round")
  /\ UNCHANGED <<groupVars, iter, seen, oldRound, pick>>

\* isLeader = groupLeader(g) == threadId
ScanLeader(t) ==
  /\ pc[t] = "leader"
  /\ leads' = [leads EXCEPT ![t] = (groupLeader = t)]
  /\ orderly' = (orderly /\ ~LeaderLeft(t))
  /\ Goto(t, "round")
  /\ UNCHANGED <<groupVars, iter, seen, oldRound, pick>>

ReadRound(t) ==
  /\ pc[t] = "round"
  /\ oldRound' = [oldRound EXCEPT ![t] = round]
  /\ Goto(t, "execute")
  /\ UNCHANGED <<groupVars, iter, seen, leads, pick, orderly>>

\* Up to npersig iterations, and groupRemoveMe after the last one.  After a turn
\* alone oldRound is not read again, and 0 stands for whatever it is.
Execute(t) ==
  LET i == IF iter[t] + npersig < MaxLoop THEN iter[t] + npersig ELSE MaxLoop
  IN  /\ pc[t] = "execute"
      /\ iter' = [iter EXCEPT ![t] = i]
      /\ IF i = MaxLoop THEN groupRemoveMe(t) ELSE UNCHANGED threads
      /\ Goto(t, IF seen[t] < 0 THEN "arrive" ELSE "check")
      /\ oldRound' = [oldRound EXCEPT ![t] = IF seen[t] < 0 THEN @ ELSE 0]
      /\ UNCHANGED <<owner, round, seen, leads, pick, orderly>>

\* Mutant: the barrier counts away from 0.
ArriveBackwards(t) ==
  /\ pc[t] = "arrive"
  /\ owner' = owner - 1
  /\ Goto(t, "spin")
  /\ UNCHANGED <<round, threads, iter, seen, leads, oldRound, pick, orderly>>

\* __sync_fetch_and_add(&g->owner, 1)
Arrive(t) ==
  /\ pc[t] = "arrive"
  /\ owner' = owner + 1
  /\ Goto(t, "spin")
  /\ UNCHANGED <<round, threads, iter, seen, leads, oldRound, pick, orderly>>

\* Mutant: nobody waits for the others to finish their iterations.
LeaveSpinAtOnce(t) ==
  /\ pc[t] = "spin"
  /\ Goto(t, IF leads[t] THEN "check" ELSE "waitRound")
  /\ UNCHANGED <<groupVars, iter, seen, leads, oldRound, pick, orderly>>

\* while (g->owner != 0 && g->round == oldRound)
LeaveSpin(t) ==
  /\ pc[t] = "spin"
  /\ owner = 0 \/ round # oldRound[t]
  /\ Goto(t, IF leads[t] THEN "check" ELSE "waitRound")
  /\ UNCHANGED <<groupVars, iter, seen, leads, oldRound, pick, orderly>>

\* groupPickNext: an empty group has no next owner; otherwise the search starts
\* at sig[threadId] % (end - begin + 1) + begin.
PickStart(t) ==
  /\ pc[t] = "check"
  /\ IF threads = {}
       THEN pick' = [pick EXCEPT ![t] = 0] /\ Goto(t, "publish")
       ELSE /\ \E n \in Begin .. End : pick' = [pick EXCEPT ![t] = n]
            /\ Goto(t, "walk")
  /\ UNCHANGED <<groupVars, iter, seen, leads, oldRound, orderly>>

\* Mutant: "all" counts the threads that have finished, as at the start.
NextFromCountingAll(n) ==
  LET onward == {u \in threads : u >= n}
  IN  IF n # End /\ onward # {}
        THEN CHOOSE u \in onward : \A v \in onward : u <= v
        ELSE IF n # End /\ End = Slots THEN groupLeader ELSE -Cardinality(Member)

\* The search from n: the first present thread, or the whole group when it runs
\* into end.  When end is 33 the walk never sees it, (n+1) % 33 jumps to 0: it
\* goes round to the threads before n, and would not return if there were none.
NextFrom(n) ==
  LET onward == {u \in threads : u >= n}
  IN  IF n # End /\ onward # {}
        THEN CHOOSE u \in onward : \A v \in onward : u <= v
        ELSE IF n # End /\ End = Slots THEN groupLeader ELSE -groupSize

PickWalk(t) ==
  /\ pc[t] = "walk"
  /\ ~(pick[t] # End /\ End = Slots /\ threads = {})
  /\ pick' = [pick EXCEPT ![t] = NextFrom(pick[t])]
  /\ Goto(t, "publish")
  /\ UNCHANGED <<groupVars, iter, seen, leads, oldRound, orderly>>

\* g->owner = groupPickNext(g)
Publish(t) ==
  /\ pc[t] = "publish"
  /\ owner' = pick[t]
  /\ Goto(t, "load")
  /\ UNCHANGED <<round, threads, iter, seen, leads, oldRound, pick, orderly>>

\* g->round++, the load and the store
LoadRound(t) ==
  /\ pc[t] = "load"
  /\ pick' = [pick EXCEPT ![t] = round]
  /\ Goto(t, "store")
  /\ UNCHANGED <<groupVars, iter, seen, leads, oldRound, orderly>>

StoreRound(t) ==
  /\ pc[t] = "store"
  /\ round' = pick[t] + 1
  /\ pick' = [pick EXCEPT ![t] = 0]
  /\ Goto(t, "wake")
  /\ UNCHANGED <<owner, threads, iter, seen, leads, oldRound, orderly>>

\* Mutant: whoever scheduled wakes the sleepers on owner, after a barrier too.
WakeOwnerQueue(t) ==
  /\ pc[t] = "wake"
  /\ pc' = [u \in Member |-> IF u = t \/ pc[u] = "sleepOwner" THEN "loop" ELSE pc[u]]
  /\ UNCHANGED <<groupVars, iter, seen, leads, oldRound, pick, orderly>>

\* futex(&g->round, FUTEX_WAKE, 33) after a barrier, futex(&g->owner, ...) after
\* a turn alone: the sleepers on that word return from their FUTEX_WAIT.
Wake(t) ==
  LET queue == IF seen[t] < 0 THEN "sleepRound" ELSE "sleepOwner"
  IN  /\ pc[t] = "wake"
      /\ pc' = [u \in Member |-> IF u = t \/ pc[u] = queue THEN "loop" ELSE pc[u]]
      /\ UNCHANGED <<groupVars, iter, seen, leads, oldRound, pick, orderly>>

\* Mutant: the thread goes to sleep whatever the round is by then.
WaitRoundUnchecked(t) ==
  /\ pc[t] = "waitRound"
  /\ Goto(t, "sleepRound")
  /\ UNCHANGED <<groupVars, iter, seen, leads, oldRound, pick, orderly>>

\* futex(&g->round, FUTEX_WAIT, oldRound).  The loop around it never repeats:
\* the call returns 0 or -1, and EINTR is neither.
WaitRound(t) ==
  /\ pc[t] = "waitRound"
  /\ Goto(t, IF round = oldRound[t] THEN "sleepRound" ELSE "loop")
  /\ UNCHANGED <<groupVars, iter, seen, leads, oldRound, pick, orderly>>

\* futex(&g->owner, FUTEX_WAIT, owner); sig[threadId]++
WaitOwner(t) ==
  /\ pc[t] = "waitOwner"
  /\ Goto(t, IF owner = seen[t] THEN "sleepOwner" ELSE "loop")
  /\ UNCHANGED <<groupVars, iter, seen, leads, oldRound, pick, orderly>>

\* i == MaxLoop: return NULL
Leave(t) ==
  /\ pc[t] = "loop"
  /\ iter[t] = MaxLoop
  /\ Goto(t, "exit")
  /\ UNCHANGED <<groupVars, iter, seen, leads, oldRound, pick, orderly>>

ThreadBody(t) ==
  \/ ReadOwner(t) \/ ScanLeader(t) \/ ReadRound(t) \/ Execute(t)
  \/ Arrive(t) \/ LeaveSpin(t)
  \/ PickStart(t) \/ PickWalk(t) \/ Publish(t) \/ LoadRound(t) \/ StoreRound(t)
  \/ Wake(t) \/ WaitRound(t) \/ WaitOwner(t)
  \/ Leave(t)

Finished == \A t \in Member : pc[t] = "exit"

Next == (\E t \in Member : ThreadBody(t)) \/ (Finished /\ UNCHANGED vars)

\* The kernel schedules every runnable thread again and again.
Fairness == \A t \in Member : WF_vars(ThreadBody(t))

Spec == Init /\ [][Next]_vars
FairSpec == Spec /\ Fairness
-----------------------------------------------------------------------------
Executing == {t \in Member : pc[t] = "execute"}
Scheduling == {t \in Member : pc[t] \in {"check", "walk", "publish", "load", "store"}}

\* "leader gets to schedule" (racey-futex.c:173): picking and announcing the
\* next turn is one thread's business at a time.
OneScheduler == Cardinality(Scheduling) <= 1

\* The windows are the only way to a second scheduler.
OneSchedulerWhileOrderly == orderly => OneScheduler

\* "we select one thread or all threads" (README.md:40): threads that execute at
\* the same time were scheduled together, as "all", in one and the same round.
TurnsDoNotOverlap ==
  orderly =>
    \A t, u \in Executing :
      t # u => seen[t] < 0 /\ seen[u] < 0 /\ oldRound[t] = oldRound[u]

\* The threads that have not yet come to the execution barrier of this round.
Awaited ==
  {t \in Member : /\ t \in threads \/ pc[t] = "arrive"
                  /\ ~(pc[t] = "spin" /\ oldRound[t] = round)}

\* A negative owner is the number of threads the barrier still waits for: it
\* opens when the last one arrives, no sooner and no later (:168-172).
OwnerCountsTheAwaited ==
  orderly /\ owner < 0 /\ Scheduling = {} => -owner = Cardinality(Awaited)

\* "put threads to sleep when it's not their turn and wake them when it might
\* be" (README.md:41-42): a thread asleep on a word that has changed since it
\* went to sleep is about to be woken by the thread that changed it.
NoLostWakeup ==
  orderly =>
    \A t \in Member :
      /\ pc[t] = "sleepRound" /\ oldRound[t] # round =>
           \E u \in Member : pc[u] = "wake" /\ seen[u] < 0
      /\ pc[t] = "sleepOwner" /\ owner # seen[t] =>
           \E u \in Member : pc[u] \in {"load", "store", "wake"} /\ seen[u] = u

\* Bound: the steps after a window has been hit are not explored where every
\* property is about the runs without.
OrderlyRuns == orderly

\* Every thread makes its MaxLoop iterations and returns, or main() waits for it
\* forever (:268-272).
Termination == <>Finished

\* The windows are the only way to a group that sleeps forever.
TerminationWhileOrderly == []orderly => Termination
=============================================================================
