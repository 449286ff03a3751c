-------------------------- MODULE RaceyFutexProofs --------------------------
(***************************************************************************)
(* Proofs about the scheduler of racey-futex.c, for every group and number *)
(* of iterations: what is right in the runs that hit none of its windows.  *)
(***************************************************************************)
EXTENDS RaceyFutex, TLAPS, FiniteSetTheorems, WellFoundedInduction

Taking == {"leader", "round", "execute", "arrive"}
Picking == {"check", "walk", "publish"}
Announcing == {"load", "store"}
Waiting == {"spin", "waitRound", "sleepRound"}

\* What groupPickNext may return: a present thread, or all of them.
NextOwner(n) == n \in threads \/ n = -groupSize

\* isLeader is set, and the thread has not begun to schedule.
Leading(t) == leads[t] /\ pc[t] \in {"round", "execute", "arrive", "spin"}

\* In every run: who has iterations left is present, and picks are in range.
BaseInv ==
  /\ \A t \in Member : t \in threads <=> iter[t] < MaxLoop
  /\ \A t \in Member : pc[t] \in {"leader", "round", "execute"} => t \in threads
  /\ \A t \in Member : pc[t] = "exit" => t \notin threads
  /\ \A t \in Member : pc[t] = "walk" => pick[t] \in Begin .. End
  /\ \A t \in Member : pc[t] = "publish" => pick[t] >= -Cardinality(Member)
  /\ \A t \in Member : pc[t] = "store" => pick[t] \in Nat

\* A thread takes its turn when nobody schedules, together with the group while
\* the barrier is incomplete, or alone as the owner; in the current round.
TurnOf(t) ==
  /\ pc[t] \in Taking =>
       /\ Scheduling = {}
       /\ \/ seen[t] < 0 /\ owner < 0
          \/ seen[t] = t /\ owner = t /\ pc[t] \in {"round", "execute"}
  /\ pc[t] \in {"execute", "arrive"} => oldRound[t] = round

TurnInv == \A t \in Member : TurnOf(t)

\* One thread schedules: after a barrier, or after its turn alone.
ScheduleOf(t) ==
  /\ seen[t] < 0 \/ seen[t] = t
  /\ pc[t] \in Picking => owner = (IF seen[t] < 0 THEN 0 ELSE t)
  /\ pc[t] = "walk" => threads # {}
  /\ pc[t] = "publish" => NextOwner(pick[t])
  /\ pc[t] \in Announcing => NextOwner(owner)
  /\ pc[t] = "store" => pick[t] = round

SchedulerInv ==
  /\ \A t, u \in Scheduling : t = u
  /\ \A t \in Scheduling : ScheduleOf(t)

\* One thread is the leader of a barrier: the first one present, if it still is.
LeaderOf(t) ==
  Leading(t) =>
    /\ pc[t] \in {"arrive", "spin"} => seen[t] < 0
    /\ seen[t] < 0 /\ t \in threads => \A u \in threads : t <= u
    /\ pc[t] = "spin" => oldRound[t] = round /\ owner <= 0 /\ Scheduling = {}

LeaderInv ==
  /\ \A t, u \in Member : Leading(t) /\ Leading(u) => t = u
  /\ \A t \in Member : LeaderOf(t)

\* t has come to the execution barrier of the current round.
Waits(t) == pc[t] \in Waiting /\ oldRound[t] = round

\* The next to be the leader: the first one present, before its turn.
Candidate(t) ==
  /\ t \in threads /\ \A u \in threads : t <= u
  /\ pc[t] \notin {"round", "execute", "arrive"} /\ ~ Waits(t)

\* A barrier that some have come to has a leader, or will have one in time.
BarrierInv ==
  Scheduling = {} =>
    /\ owner < 0 => \E t \in Member : Leading(t) \/ Candidate(t)
    /\ owner = 0 /\ (\E t \in Member : Waits(t)) => \E t \in Member : Leading(t)

OwnerInv ==
  Scheduling = {} =>
    /\ owner > 0 => owner \in threads
    /\ owner < 0 => -owner = Cardinality(Awaited)

\* Who has come to the barrier of this round waits only until it is scheduled
\* over: the next turn belongs to the next round.
RoundOf(t) ==
  /\ oldRound[t] <= round
  /\ Waits(t) =>
       /\ Scheduling = {} => owner <= 0
       /\ \A u \in Scheduling : seen[u] < 0
  /\ Waits(t) /\ pc[t] # "spin" => Scheduling # {} \/ owner >= 0

RoundInv == \A t \in Member : RoundOf(t)

\* A sleeper sleeps on the current word, or is about to be woken.
SleepOf(t) ==
  /\ pc[t] \in {"waitOwner", "sleepOwner"} => seen[t] > 0 /\ seen[t] # t
  /\ pc[t] = "sleepRound" /\ oldRound[t] # round =>
       \E u \in Member : pc[u] = "wake" /\ seen[u] < 0
  /\ pc[t] = "sleepOwner" /\ owner # seen[t] =>
       \E u \in Member : pc[u] \in Announcing \cup {"wake"} /\ seen[u] = u

SleepInv == \A t \in Member : SleepOf(t)

OrderlyInv ==
  TurnInv /\ SchedulerInv /\ LeaderInv /\ BarrierInv /\ OwnerInv /\ RoundInv /\ SleepInv

FutexInv == TypeOK /\ BaseInv /\ (orderly => OrderlyInv)

\* t can take a step: it does not sleep, nor wait for the barrier to open, nor
\* search an empty group for the next owner.
Runnable(t) ==
  /\ pc[t] \notin {"sleepRound", "sleepOwner", "exit"}
  /\ pc[t] = "spin" => owner = 0 \/ round # oldRound[t]
  /\ pc[t] = "walk" => threads # {}

\* The windows are the only way to a group in which everyone waits for another.
SomebodyRuns == orderly => Finished \/ \E t \in Member : Runnable(t)
-----------------------------------------------------------------------------
\* A set of natural numbers has a smallest one.
LEMMA SmallestNat ==
  ASSUME NEW T, T \subseteq Nat, T # {}
  PROVE  \E x \in T : \A y \in T : x <= y
<1> DEFINE R == OpToRel(<, Nat)
<1>1. IsWellFoundedOn(R, Nat)
  BY NatLessThanWellFounded
<1>2. \A x, y \in Nat : x < y => <<x, y>> \in R
  BY DEF OpToRel
<1> HIDE DEF R
<1>3. PICK x \in T : \A y \in T : ~ (<<y, x>> \in R)
  BY <1>1, WFMin
<1>4. ASSUME NEW y \in T
      PROVE  ~ (y < x)
  BY <1>2, <1>3
<1> QED BY <1>4

\* A group is a finite set of positive numbers, and so is any part of it.
LEMMA MemberFacts ==
  /\ Member \subseteq Nat \ {0}
  /\ Cardinality(Member) \in Nat
  /\ \A T \in SUBSET Member :
       IsFiniteSet(T) /\ Cardinality(T) \in 0 .. Cardinality(Member)
<1>1. Member \subseteq Nat \ {0}
  BY FutexAssumption DEF Member
<1>2. IsFiniteSet(Member)
  BY FutexAssumption, FS_Interval DEF Member
<1>3. Cardinality(Member) \in Nat
  BY <1>2, FS_CardinalityType
<1>4. ASSUME NEW T \in SUBSET Member
      PROVE  IsFiniteSet(T) /\ Cardinality(T) \in 0 .. Cardinality(Member)
  <2>1. IsFiniteSet(T) /\ Cardinality(T) <= Cardinality(Member)
    BY <1>2, FS_Subset
  <2>2. Cardinality(T) \in Nat
    BY <2>1, FS_CardinalityType
  <2> QED BY <1>3, <2>1, <2>2
<1> QED
  BY <1>1, <1>3, <1>4

\* groupLeader() is the first thread of a group that has one.
LEMMA LeaderIsFirst ==
  ASSUME threads \subseteq Member, threads # {}
  PROVE  groupLeader \in threads /\ \A u \in threads : groupLeader <= u
<1> DEFINE First(t) == \A u \in threads : t <= u
<1>1. \E t \in threads : First(t)
  BY SmallestNat, MemberFacts
<1>2. (CHOOSE t \in threads : First(t)) \in threads /\ First(CHOOSE t \in threads : First(t))
  BY <1>1
<1> QED
  BY <1>2 DEF groupLeader

\* What the search of groupPickNext() finds may be the next owner.
LEMMA NextFromRange ==
  ASSUME threads \subseteq Member, NEW n, ~(n # End /\ End = Slots /\ threads = {})
  PROVE  NextOwner(NextFrom(n))
<1> DEFINE onward == {u \in threads : u >= n}
           First(t) == \A v \in onward : t <= v
<1>1. CASE n # End /\ onward # {}
  <2>1. \E t \in onward : First(t)
    BY <1>1, SmallestNat, MemberFacts
  <2>2. (CHOOSE t \in onward : First(t)) \in onward
    BY <2>1
  <2> QED
    BY <1>1, <2>2 DEF NextFrom, NextOwner
<1>2. CASE ~(n # End /\ onward # {}) /\ n # End /\ End = Slots
  BY <1>2, LeaderIsFirst DEF NextFrom, NextOwner
<1>3. CASE ~(n # End /\ onward # {}) /\ ~(n # End /\ End = Slots)
  BY <1>3 DEF NextFrom, NextOwner
<1> QED BY <1>1, <1>2, <1>3

\* The next owner is a member or at least -1 for each.
LEMMA NextOwnerRange ==
  ASSUME threads \subseteq Member, NEW n, NextOwner(n)
  PROVE  n \in Int /\ n >= -Cardinality(Member) /\ (n > 0 => n \in threads)
<1>1. Cardinality(threads) \in 0 .. Cardinality(Member) /\ Cardinality(Member) \in Nat
  BY MemberFacts
<1>2. CASE n \in threads
  BY <1>1, <1>2, MemberFacts
<1>3. CASE n = -Cardinality(threads)
  BY <1>1, <1>3
<1> QED
  BY <1>2, <1>3 DEF NextOwner, groupSize

LEMMA InitFutexInv == Init => FutexInv
<1> SUFFICES ASSUME Init PROVE FutexInv
  OBVIOUS
<1>1. TypeOK
  BY MemberFacts, FutexAssumption DEF Init, TypeOK
<1>2. BaseInv
  BY FutexAssumption DEF Init, BaseInv
<1>3. Scheduling = {} /\ Awaited = Member
  BY DEF Init, Scheduling, Awaited
<1>4. Member # {} /\ Cardinality(Member) > 0
  <2>1. Begin \in Member
    BY FutexAssumption DEF Member
  <2>2. IsFiniteSet(Member) /\ Cardinality(Member) \in Nat
    BY MemberFacts
  <2> QED BY <2>1, <2>2, FS_EmptySet
<1>5. TurnInv /\ SchedulerInv /\ LeaderInv /\ RoundInv /\ SleepInv
  BY <1>3 DEF Init, TurnInv, SchedulerInv, LeaderInv, RoundInv, SleepInv, TurnOf, LeaderOf,
     RoundOf, Waits, SleepOf, Taking, Leading, Waiting
<1>6. OwnerInv
  BY <1>3, <1>4, MemberFacts DEF Init, OwnerInv
<1>7. BarrierInv
  <2>1. groupLeader \in threads /\ \A u \in threads : groupLeader <= u
    BY <1>1, <1>4, LeaderIsFirst DEF Init, TypeOK
  <2>2. Candidate(groupLeader) /\ groupLeader \in Member
    BY <2>1 DEF Init, Candidate, Waits, Waiting
  <2>3. ~ (owner = 0)
    BY <1>4, MemberFacts DEF Init
  <2> QED BY <2>2, <2>3 DEF BarrierInv
<1> QED
  BY <1>1, <1>2, <1>5, <1>6, <1>7 DEF FutexInv, OrderlyInv

\* A step of t moves t only.
LEMMA GotoMoves ==
  ASSUME TypeOK, NEW t \in Member, NEW label, Goto(t, label)
  PROVE  /\ pc'[t] = label
         /\ \A u \in Member : u # t => pc'[u] = pc[u]
BY DEF Goto, TypeOK

\* A step of t that leaves owner, round and who schedules as they are, and removes
\* nobody from the group while someone does: what holds of the others still does.
LEMMA LocalStep ==
  ASSUME TypeOK, OrderlyInv, NEW t \in Member,
         owner' = owner, round' = round, Scheduling' = Scheduling,
         threads' \subseteq threads, threads \ {t} \subseteq threads',
         Scheduling = {} \/ threads' = threads,
         \A u \in Member : u # t =>
           /\ pc'[u] = pc[u] /\ seen'[u] = seen[u] /\ leads'[u] = leads[u]
           /\ oldRound'[u] = oldRound[u] /\ pick'[u] = pick[u],
         t \in Scheduling => seen'[t] = seen[t],
         pc[t] \in Announcing \cup {"wake"} => pc'[t] \in Announcing /\ pc[t] # "wake",
         TurnOf(t)', t \in Scheduling => ScheduleOf(t)', LeaderOf(t)',
         \A u \in Member : u # t /\ Leading(u) => ~ Leading(t)',
         Leading(t) => Leading(t)', Waits(t)' => Waits(t),
         owner < 0 /\ Candidate(t) => Candidate(t)' \/ Leading(t)',
         OwnerInv', RoundOf(t)', SleepOf(t)'
  PROVE  OrderlyInv'
<1>1. Scheduling \subseteq Member
  BY DEF Scheduling
<1>2. ASSUME NEW u \in Member, u # t
      PROVE  TurnOf(u)'
  BY <1>2 DEF OrderlyInv, TurnInv, TurnOf
<1>3. ASSUME NEW u \in Scheduling, u # t
      PROVE  ScheduleOf(u)'
  BY <1>1, <1>3 DEF OrderlyInv, SchedulerInv, ScheduleOf, NextOwner, groupSize
<1>4. ASSUME NEW u \in Member, u # t
      PROVE  (Leading(u)' <=> Leading(u)) /\ LeaderOf(u)'
  BY <1>4 DEF OrderlyInv, LeaderInv, LeaderOf, Leading
<1>5. ASSUME NEW u \in Member, u # t
      PROVE  RoundOf(u)'
  BY <1>1, <1>5 DEF OrderlyInv, RoundInv, RoundOf, Waits
<1>6. ASSUME NEW u \in Member, u # t
      PROVE  SleepOf(u)'
  <2>1. SleepOf(u)
    BY DEF OrderlyInv, SleepInv
  <2>2. \A v \in Member : pc[v] = "wake" => pc'[v] = "wake" /\ seen'[v] = seen[v]
    BY DEF Announcing
  <2>3. \A v \in Member : pc[v] \in Announcing => pc'[v] \in Announcing /\ seen'[v] = seen[v]
    BY DEF Announcing, Scheduling
  <2> QED
    BY <1>6, <2>1, <2>2, <2>3 DEF SleepOf
<1>7. TurnInv' /\ RoundInv' /\ SleepInv'
  BY <1>2, <1>5, <1>6 DEF TurnInv, RoundInv, SleepInv
<1>8. SchedulerInv'
  BY <1>3 DEF OrderlyInv, SchedulerInv
<1>9. LeaderInv'
  BY <1>4 DEF OrderlyInv, LeaderInv
<1>10. BarrierInv'
  <2>1. ASSUME NEW u \in Member
        PROVE  /\ Leading(u) => Leading(u)'
               /\ Waits(u)' => Waits(u)
               /\ owner < 0 /\ Candidate(u) => Candidate(u)' \/ Leading(u)'
    BY <1>4 DEF Candidate, Waits
  <2> QED BY <2>1 DEF OrderlyInv, BarrierInv
<1> QED
  BY <1>7, <1>8, <1>9, <1>10 DEF OrderlyInv

LEMMA ReadOwnerStep ==
  ASSUME FutexInv, NEW t \in Member, ReadOwner(t)
  PROVE  FutexInv'
<1>1. TypeOK /\ BaseInv
  BY DEF FutexInv
<1>2. /\ pc[t] = "loop" /\ pc'[t] \in {"waitOwner", "round", "leader"}
      /\ \A u \in Member : u # t => pc'[u] = pc[u]
  BY <1>1, GotoMoves DEF ReadOwner
<1>3. TypeOK'
  BY <1>1 DEF TypeOK, ReadOwner, groupVars, Goto
<1>4. BaseInv'
  BY <1>1, <1>2 DEF BaseInv, ReadOwner, groupVars
<1> SUFFICES ASSUME orderly' PROVE OrderlyInv'
  BY <1>3, <1>4 DEF FutexInv
<1>5. OrderlyInv /\ owner # 0 /\ ~(MyTurn(t) /\ HandingOver(t))
  BY DEF FutexInv, ReadOwner, NoOwner
<1>6. owner \in Int /\ Member \subseteq Nat \ {0} /\ \A u \in Member : seen[u] \in Int
  BY <1>1, MemberFacts DEF TypeOK
<1>7. /\ UNCHANGED <<owner, round, threads, oldRound, pick>>
      /\ seen'[t] = owner /\ leads'[t] = (owner = t)
      /\ \A u \in Member : u # t => seen'[u] = seen[u] /\ leads'[u] = leads[u]
  BY <1>1 DEF ReadOwner, groupVars, TypeOK
<1>8. Scheduling' = Scheduling /\ t \notin Scheduling
  BY <1>2 DEF Scheduling
<1>9. MyTurn(t) => Scheduling = {}
  <2> SUFFICES ASSUME MyTurn(t), NEW u \in Scheduling
               PROVE  FALSE
    OBVIOUS
  <2>1. u \in Member \ {t} /\ pc[u] \in Picking \cup Announcing
    BY <1>8 DEF Scheduling, Picking, Announcing
  <2>2. pc[u] \in Picking
    BY <1>5, <2>1 DEF HandingOver, Announcing
  <2>3. owner = 0 \/ owner = u
    BY <1>5, <2>2 DEF OrderlyInv, SchedulerInv, ScheduleOf
  <2> QED BY <1>5, <1>6, <2>1, <2>3 DEF MyTurn
<1>10. pc'[t] = (IF ~MyTurn(t) THEN "waitOwner" ELSE IF owner = t THEN "round" ELSE "leader")
  BY <1>1, GotoMoves DEF ReadOwner
<1>11. TurnOf(t)'
  BY <1>2, <1>6, <1>7, <1>8, <1>9, <1>10 DEF TurnOf, Taking, MyTurn
<1>12. Leading(t)' => owner = t
  BY <1>6, <1>7, <1>10 DEF Leading, MyTurn
<1>13. LeaderOf(t)'
  BY <1>2, <1>6, <1>7, <1>12 DEF LeaderOf
<1>14. ASSUME NEW u \in Member, u # t, Leading(u)
       PROVE  ~ Leading(t)'
  BY <1>5, <1>6, <1>12, <1>14 DEF OrderlyInv, LeaderInv, LeaderOf, TurnInv, TurnOf, Leading,
     Taking
<1>15. OwnerInv'
  <2>1. Awaited' = Awaited
    BY <1>2, <1>7 DEF Awaited
  <2> QED BY <1>5, <1>7, <1>8, <2>1 DEF OrderlyInv, OwnerInv
<1>16. RoundOf(t)'
  BY <1>2, <1>5, <1>7 DEF OrderlyInv, RoundInv, RoundOf, Waits, Waiting
<1>17. SleepOf(t)'
  BY <1>2, <1>5, <1>6, <1>7, <1>10 DEF SleepOf, MyTurn
<1>18. ~ Leading(t) /\ ~ Waits(t)' /\ (owner < 0 /\ Candidate(t) => Candidate(t)')
  BY <1>2, <1>6, <1>7, <1>10 DEF Leading, Waits, Waiting, Candidate, MyTurn
<1> QED
  BY <1>1, <1>2, <1>5, <1>7, <1>8, <1>11, <1>13, <1>14, <1>15, <1>16, <1>17, <1>18,
     LocalStep
     DEF groupVars, Announcing

LEMMA ScanLeaderStep ==
  ASSUME FutexInv, NEW t \in Member, ScanLeader(t)
  PROVE  FutexInv'
<1>1. TypeOK /\ BaseInv
  BY DEF FutexInv
<1>2. /\ pc[t] = "leader" /\ pc'[t] = "round"
      /\ \A u \in Member : u # t => pc'[u] = pc[u]
  BY <1>1, GotoMoves DEF ScanLeader
<1>3. TypeOK'
  BY <1>1 DEF TypeOK, ScanLeader, groupVars, Goto
<1>4. BaseInv'
  BY <1>1, <1>2 DEF BaseInv, ScanLeader, groupVars
<1> SUFFICES ASSUME orderly' PROVE OrderlyInv'
  BY <1>3, <1>4 DEF FutexInv
<1>5. OrderlyInv /\ ~ LeaderLeft(t)
  BY DEF FutexInv, ScanLeader
<1>6. owner \in Int /\ threads \subseteq Member /\ Member \subseteq Nat \ {0}
  BY <1>1, MemberFacts DEF TypeOK
<1>7. /\ UNCHANGED <<owner, round, threads, seen, oldRound, pick>>
      /\ leads'[t] = (groupLeader = t)
      /\ \A u \in Member : u # t => leads'[u] = leads[u]
  BY <1>1 DEF ScanLeader, groupVars, TypeOK
<1>8. Scheduling' = Scheduling /\ Awaited' = Awaited
  BY <1>2, <1>7 DEF Scheduling, Awaited
<1>9. t \in threads /\ seen[t] < 0 /\ owner < 0 /\ Scheduling = {}
  BY <1>1, <1>2, <1>5 DEF BaseInv, OrderlyInv, TurnInv, TurnOf, Taking
<1>10. Leading(t)' => \A u \in threads : t <= u
  BY <1>6, <1>7, <1>9, LeaderIsFirst DEF Leading
<1>11. LeaderOf(t)'
  BY <1>2, <1>7, <1>10 DEF LeaderOf
<1>12. ASSUME NEW u \in Member, u # t, Leading(u)
       PROVE  ~ Leading(t)'
  <2>1. u \in threads
    BY <1>1, <1>5, <1>12 DEF BaseInv, LeaderLeft, Leading
  <2>2. seen[u] < 0
    BY <1>5, <1>6, <1>9, <1>12 DEF OrderlyInv, TurnInv, TurnOf, LeaderInv, LeaderOf, Leading,
       Taking
  <2>3. u <= t
    BY <1>5, <1>9, <1>12, <2>1, <2>2 DEF OrderlyInv, LeaderInv, LeaderOf
  <2> QED BY <1>6, <1>10, <1>12, <2>1, <2>3
<1>13. TurnOf(t)'
  BY <1>2, <1>7, <1>8, <1>9 DEF TurnOf
<1>14. OwnerInv'
  BY <1>5, <1>7, <1>8 DEF OrderlyInv, OwnerInv
<1>15. RoundOf(t)' /\ SleepOf(t)'
  BY <1>2, <1>5, <1>7 DEF OrderlyInv, RoundInv, RoundOf, Waits, SleepOf, Waiting
<1>16. ~ Leading(t) /\ ~ Waits(t)' /\ (Candidate(t) => Leading(t)')
  <2>1. groupLeader \in threads /\ \A u \in threads : groupLeader <= u
    BY <1>6, <1>9, LeaderIsFirst
  <2>2. Candidate(t) => groupLeader = t
    BY <1>6, <2>1 DEF Candidate
  <2> QED BY <1>2, <1>7, <2>2 DEF Leading, Waits, Waiting
<1> QED
  BY <1>1, <1>2, <1>5, <1>7, <1>8, <1>9, <1>11, <1>12, <1>13, <1>14, <1>15, <1>16,
     LocalStep
     DEF groupVars, Announcing

LEMMA ReadRoundStep ==
  ASSUME FutexInv, NEW t \in Member, ReadRound(t)
  PROVE  FutexInv'
<1>1. TypeOK /\ BaseInv
  BY DEF FutexInv
<1>2. /\ pc[t] = "round" /\ pc'[t] = "execute"
      /\ \A u \in Member : u # t => pc'[u] = pc[u]
  BY <1>1, GotoMoves DEF ReadRound
<1>3. TypeOK'
  BY <1>1 DEF TypeOK, ReadRound, groupVars, Goto
<1>4. BaseInv'
  BY <1>1, <1>2 DEF BaseInv, ReadRound, groupVars
<1> SUFFICES ASSUME orderly' PROVE OrderlyInv'
  BY <1>3, <1>4 DEF FutexInv
<1>5. OrderlyInv
  BY DEF FutexInv, ReadRound
<1>6. /\ UNCHANGED <<owner, round, threads, seen, leads, pick>> /\ round \in Nat
      /\ oldRound'[t] = round
      /\ \A u \in Member : u # t => oldRound'[u] = oldRound[u]
  BY <1>1 DEF ReadRound, groupVars, TypeOK
<1>7. Scheduling' = Scheduling /\ Awaited' = Awaited
  BY <1>2, <1>6 DEF Scheduling, Awaited
<1>8. TurnOf(t)' /\ t \notin Scheduling
  BY <1>2, <1>5, <1>6, <1>7 DEF OrderlyInv, TurnInv, TurnOf, Taking
<1>9. LeaderOf(t)' /\ (Leading(t)' => Leading(t))
  BY <1>2, <1>5, <1>6, <1>7 DEF OrderlyInv, LeaderInv, LeaderOf, Leading
<1>10. \A u \in Member : u # t /\ Leading(u) => ~ Leading(t)'
  BY <1>5, <1>9 DEF OrderlyInv, LeaderInv
<1>11. OwnerInv'
  BY <1>5, <1>6, <1>7 DEF OrderlyInv, OwnerInv
<1>12. RoundOf(t)' /\ SleepOf(t)'
  BY <1>2, <1>6 DEF RoundOf, Waits, SleepOf, Waiting
<1>13. (Leading(t) => Leading(t)') /\ ~ Waits(t)' /\ ~ Candidate(t)
  BY <1>2, <1>6 DEF Leading, Waits, Waiting, Candidate
<1> QED
  BY <1>1, <1>2, <1>5, <1>6, <1>7, <1>8, <1>9, <1>10, <1>11, <1>12, <1>13,
     LocalStep
     DEF groupVars, Announcing

\* The steps of a thread that sleeps, or does not, and then leaves.
LEMMA WaitSteps ==
  ASSUME FutexInv, NEW t \in Member, WaitRound(t) \/ WaitOwner(t) \/ Leave(t)
  PROVE  FutexInv'
<1>1. TypeOK /\ BaseInv
  BY DEF FutexInv
<1>2. /\ pc[t] \in {"waitRound", "waitOwner", "loop"}
      /\ pc'[t] \in {"sleepRound", "sleepOwner", "loop", "exit"}
      /\ \A u \in Member : u # t => pc'[u] = pc[u]
  BY <1>1, GotoMoves DEF WaitRound, WaitOwner, Leave
<1>3. pc'[t] = "sleepRound" => pc[t] = "waitRound" /\ oldRound[t] = round
  BY <1>1, GotoMoves DEF WaitRound, WaitOwner, Leave
<1>4. pc'[t] = "sleepOwner" => pc[t] = "waitOwner" /\ owner = seen[t]
  BY <1>1, GotoMoves DEF WaitRound, WaitOwner, Leave
<1>5. UNCHANGED <<groupVars, iter, seen, leads, oldRound, pick, orderly>>
  BY DEF WaitRound, WaitOwner, Leave
<1>6. TypeOK'
  BY <1>1, <1>5 DEF TypeOK, WaitRound, WaitOwner, Leave, groupVars, Goto
<1>7. BaseInv'
  <2>1. pc'[t] = "exit" => iter[t] = MaxLoop
    BY <1>1, GotoMoves DEF WaitRound, WaitOwner, Leave
  <2> QED BY <1>1, <1>2, <1>5, <2>1, FutexAssumption DEF BaseInv, groupVars
<1> SUFFICES ASSUME orderly' PROVE OrderlyInv'
  BY <1>6, <1>7 DEF FutexInv
<1>8. OrderlyInv
  BY <1>5 DEF FutexInv
<1>9. Scheduling' = Scheduling /\ t \notin Scheduling
  BY <1>2 DEF Scheduling
<1>10. Awaited' = Awaited
  BY <1>2, <1>5 DEF Awaited, groupVars
<1>11. TurnOf(t)' /\ ~ Leading(t)'
  BY <1>2 DEF TurnOf, Taking, Leading
<1>12. OwnerInv'
  BY <1>5, <1>8, <1>9, <1>10 DEF OrderlyInv, OwnerInv, groupVars
<1>13. RoundOf(t)'
  BY <1>2, <1>3, <1>5, <1>8, <1>9 DEF OrderlyInv, RoundInv, RoundOf, Waits, Waiting, groupVars
<1>14. SleepOf(t)'
  BY <1>2, <1>3, <1>4, <1>5, <1>8 DEF OrderlyInv, SleepInv, SleepOf, groupVars
<1>15. ~ Leading(t) /\ (Waits(t)' => Waits(t)) /\ (Candidate(t) => Candidate(t)')
  BY <1>2, <1>3, <1>5 DEF Leading, Waits, Waiting, Candidate, groupVars
<1> QED
  BY <1>1, <1>2, <1>5, <1>8, <1>9, <1>11, <1>12, <1>13, <1>14, <1>15, LocalStep
     DEF LeaderOf, Announcing, groupVars

\* What a scheduler that has picked the next turn may publish.
LEMMA PickRange ==
  ASSUME TypeOK, BaseInv, NEW t \in Member, PickStart(t) \/ PickWalk(t)
  PROVE  pc'[t] = "publish" => NextOwner(pick'[t])
<1>1. CASE PickStart(t)
  <2>1. pc'[t] = "publish" => threads = {} /\ pick'[t] = 0
    BY <1>1 DEF PickStart, TypeOK, Goto
  <2>2. Cardinality({}) = 0
    BY FS_EmptySet
  <2> QED BY <2>1, <2>2 DEF NextOwner, groupSize
<1>2. CASE PickWalk(t)
  <2>1. pick'[t] = NextFrom(pick[t])
    BY <1>2 DEF PickWalk, TypeOK
  <2> QED BY <1>2, <2>1, NextFromRange DEF PickWalk, TypeOK
<1> QED BY <1>1, <1>2

\* The steps of a scheduler that change nothing the others see.
LEMMA PickSteps ==
  ASSUME FutexInv, NEW t \in Member, PickStart(t) \/ PickWalk(t) \/ LoadRound(t)
  PROVE  FutexInv'
<1>1. TypeOK /\ BaseInv
  BY DEF FutexInv
<1>2. /\ \/ pc[t] \in {"check", "walk"} /\ pc'[t] \in {"walk", "publish"}
         \/ pc[t] = "load" /\ pc'[t] = "store" /\ pick'[t] = round
      /\ \A u \in Member : u # t => pc'[u] = pc[u] /\ pick'[u] = pick[u]
  BY <1>1 DEF PickStart, PickWalk, LoadRound, TypeOK, Goto
<1>3. UNCHANGED <<owner, round, threads, iter, seen, leads, oldRound, orderly>>
  BY DEF PickStart, PickWalk, LoadRound, groupVars
<1>4. pc'[t] = "publish" => NextOwner(pick'[t])
  <2>1. CASE LoadRound(t)
    BY <1>1, <2>1, GotoMoves DEF LoadRound
  <2> QED BY <1>1, <2>1, PickRange
<1>5. pc'[t] = "publish" => pick'[t] \in Int /\ pick'[t] >= -Cardinality(Member)
  BY <1>1, <1>4, NextOwnerRange DEF TypeOK
<1>6. pc'[t] = "walk" => pick'[t] \in Begin .. End
  BY <1>1 DEF PickStart, PickWalk, LoadRound, TypeOK, Goto
<1>7. pc'[t] = "walk" => threads # {}
  BY <1>1 DEF PickStart, PickWalk, LoadRound, TypeOK, Goto
<1>8. TypeOK'
  <2>1. pick'[t] \in Int
    BY <1>1, <1>2, <1>5, <1>6, FutexAssumption DEF TypeOK
  <2>2. pick' \in [Member -> Int]
    BY <1>1, <2>1 DEF PickStart, PickWalk, LoadRound, TypeOK
  <2>3. pc' \in [Member -> {"walk", "publish", "store"} \cup {pc[u] : u \in Member}]
    BY <1>1 DEF PickStart, PickWalk, LoadRound, TypeOK, Goto
  <2> QED BY <1>1, <1>3, <2>2, <2>3 DEF TypeOK
<1>9. BaseInv'
  BY <1>1, <1>2, <1>3, <1>5, <1>6 DEF BaseInv, TypeOK
<1> SUFFICES ASSUME orderly' PROVE OrderlyInv'
  BY <1>8, <1>9 DEF FutexInv
<1>10. OrderlyInv
  BY <1>3 DEF FutexInv
<1>11. Scheduling' = Scheduling /\ t \in Scheduling
  BY <1>2 DEF Scheduling
<1>12. Awaited' = Awaited
  BY <1>2, <1>3 DEF Awaited
<1>13. TurnOf(t)' /\ ~ Leading(t)'
  BY <1>2 DEF TurnOf, Taking, Leading
<1>14. ScheduleOf(t)'
  BY <1>2, <1>3, <1>4, <1>7, <1>10, <1>11 DEF OrderlyInv, SchedulerInv, ScheduleOf, NextOwner,
     groupSize, Picking, Announcing
<1>15. OwnerInv'
  BY <1>3, <1>10, <1>11, <1>12 DEF OrderlyInv, OwnerInv
<1>16. RoundOf(t)' /\ SleepOf(t)'
  BY <1>2, <1>3, <1>10, <1>11 DEF OrderlyInv, RoundInv, RoundOf, Waits, Waiting, SleepOf
<1>17. ~ Leading(t) /\ ~ Waits(t)' /\ (Candidate(t) => Candidate(t)')
  BY <1>2, <1>3 DEF Leading, Waits, Waiting, Candidate
<1> QED
  BY <1>1, <1>2, <1>3, <1>10, <1>11, <1>13, <1>14, <1>15, <1>16, <1>17,
     LocalStep
     DEF LeaderOf, Announcing, groupVars

LEMMA ExecuteStep ==
  ASSUME FutexInv, NEW t \in Member, Execute(t)
  PROVE  FutexInv'
<1>1. TypeOK /\ BaseInv
  BY DEF FutexInv
<1>2. /\ pc[t] = "execute" /\ pc'[t] = (IF seen[t] < 0 THEN "arrive" ELSE "check")
      /\ \A u \in Member : u # t => pc'[u] = pc[u]
  BY <1>1, GotoMoves DEF Execute
<1>3. /\ UNCHANGED <<owner, round, seen, leads, pick, orderly>>
      /\ oldRound'[t] = IF seen[t] < 0 THEN oldRound[t] ELSE 0
      /\ \A u \in Member : u # t => oldRound'[u] = oldRound[u]
  BY <1>1 DEF Execute, TypeOK
<1>4. /\ iter'[t] \in 0 .. MaxLoop
      /\ iter'[t] = MaxLoop => threads' = threads \ {t}
      /\ iter'[t] # MaxLoop => threads' = threads
      /\ \A u \in Member : u # t => iter'[u] = iter[u]
  <2>1. npersig \in Nat
    BY FutexAssumption DEF npersig
  <2> QED BY <1>1, <2>1, FutexAssumption DEF Execute, TypeOK, groupRemoveMe
<1>5. TypeOK'
  <2>1. iter' \in [Member -> 0 .. MaxLoop]
    BY <1>1, <1>4 DEF Execute, TypeOK
  <2>2. threads' \subseteq Member
    BY <1>1, <1>4 DEF TypeOK
  <2> QED BY <1>1, <2>1, <2>2 DEF Execute, TypeOK, Goto
<1>6. t \in threads
  BY <1>1, <1>2 DEF BaseInv
<1>7. BaseInv'
  BY <1>1, <1>2, <1>3, <1>4, <1>6, FutexAssumption DEF BaseInv
<1> SUFFICES ASSUME orderly' PROVE OrderlyInv'
  BY <1>5, <1>7 DEF FutexInv
<1>8. OrderlyInv
  BY <1>3 DEF FutexInv
<1>9. owner \in Int /\ round \in Nat /\ threads \subseteq Member /\ Member \subseteq Nat \ {0}
  BY <1>1, MemberFacts DEF TypeOK
<1>10. Scheduling = {} /\ oldRound[t] = round
  BY <1>2, <1>8 DEF OrderlyInv, TurnInv, TurnOf, Taking
<1>11. CASE seen[t] < 0
  <2>1. Scheduling' = Scheduling
    BY <1>2, <1>11 DEF Scheduling
  <2>2. Awaited' = Awaited
    BY <1>2, <1>3, <1>4, <1>6, <1>11 DEF Awaited
  <2>3. owner < 0
    BY <1>2, <1>8, <1>9, <1>11 DEF OrderlyInv, TurnInv, TurnOf, Taking
  <2>4. TurnOf(t)'
    BY <1>2, <1>3, <1>10, <1>11, <2>1, <2>3 DEF TurnOf
  <2>5. LeaderOf(t)' /\ (Leading(t)' => Leading(t))
    BY <1>2, <1>3, <1>4, <1>8, <1>11 DEF OrderlyInv, LeaderInv, LeaderOf, Leading
  <2>6. \A u \in Member : u # t /\ Leading(u) => ~ Leading(t)'
    BY <1>8, <2>5 DEF OrderlyInv, LeaderInv
  <2>7. OwnerInv'
    BY <1>3, <1>8, <2>1, <2>2, <2>3, <1>9 DEF OrderlyInv, OwnerInv
  <2>8. RoundOf(t)' /\ SleepOf(t)'
    BY <1>2, <1>3, <1>9, <1>10, <1>11 DEF RoundOf, Waits, SleepOf, Waiting
  <2>9. (Leading(t) => Leading(t)') /\ ~ Waits(t)' /\ ~ Candidate(t)
    BY <1>2, <1>3, <1>11 DEF Leading, Waits, Waiting, Candidate
  <2> QED
    BY <1>1, <1>2, <1>3, <1>4, <1>8, <1>10, <2>1, <2>4, <2>5, <2>6, <2>7, <2>8, <2>9,
       LocalStep
       DEF Announcing
<1>12. CASE ~ (seen[t] < 0)
  <2>1. owner = t /\ seen[t] = t
    BY <1>2, <1>8, <1>12 DEF OrderlyInv, TurnInv, TurnOf, Taking
  <2>2. Scheduling' = {t}
    BY <1>2, <1>10, <1>12 DEF Scheduling
  <2>3. TurnInv'
    BY <1>2, <1>3, <1>8, <1>9, <1>12, <2>1 DEF OrderlyInv, TurnInv, TurnOf, Taking
  <2>4. SchedulerInv'
    BY <1>2, <1>3, <1>12, <2>1, <2>2 DEF SchedulerInv, ScheduleOf, Picking, Announcing
  <2>5. LeaderInv'
    <3>1. ASSUME NEW u \in Member
          PROVE  ~ Leading(u)'
      BY <1>2, <1>3, <1>8, <1>9, <1>12, <2>1 DEF OrderlyInv, TurnInv, TurnOf, Taking, LeaderInv,
         LeaderOf, Leading
    <3> QED BY <3>1 DEF LeaderInv, LeaderOf
  <2>6. OwnerInv' /\ BarrierInv'
    BY <2>2 DEF OwnerInv, BarrierInv
  <2>7. RoundInv'
    <3>1. ASSUME NEW u \in Member
          PROVE  oldRound'[u] <= round' /\ ~ (pc'[u] \in Waiting /\ oldRound'[u] = round')
      BY <1>2, <1>3, <1>8, <1>9, <1>10, <1>12, <2>1 DEF OrderlyInv, RoundInv, RoundOf, Waits, Waiting
    <3> QED BY <3>1 DEF RoundInv, RoundOf, Waits, Waiting
  <2>8. SleepInv'
    <3>1. ASSUME NEW u \in Member
          PROVE  SleepOf(u)'
      <4>1. SleepOf(u) /\ (pc'[u] \in {"waitOwner", "sleepOwner", "sleepRound"} => pc'[u] = pc[u] /\ u # t)
        BY <1>2, <1>8, <1>12 DEF OrderlyInv, SleepInv
      <4>2. \A v \in Member : pc[v] \in Announcing \cup {"wake"} => pc'[v] = pc[v]
        BY <1>2 DEF Announcing
      <4> QED BY <1>3, <4>1, <4>2 DEF SleepOf
    <3> QED BY <3>1 DEF SleepInv
  <2> QED BY <2>3, <2>4, <2>5, <2>6, <2>7, <2>8 DEF OrderlyInv
<1> QED BY <1>11, <1>12

LEMMA ArriveStep ==
  ASSUME FutexInv, NEW t \in Member, Arrive(t)
  PROVE  FutexInv'
<1>1. TypeOK /\ BaseInv
  BY DEF FutexInv
<1>2. /\ pc[t] = "arrive" /\ pc'[t] = "spin"
      /\ \A u \in Member : u # t => pc'[u] = pc[u]
  BY <1>1, GotoMoves DEF Arrive
<1>3. /\ owner' = owner + 1
      /\ UNCHANGED <<round, threads, iter, seen, leads, oldRound, pick, orderly>>
  BY DEF Arrive
<1>4. owner \in Int /\ threads \subseteq Member /\ Member \subseteq Nat \ {0}
      /\ Cardinality(Member) \in Nat
  BY <1>1, MemberFacts DEF TypeOK
<1>5. TypeOK'
  BY <1>1, <1>3, <1>4 DEF Arrive, TypeOK, Goto
<1>6. BaseInv'
  BY <1>1, <1>2, <1>3 DEF BaseInv
<1> SUFFICES ASSUME orderly' PROVE OrderlyInv'
  BY <1>5, <1>6 DEF FutexInv
<1>7. OrderlyInv
  BY <1>3 DEF FutexInv
<1>8. Scheduling = {} /\ oldRound[t] = round /\ seen[t] < 0 /\ owner < 0
  BY <1>2, <1>7 DEF OrderlyInv, TurnInv, TurnOf, Taking
<1>9. Scheduling' = {}
  BY <1>2, <1>8 DEF Scheduling
<1>10. t \in Awaited /\ Awaited' = Awaited \ {t} /\ Awaited \subseteq Member
  BY <1>2, <1>3, <1>8 DEF Awaited
<1>11. IsFiniteSet(Awaited) /\ IsFiniteSet(Awaited') /\ Cardinality(Awaited') \in Nat
       /\ Cardinality(Awaited) \in Nat /\ Cardinality(Awaited') = Cardinality(Awaited) - 1
  <2>1. Awaited' \subseteq Member
    BY <1>10
  <2>2. IsFiniteSet(Awaited) /\ IsFiniteSet(Awaited')
    BY <1>10, <2>1, MemberFacts
  <2> QED BY <1>10, <2>2, FS_RemoveElement, FS_CardinalityType
<1>12. -owner' = Cardinality(Awaited') /\ owner' <= 0
  BY <1>3, <1>4, <1>7, <1>8, <1>11 DEF OrderlyInv, OwnerInv
<1>13. TurnInv'
  <2> SUFFICES ASSUME NEW u \in Member, pc'[u] \in Taking
               PROVE  TurnOf(u)'
    BY DEF TurnInv, TurnOf, Taking
  <2>1. u # t /\ pc'[u] = pc[u] /\ TurnOf(u)
    BY <1>2, <1>7 DEF OrderlyInv, TurnInv, Taking
  <2>2. u \in Awaited'
    BY <1>1, <1>10, <2>1 DEF Awaited, Taking, BaseInv
  <2>3. Cardinality(Awaited') # 0
    BY <1>11, <2>2, FS_EmptySet
  <2>4. owner' < 0
    BY <1>3, <1>4, <1>11, <1>12, <2>3
  <2> QED BY <1>3, <1>4, <1>8, <1>9, <2>1, <2>4 DEF TurnOf
<1>14. SchedulerInv'
  BY <1>9 DEF SchedulerInv
<1>15. LeaderInv'
  <2>1. ASSUME NEW u \in Member
        PROVE  (Leading(u)' => Leading(u)) /\ LeaderOf(u)'
    BY <1>2, <1>3, <1>7, <1>8, <1>9, <1>12 DEF OrderlyInv, LeaderInv, LeaderOf, Leading
  <2> QED BY <1>7, <2>1 DEF OrderlyInv, LeaderInv
<1>16. OwnerInv'
  BY <1>3, <1>4, <1>12 DEF OwnerInv
<1>17. RoundInv'
  <2>1. ASSUME NEW u \in Member
        PROVE  RoundOf(u)'
    BY <1>2, <1>3, <1>4, <1>7, <1>8, <1>9, <1>12 DEF OrderlyInv, RoundInv, RoundOf, Waits, Waiting
  <2> QED BY <2>1 DEF RoundInv
<1>18. SleepInv'
  <2>1. ASSUME NEW u \in Member
        PROVE  SleepOf(u)'
    <3>1. SleepOf(u) /\ (pc'[u] \in {"waitOwner", "sleepOwner", "sleepRound"} => pc'[u] = pc[u])
      BY <1>2, <1>7 DEF OrderlyInv, SleepInv
    <3>2. \A v \in Member : pc[v] \in Announcing \cup {"wake"} => pc'[v] = pc[v]
      BY <1>2 DEF Announcing
    <3>3. pc'[u] = "sleepOwner" => owner # seen[u]
      BY <1>4, <1>8, <3>1 DEF SleepOf
    <3> QED BY <1>3, <3>1, <3>2, <3>3 DEF SleepOf
  <2> QED BY <2>1 DEF SleepInv
<1>19. BarrierInv'
  <2>1. \A u \in Member : Leading(u) => Leading(u)'
    BY <1>2, <1>3 DEF Leading
  <2>2. \A u \in Member : Candidate(u) => Candidate(u)' /\ u \in Awaited'
    BY <1>2, <1>3, <1>8, <1>10 DEF Candidate, Waits, Waiting, Awaited
  <2>3. PICK u \in Member : Leading(u) \/ Candidate(u)
    BY <1>7, <1>8 DEF OrderlyInv, BarrierInv
  <2>4. owner' = 0 => Awaited' = {}
    BY <1>11, <1>12, FS_EmptySet
  <2> QED BY <2>1, <2>2, <2>3, <2>4 DEF BarrierInv
<1> QED
  BY <1>13, <1>14, <1>15, <1>16, <1>17, <1>18, <1>19 DEF OrderlyInv

LEMMA LeaveSpinStep ==
  ASSUME FutexInv, NEW t \in Member, LeaveSpin(t)
  PROVE  FutexInv'
<1>1. TypeOK /\ BaseInv
  BY DEF FutexInv
<1>2. /\ pc[t] = "spin" /\ pc'[t] = (IF leads[t] THEN "check" ELSE "waitRound")
      /\ \A u \in Member : u # t => pc'[u] = pc[u]
  BY <1>1, GotoMoves DEF LeaveSpin
<1>3. UNCHANGED <<owner, round, threads, iter, seen, leads, oldRound, pick, orderly>>
  BY DEF LeaveSpin, groupVars
<1>4. TypeOK'
  BY <1>1, <1>3 DEF LeaveSpin, TypeOK, Goto
<1>5. BaseInv'
  BY <1>1, <1>2, <1>3 DEF BaseInv
<1> SUFFICES ASSUME orderly' PROVE OrderlyInv'
  BY <1>4, <1>5 DEF FutexInv
<1>6. OrderlyInv
  BY <1>3 DEF FutexInv
<1>7. owner \in Int /\ Member \subseteq Nat \ {0}
  BY <1>1, MemberFacts DEF TypeOK
<1>8. CASE ~ leads[t]
  <2>1. Scheduling' = Scheduling /\ t \notin Scheduling
    BY <1>2, <1>8 DEF Scheduling
  <2>2. TurnOf(t)' /\ ~ Leading(t)'
    BY <1>2, <1>8 DEF TurnOf, Taking, Leading
  <2>3. OwnerInv'
    <3>1. CASE owner = 0
      BY <1>3, <3>1 DEF OwnerInv
    <3>2. CASE owner # 0
      <4>1. oldRound[t] # round
        BY <3>2 DEF LeaveSpin
      <4>2. Awaited' = Awaited
        BY <1>2, <1>3, <1>8, <4>1 DEF Awaited
      <4> QED BY <1>3, <1>6, <2>1, <4>2 DEF OrderlyInv, OwnerInv
    <3> QED BY <3>1, <3>2
  <2>4. RoundOf(t)' /\ SleepOf(t)'
    <3>1. owner = 0 \/ oldRound[t] # round
      BY DEF LeaveSpin
    <3> QED
      BY <1>2, <1>3, <1>6, <1>8, <2>1, <3>1 DEF OrderlyInv, RoundInv, RoundOf, Waits, SleepOf, Waiting
  <2>5. ~ Leading(t) /\ (Waits(t)' => Waits(t)) /\ (Candidate(t) => Candidate(t)')
    BY <1>2, <1>3, <1>8 DEF Leading, Waits, Waiting, Candidate
  <2> QED
    BY <1>1, <1>2, <1>3, <1>6, <2>1, <2>2, <2>3, <2>4, <2>5, LocalStep DEF LeaderOf, Announcing
<1>9. CASE leads[t]
  <2>1. Leading(t) /\ seen[t] < 0 /\ oldRound[t] = round /\ Scheduling = {} /\ owner = 0
    BY <1>2, <1>6, <1>9 DEF OrderlyInv, LeaderInv, LeaderOf, Leading, LeaveSpin
  <2>2. Scheduling' = {t}
    BY <1>2, <1>9, <2>1 DEF Scheduling
  <2>3. TurnInv'
    BY <1>2, <1>3, <1>6, <1>7, <1>9, <2>1 DEF OrderlyInv, TurnInv, TurnOf, Taking
  <2>4. SchedulerInv'
    BY <1>2, <1>3, <1>9, <2>1, <2>2 DEF SchedulerInv, ScheduleOf, Picking, Announcing
  <2>5. LeaderInv'
    <3>1. ASSUME NEW u \in Member
          PROVE  ~ Leading(u)'
      BY <1>2, <1>3, <1>6, <1>9, <2>1 DEF OrderlyInv, LeaderInv, Leading
    <3> QED BY <3>1 DEF LeaderInv, LeaderOf
  <2>6. OwnerInv' /\ BarrierInv'
    BY <2>2 DEF OwnerInv, BarrierInv
  <2>7. RoundInv'
    BY <1>3, <1>6, <2>1, <2>2 DEF OrderlyInv, RoundInv, RoundOf, Waits
  <2>8. SleepInv'
    <3>1. ASSUME NEW u \in Member
          PROVE  SleepOf(u)'
      <4>1. SleepOf(u) /\ (pc'[u] \in {"waitOwner", "sleepOwner", "sleepRound"} => pc'[u] = pc[u])
        BY <1>2, <1>6, <1>9 DEF OrderlyInv, SleepInv
      <4>2. \A v \in Member : pc[v] \in Announcing \cup {"wake"} => pc'[v] = pc[v]
        BY <1>2 DEF Announcing
      <4> QED BY <1>3, <4>1, <4>2 DEF SleepOf
    <3> QED BY <3>1 DEF SleepInv
  <2> QED BY <2>3, <2>4, <2>5, <2>6, <2>7, <2>8 DEF OrderlyInv
<1> QED BY <1>8, <1>9

\* While somebody schedules nobody takes a turn, and no leader waits for one.
LEMMA SchedulerIsAlone ==
  ASSUME OrderlyInv, Scheduling # {}, NEW u \in Member
  PROVE  pc[u] \notin Taking /\ ~ Leading(u)
BY DEF OrderlyInv, TurnInv, TurnOf, Taking, LeaderInv, LeaderOf, Leading

LEMMA PublishStep ==
  ASSUME FutexInv, NEW t \in Member, Publish(t)
  PROVE  FutexInv'
<1>1. TypeOK /\ BaseInv
  BY DEF FutexInv
<1>2. /\ pc[t] = "publish" /\ pc'[t] = "load"
      /\ \A u \in Member : u # t => pc'[u] = pc[u]
  BY <1>1, GotoMoves DEF Publish
<1>3. /\ owner' = pick[t]
      /\ UNCHANGED <<round, threads, iter, seen, leads, oldRound, pick, orderly>>
  BY DEF Publish
<1>4. TypeOK'
  BY <1>1, <1>2, <1>3 DEF BaseInv, Publish, TypeOK, Goto
<1>5. BaseInv'
  BY <1>1, <1>2, <1>3 DEF BaseInv
<1> SUFFICES ASSUME orderly' PROVE OrderlyInv'
  BY <1>4, <1>5 DEF FutexInv
<1>6. OrderlyInv
  BY <1>3 DEF FutexInv
<1>7. t \in Scheduling /\ Scheduling' = Scheduling
  BY <1>2 DEF Scheduling
<1>8. Scheduling = {t} /\ ScheduleOf(t)
  BY <1>6, <1>7 DEF OrderlyInv, SchedulerInv
<1>9. \A u \in Member : pc'[u] \notin Taking /\ ~ Leading(u)'
  BY <1>2, <1>3, <1>6, <1>8, SchedulerIsAlone DEF Taking, Leading
<1>10. TurnInv' /\ LeaderInv' /\ OwnerInv' /\ BarrierInv'
  BY <1>7, <1>8, <1>9 DEF TurnInv, TurnOf, LeaderInv, LeaderOf, OwnerInv, BarrierInv, Taking
<1>11. SchedulerInv'
  BY <1>2, <1>3, <1>7, <1>8 DEF SchedulerInv, ScheduleOf, NextOwner, groupSize, Picking,
     Announcing
<1>12. RoundInv'
  BY <1>2, <1>3, <1>6, <1>7, <1>8 DEF OrderlyInv, RoundInv, RoundOf, Waits, Waiting
<1>13. SleepInv'
  <2>1. ASSUME NEW u \in Member
        PROVE  SleepOf(u)'
    <3>1. SleepOf(u) /\ (pc'[u] \in {"waitOwner", "sleepOwner", "sleepRound"} => pc'[u] = pc[u])
      BY <1>2, <1>6 DEF OrderlyInv, SleepInv
    <3>2. \A v \in Member : pc[v] \in Announcing \cup {"wake"} => pc'[v] = pc[v]
      BY <1>2 DEF Announcing
    <3>3. owner = (IF seen[t] < 0 THEN 0 ELSE seen[t])
      BY <1>2, <1>8 DEF ScheduleOf, Picking
    <3>4. pc[u] = "sleepOwner" /\ owner = seen[u] => seen[t] = t
      BY <1>8, <3>1, <3>3 DEF SleepOf, ScheduleOf
    <3>5. pc[u] = "sleepOwner" /\ owner = seen[u] =>
            \E v \in Member : pc'[v] \in Announcing \cup {"wake"} /\ seen'[v] = v
      BY <1>2, <1>3, <3>4 DEF Announcing
    <3> QED BY <1>3, <3>1, <3>2, <3>5 DEF SleepOf
  <2> QED BY <2>1 DEF SleepInv
<1> QED
  BY <1>10, <1>11, <1>12, <1>13 DEF OrderlyInv

LEMMA StoreRoundStep ==
  ASSUME FutexInv, NEW t \in Member, StoreRound(t)
  PROVE  FutexInv'
<1>1. TypeOK /\ BaseInv
  BY DEF FutexInv
<1>2. /\ pc[t] = "store" /\ pc'[t] = "wake"
      /\ \A u \in Member : u # t => pc'[u] = pc[u]
  BY <1>1, GotoMoves DEF StoreRound
<1>3. /\ round' = pick[t] + 1
      /\ UNCHANGED <<owner, threads, iter, seen, leads, oldRound, orderly>>
      /\ \A u \in Member : u # t => pick'[u] = pick[u]
  BY <1>1 DEF StoreRound, TypeOK
<1>4. TypeOK'
  BY <1>1, <1>2, <1>3 DEF BaseInv, StoreRound, TypeOK, Goto
<1>5. BaseInv'
  BY <1>1, <1>2, <1>3 DEF BaseInv
<1> SUFFICES ASSUME orderly' PROVE OrderlyInv'
  BY <1>4, <1>5 DEF FutexInv
<1>6. OrderlyInv
  BY <1>3 DEF FutexInv
<1>7. Scheduling = {t} /\ ScheduleOf(t)
  BY <1>2, <1>6 DEF OrderlyInv, SchedulerInv, Scheduling
<1>8. Scheduling' = {}
  BY <1>2, <1>7 DEF Scheduling
<1>9. /\ round \in Nat /\ owner \in Int /\ oldRound \in [Member -> Nat]
      /\ threads \subseteq Member /\ Member \subseteq Nat \ {0}
  BY <1>1, MemberFacts DEF TypeOK
<1>10. round' = round + 1 /\ NextOwner(owner)
  BY <1>2, <1>3, <1>7 DEF ScheduleOf, Announcing
<1>11. \A u \in Member : pc[u] \notin Taking /\ pc'[u] \notin Taking /\ ~ Leading(u)'
  BY <1>2, <1>3, <1>6, <1>7, SchedulerIsAlone DEF Taking, Leading
<1>12. \A u \in Member : oldRound[u] <= round /\ oldRound[u] # round'
  BY <1>6, <1>9, <1>10 DEF OrderlyInv, RoundInv, RoundOf, Waits
<1>13. TurnInv' /\ LeaderInv' /\ SchedulerInv'
  BY <1>8, <1>11 DEF TurnInv, TurnOf, LeaderInv, LeaderOf, SchedulerInv, Taking
<1>14. OwnerInv'
  <2>1. Awaited' = threads
    BY <1>3, <1>9, <1>11, <1>12 DEF Awaited, Taking
  <2>2. owner < 0 => owner = -Cardinality(threads)
    BY <1>9, <1>10 DEF NextOwner, groupSize
  <2>3. Cardinality(threads) \in Nat
    BY <1>9, MemberFacts
  <2>4. owner > 0 => owner \in threads
    BY <1>9, <1>10, NextOwnerRange
  <2> QED BY <1>3, <2>1, <2>2, <2>3, <2>4 DEF OwnerInv
<1>15. RoundInv'
  BY <1>3, <1>9, <1>10, <1>12 DEF RoundInv, RoundOf, Waits
<1>16. SleepInv'
  <2>1. ASSUME NEW u \in Member
        PROVE  SleepOf(u)'
    <3>1. SleepOf(u) /\ (pc'[u] \in {"waitOwner", "sleepOwner", "sleepRound"} => pc'[u] = pc[u])
      BY <1>2, <1>6 DEF OrderlyInv, SleepInv
    <3>2. \A v \in Member : pc[v] = "wake" => pc'[v] = "wake"
      BY <1>2
    <3>3. pc[u] = "sleepRound" /\ oldRound[u] = round => seen[t] < 0
      BY <1>6, <1>7 DEF OrderlyInv, RoundInv, RoundOf, Waits, Waiting
    <3>4. \A v \in Member : pc[v] \in Announcing \cup {"wake"} =>
            pc'[v] \in Announcing \cup {"wake"}
      BY <1>2 DEF Announcing
    <3> QED BY <1>2, <1>3, <3>1, <3>2, <3>3, <3>4 DEF SleepOf
  <2> QED BY <2>1 DEF SleepInv
<1>17. BarrierInv'
  <2>1. \A u \in Member : ~ Waits(u)'
    BY <1>3, <1>12 DEF Waits
  <2>2. ASSUME owner < 0
        PROVE  \E u \in Member : Candidate(u)'
    <3>1. threads # {}
      BY <1>9, <1>10, <2>2, FS_EmptySet DEF NextOwner, groupSize
    <3>2. PICK m \in threads : \A u \in threads : m <= u
      BY <1>9, <3>1, LeaderIsFirst
    <3> QED BY <1>3, <1>9, <1>11, <2>1, <3>2 DEF Candidate, Taking
  <2> QED BY <1>3, <2>1, <2>2 DEF BarrierInv
<1> QED
  BY <1>13, <1>14, <1>15, <1>16, <1>17 DEF OrderlyInv

LEMMA WakeStep ==
  ASSUME FutexInv, NEW t \in Member, Wake(t)
  PROVE  FutexInv'
<1> DEFINE queue == IF seen[t] < 0 THEN "sleepRound" ELSE "sleepOwner"
<1>1. TypeOK /\ BaseInv
  BY DEF FutexInv
<1>2. /\ pc[t] = "wake"
      /\ pc' = [u \in Member |-> IF u = t \/ pc[u] = queue THEN "loop" ELSE pc[u]]
      /\ UNCHANGED <<owner, round, threads, iter, seen, leads, oldRound, pick, orderly>>
  BY DEF Wake, groupVars
<1>3. \A u \in Member :
        \/ pc[u] \in {"wake", "sleepRound", "sleepOwner"} /\ pc'[u] = "loop"
        \/ pc'[u] = pc[u]
  BY <1>2
<1>4. TypeOK'
  BY <1>1, <1>2 DEF TypeOK
<1>5. BaseInv'
  BY <1>1, <1>2, <1>3 DEF BaseInv
<1> SUFFICES ASSUME orderly' PROVE OrderlyInv'
  BY <1>4, <1>5 DEF FutexInv
<1>6. OrderlyInv
  BY <1>2 DEF FutexInv
<1>7. Scheduling' = Scheduling /\ Awaited' = Awaited
  BY <1>2, <1>3 DEF Scheduling, Awaited
<1>8. Scheduling \subseteq Member /\ \A u \in Scheduling : pc'[u] = pc[u]
  BY <1>3 DEF Scheduling
<1>9. TurnInv' /\ OwnerInv'
  BY <1>2, <1>3, <1>6, <1>7 DEF OrderlyInv, TurnInv, TurnOf, Taking, OwnerInv
<1>10. SchedulerInv'
  BY <1>2, <1>6, <1>7, <1>8 DEF OrderlyInv, SchedulerInv, ScheduleOf, NextOwner, groupSize
<1>11. LeaderInv'
  <2>1. ASSUME NEW u \in Member
        PROVE  (Leading(u)' <=> Leading(u)) /\ LeaderOf(u)'
    BY <1>2, <1>3, <1>6, <1>7 DEF OrderlyInv, LeaderInv, LeaderOf, Leading
  <2> QED BY <1>6, <2>1 DEF OrderlyInv, LeaderInv
<1>12. RoundInv'
  BY <1>2, <1>3, <1>6, <1>7 DEF OrderlyInv, RoundInv, RoundOf, Waits, Waiting
<1>13. SleepInv'
  <2>1. ASSUME NEW u \in Member
        PROVE  SleepOf(u)'
    <3>1. SleepOf(u) /\ (pc'[u] \in {"waitOwner", "sleepOwner", "sleepRound"} => pc'[u] = pc[u])
      BY <1>3, <1>6 DEF OrderlyInv, SleepInv
    <3>2. pc'[u] = "sleepRound" => ~ (seen[t] < 0)
      BY <1>2
    <3>3. pc'[u] = "sleepOwner" => seen[t] < 0
      BY <1>2
    <3>4. \A v \in Member : pc[v] \in Announcing \cup {"wake"} =>
            v = t \/ pc'[v] = pc[v]
      BY <1>2 DEF Announcing
    <3>5. Member \subseteq Nat \ {0}
      BY MemberFacts
    <3>6. ~ (t < 0)
      BY <3>5
    <3> QED BY <1>2, <3>1, <3>2, <3>3, <3>4, <3>6 DEF SleepOf
  <2> QED BY <2>1 DEF SleepInv
<1>14. BarrierInv'
  <2>1. \A u \in Member : /\ Leading(u) => Leading(u)'
                          /\ Waits(u)' => Waits(u)
                          /\ Candidate(u) => Candidate(u)'
    BY <1>2, <1>3 DEF Leading, Waits, Waiting, Candidate
  <2> QED BY <1>2, <1>6, <1>7, <2>1 DEF OrderlyInv, BarrierInv
<1> QED
  BY <1>9, <1>10, <1>11, <1>12, <1>13, <1>14 DEF OrderlyInv

LEMMA NextFutexInv == FutexInv /\ [Next]_vars => FutexInv'
<1> SUFFICES ASSUME FutexInv, [Next]_vars PROVE FutexInv'
  OBVIOUS
<1>1. CASE UNCHANGED vars
  <2>1. BaseInv => BaseInv'
    BY <1>1 DEF vars, groupVars, BaseInv
  <2>2. TypeOK => TypeOK'
    BY <1>1 DEF vars, groupVars, TypeOK
  <2>3. Scheduling' = Scheduling /\ Awaited' = Awaited
    BY <1>1 DEF vars, groupVars, Scheduling, Awaited
  <2>4. ASSUME NEW t \in Member
        PROVE  /\ TurnOf(t) => TurnOf(t)'
               /\ ScheduleOf(t) => ScheduleOf(t)'
               /\ Leading(t)' <=> Leading(t)
               /\ LeaderOf(t) => LeaderOf(t)'
               /\ Waits(t)' <=> Waits(t)
               /\ Candidate(t) => Candidate(t)'
               /\ RoundOf(t) => RoundOf(t)'
               /\ SleepOf(t) => SleepOf(t)'
    BY <1>1, <2>3 DEF vars, groupVars, TurnOf, ScheduleOf, Leading, LeaderOf, Waits, Candidate,
       RoundOf, SleepOf, NextOwner, groupSize
  <2>5. Scheduling \subseteq Member /\ owner' = owner /\ threads' = threads /\ orderly' = orderly
    BY <1>1 DEF vars, groupVars, Scheduling
  <2>6. OrderlyInv => OrderlyInv'
    BY <2>3, <2>4, <2>5 DEF OrderlyInv, TurnInv, SchedulerInv, LeaderInv, BarrierInv, OwnerInv,
       RoundInv, SleepInv
  <2> QED BY <2>1, <2>2, <2>5, <2>6 DEF FutexInv
<1>2. ASSUME NEW t \in Member, ThreadBody(t)
      PROVE  FutexInv'
  BY <1>2, ReadOwnerStep, ScanLeaderStep, ReadRoundStep, ExecuteStep, ArriveStep, LeaveSpinStep,
     PickSteps, PublishStep, StoreRoundStep, WakeStep, WaitSteps DEF ThreadBody
<1> QED BY <1>1, <1>2 DEF Next

\* The inductive invariant: the types and the membership in every run, and the
\* phases of a round in those that have hit no window.
THEOREM FutexInvariant == Spec => []FutexInv
BY InitFutexInv, NextFutexInv, PTL DEF Spec
-----------------------------------------------------------------------------
\* TypeOK: in every run the fields and the locals stay in their ranges, and owner
\* at or above minus the size the group started with.
THEOREM FutexTypeCorrect == Spec => []TypeOK
<1>1. FutexInv => TypeOK
  BY DEF FutexInv
<1> QED BY <1>1, FutexInvariant, PTL

\* OneSchedulerWhileOrderly: before a window is hit one thread at a time picks and
\* announces the next turn, in a group of any size.
THEOREM OneSchedulerAtATime == Spec => []OneSchedulerWhileOrderly
<1>1. ASSUME FutexInv, orderly
      PROVE  OneScheduler
  <2>1. \A t, u \in Scheduling : t = u
    BY <1>1 DEF FutexInv, OrderlyInv, SchedulerInv
  <2>2. CASE Scheduling = {}
    BY <2>2, FS_EmptySet DEF OneScheduler
  <2>3. CASE Scheduling # {}
    <3>1. PICK t \in Scheduling : Scheduling = {t}
      BY <2>1, <2>3
    <3>2. Cardinality({t}) = 1
      BY FS_Singleton
    <3> QED BY <3>1, <3>2 DEF OneScheduler
  <2> QED BY <2>2, <2>3
<1>2. FutexInv => OneSchedulerWhileOrderly
  BY <1>1 DEF OneSchedulerWhileOrderly
<1> QED BY <1>2, FutexInvariant, PTL

\* TurnsDoNotOverlap: before a window is hit, threads that execute together were
\* scheduled together, in the same round.
THEOREM TurnsStayApart == Spec => []TurnsDoNotOverlap
<1>1. ASSUME FutexInv, orderly, NEW t \in Executing, NEW u \in Executing, t # u
      PROVE  seen[t] < 0 /\ seen[u] < 0 /\ oldRound[t] = oldRound[u]
  <2>1. TurnOf(t) /\ TurnOf(u) /\ pc[t] = "execute" /\ pc[u] = "execute"
    BY <1>1 DEF FutexInv, OrderlyInv, TurnInv, Executing
  <2>2. t > 0 /\ u > 0 /\ t \in Nat /\ u \in Nat
    BY MemberFacts DEF Executing
  <2> QED BY <1>1, <2>1, <2>2 DEF TurnOf, Taking
<1>2. FutexInv => TurnsDoNotOverlap
  BY <1>1 DEF TurnsDoNotOverlap
<1> QED BY <1>2, FutexInvariant, PTL

\* OwnerCountsTheAwaited: a negative owner is exactly the number of threads the
\* execution barrier of this round still waits for.
THEOREM BarrierCounts == Spec => []OwnerCountsTheAwaited
<1>1. FutexInv => OwnerCountsTheAwaited
  BY DEF FutexInv, OrderlyInv, OwnerInv, OwnerCountsTheAwaited
<1> QED BY <1>1, FutexInvariant, PTL

\* NoLostWakeup: a thread that sleeps on a round or an owner that has changed
\* is about to be woken by the thread that changed it.
THEOREM WakeupsArrive == Spec => []NoLostWakeup
<1>1. FutexInv => NoLostWakeup
  BY DEF FutexInv, OrderlyInv, SleepInv, SleepOf, Announcing, NoLostWakeup
<1> QED BY <1>1, FutexInvariant, PTL

\* SomebodyRuns: before a window is hit some thread of the group can take a step,
\* until all have returned.  This is what a deadlock would violate.
THEOREM NoDeadlockWhileOrderly == Spec => []SomebodyRuns
<1>1. ASSUME FutexInv, orderly, \A t \in Member : ~ Runnable(t)
      PROVE  Finished
  <2>1. TypeOK /\ BaseInv /\ OrderlyInv
    BY <1>1 DEF FutexInv
  <2>2. /\ owner \in Int /\ round \in Nat /\ threads \subseteq Member
        /\ Member \subseteq Nat \ {0}
    BY <2>1, MemberFacts DEF TypeOK
  <2>3. \A t \in Member :
          \/ pc[t] \in {"sleepRound", "sleepOwner", "exit"}
          \/ pc[t] = "spin" /\ owner # 0 /\ round = oldRound[t]
          \/ pc[t] = "walk" /\ threads = {}
    BY <1>1 DEF Runnable
  <2>4. Scheduling = {}
    BY <2>1, <2>3 DEF Scheduling, OrderlyInv, SchedulerInv, ScheduleOf
  <2>5. \A t \in Member : pc[t] # "walk"
    BY <2>4 DEF Scheduling
  <2>6. \A t \in Member : /\ pc[t] = "sleepRound" => oldRound[t] = round
                          /\ pc[t] = "sleepOwner" => owner = seen[t] /\ seen[t] > 0 /\ owner # t
    BY <2>1, <2>3 DEF OrderlyInv, SleepInv, SleepOf, Announcing
  <2>7. \A t \in Member : pc[t] \in {"spin", "sleepRound"} => Waits(t)
    BY <2>3, <2>6 DEF Waits, Waiting
  <2>8. \A t \in Member : Waits(t) => owner <= 0 /\ (pc[t] = "sleepRound" => owner >= 0)
    BY <2>1, <2>4 DEF OrderlyInv, RoundInv, RoundOf
  <2>9. ~ (owner > 0)
    <3> SUFFICES ASSUME owner > 0 PROVE FALSE
      OBVIOUS
    <3>1. owner \in threads
      BY <2>1, <2>4 DEF OrderlyInv, OwnerInv
    <3>2. pc[owner] \in {"spin", "sleepRound", "sleepOwner"} /\ owner \in Member
      BY <2>1, <2>2, <2>3, <2>5, <3>1 DEF BaseInv
    <3> QED BY <2>2, <2>6, <2>7, <2>8, <3>2
  <2>10. ~ (owner < 0)
    <3> SUFFICES ASSUME owner < 0 PROVE FALSE
      OBVIOUS
    <3>1. PICK t \in Awaited : TRUE
      BY <2>1, <2>2, <2>4, FS_EmptySet DEF OrderlyInv, OwnerInv
    <3>2. t \in threads /\ pc[t] \in {"sleepRound", "sleepOwner"}
      BY <2>1, <2>3, <2>5, <3>1 DEF Awaited, BaseInv
    <3> QED BY <2>2, <2>6, <2>7, <2>8, <3>2
  <2>11. owner = 0
    BY <2>2, <2>9, <2>10
  <2>12. \A t \in Member : ~ Waits(t)
    <3>1. \A t \in Member : ~ Leading(t)
      BY <2>3, <2>5, <2>11 DEF Leading
    <3> QED BY <2>1, <2>4, <2>11, <3>1 DEF OrderlyInv, BarrierInv
  <2> QED BY <2>3, <2>5, <2>6, <2>7, <2>11, <2>12 DEF Finished
<1>2. FutexInv => SomebodyRuns
  BY <1>1 DEF SomebodyRuns
<1> QED BY <1>2, FutexInvariant, PTL
=============================================================================
