----------------------- MODULE RaceyFutexGroupsProofs -----------------------
(***************************************************************************)
(* Proofs about the set-up of racey-futex.c for every number of groups and *)
(* of threads.                                                             *)
(***************************************************************************)
EXTENDS RaceyFutexGroups, TLAPS, FiniteSetTheorems

\* The groups that the loop over groups[] has filled in so far.
Dealt == IF mainPc = "groups" THEN 0 .. i - 1 ELSE Group

Shapes ==
  /\ NumProcs \in 1 .. MaxProcs
  /\ begin \in [Group -> Int] /\ end \in [Group -> Int] /\ owner \in [Group -> Int]
  /\ threads \in [Group -> SUBSET Int]
  /\ mainPc \in {"groups", "create", "created", "aborted"}
  /\ i \in Int
  /\ mainPc = "groups" => i \in Group
  /\ k \in 1 .. NumProcs + 1
  /\ pc \in [Thread -> {"idle", "search", "barrier", "loop"}]
  /\ g \in [Thread -> Group]

\* A group that has been dealt has a range of its own, which ends where the later
\* ones begin, and one that has not has nothing.
DealtInv ==
  /\ \A j \in Dealt :
       /\ 1 <= begin[j] /\ begin[j] <= end[j] /\ end[j] <= k
       /\ threads[j] = begin[j] .. end[j] - 1
       /\ owner[j] = begin[j] - end[j]
  /\ \A j, l \in Dealt : j < l => end[j] <= begin[l]

\* Nobody looks for a group before all are dealt, and who has found one is in it.
FoundInv ==
  /\ mainPc = "groups" => \A t \in Thread : pc[t] = "idle"
  /\ \A t \in Thread : pc[t] \in {"barrier", "loop"} => t \in threads[g[t]]

\* The loop that creates the threads stops at NumProcs.
CreateInv == mainPc = "create" => i < NumProcs

GroupsInv == Shapes /\ TypeOK /\ DealtInv /\ FoundInv /\ CreateInv
-----------------------------------------------------------------------------
\* The next group ends at or after its begin, and not beyond the last thread.
LEMMA NextKRange ==
  ASSUME Shapes
  PROVE  NextK \in k .. NumProcs + 1
<1>1. NumProcs \in Nat /\ k \in Nat /\ k <= NumProcs + 1
  BY GroupsAssumption DEF Shapes
<1>2. NumProcs \div NFUTEX \in Nat
  BY <1>1, GroupsAssumption
<1> DEFINE q == NumProcs \div NFUTEX
<1> HIDE DEF q
<1>3. NextK = Capped(IF NumProcs < NFUTEX THEN k + NumProcs ELSE k + q)
  BY DEF NextK, q
<1> QED
  BY <1>1, <1>2, <1>3 DEF Capped, q

\* A range has as many threads as its bounds say.
LEMMA RangeSize ==
  ASSUME NEW a \in Int, NEW b \in Int, a <= b
  PROVE  Cardinality(a .. b - 1) = b - a
<1>1. CASE a = b
  <2>1. a .. b - 1 = {}
    BY <1>1
  <2> QED BY <1>1, <2>1, FS_EmptySet
<1>2. CASE a < b
  <2>1. a <= b - 1 /\ b - 1 \in Int
    BY <1>2
  <2>2. Cardinality(a .. b - 1) = IF a > b - 1 THEN 0 ELSE (b - 1) - a + 1
    BY <2>1, FS_Interval
  <2> QED BY <2>1, <2>2
<1> QED BY <1>1, <1>2

LEMMA InvImpliesPartition == GroupsInv => GroupsPartitionTheThreads
<1> SUFFICES ASSUME GroupsInv, InLoop PROVE GroupsPartitionTheThreads
  BY DEF GroupsPartitionTheThreads
<1> USE DEF GroupsInv
<1>1. mainPc # "groups" /\ Dealt = Group
  <2>1. 1 \in Thread
    BY DEF Thread, Shapes
  <2>2. pc[1] = "loop"
    BY <2>1 DEF InLoop
  <2>3. mainPc # "groups"
    BY <2>1, <2>2 DEF FoundInv
  <2> QED BY <2>3 DEF Dealt
<1>2. \A t \in Thread : g[t] \in Group /\ t \in threads[g[t]]
  BY DEF InLoop, FoundInv, Shapes
<1>3. \A j \in Group :
        /\ 1 <= begin[j] /\ begin[j] <= end[j] /\ end[j] <= NumProcs + 1
        /\ threads[j] = begin[j] .. end[j] - 1
        /\ owner[j] = begin[j] - end[j]
        /\ begin[j] \in Int /\ end[j] \in Int
  BY <1>1 DEF DealtInv, Shapes
<1>4. NumProcs \in Nat /\ NumProcs <= MaxProcs /\ MaxProcs \in Nat
  BY GroupsAssumption DEF Shapes
<1>5. \A j \in Group : threads[j] \subseteq Thread
  BY <1>3, <1>4 DEF Thread
<1>6. Thread = UNION {threads[j] : j \in Group}
  BY <1>2, <1>5
<1>7. ASSUME NEW j \in Group, NEW l \in Group, j # l
      PROVE  threads[j] \cap threads[l] = {}
  <2>1. j < l \/ l < j
    BY <1>7, GroupsAssumption DEF Group
  <2>2. CASE j < l
    BY <1>1, <1>3, <2>2 DEF DealtInv
  <2>3. CASE l < j
    BY <1>1, <1>3, <2>3 DEF DealtInv
  <2> QED BY <2>1, <2>2, <2>3
<1>8. ASSUME NEW t \in Thread
      PROVE  LET j == g[t] IN
             /\ 0 < begin[j] /\ begin[j] < end[j] /\ end[j] <= MaxProcs + 1
             /\ threads[j] = begin[j] .. end[j] - 1
             /\ owner[j] = -Cardinality(threads[j])
  <2> DEFINE j == g[t]
  <2>1. j \in Group /\ t \in threads[j]
    BY <1>2
  <2> HIDE DEF j
  <2>2. Cardinality(begin[j] .. end[j] - 1) = end[j] - begin[j]
    BY <1>3, <2>1, RangeSize
  <2> QED
    BY <1>3, <1>4, <2>1, <2>2 DEF j
<1> QED
  BY <1>2, <1>6, <1>7, <1>8 DEF GroupsPartitionTheThreads

LEMMA InitGroupsInv == Init => GroupsInv
<1> SUFFICES ASSUME Init PROVE GroupsInv
  OBVIOUS
<1>1. Shapes
  BY GroupsAssumption DEF Init, Shapes, Group
<1>2. DealtInv /\ FoundInv /\ CreateInv
  BY DEF Init, DealtInv, FoundInv, Dealt, CreateInv
<1>3. TypeOK
  BY GroupsAssumption DEF Init, TypeOK, Group, Slot
<1> QED BY <1>1, <1>2, <1>3 DEF GroupsInv

\* No thread is in two groups.
LEMMA Disjoint ==
  ASSUME Shapes, DealtInv, NEW j \in Dealt, NEW l \in Dealt, NEW t,
         t \in threads[j], t \in threads[l]
  PROVE  j = l
<1>1. Dealt \subseteq Int /\ Dealt \subseteq Group
  BY GroupsAssumption DEF Shapes, Dealt, Group
<1>2. ASSUME NEW a \in Dealt, NEW b \in Dealt, a < b, t \in threads[a], t \in threads[b]
      PROVE  FALSE
  <2>1. /\ t \in begin[a] .. end[a] - 1 /\ t \in begin[b] .. end[b] - 1
        /\ end[a] <= begin[b]
    BY <1>2 DEF DealtInv
  <2>2. begin[a] \in Int /\ end[a] \in Int /\ begin[b] \in Int /\ end[b] \in Int
    BY <1>1 DEF Shapes
  <2> QED BY <2>1, <2>2
<1> QED
  BY <1>1, <1>2

\* One more group is dealt: it begins where the one before it has ended.
LEMMA InitGroupStep ==
  ASSUME GroupsInv, InitGroup
  PROVE  GroupsInv'
<1> USE DEF GroupsInv
<1>1. /\ mainPc = "groups" /\ i \in Group /\ k \in 1 .. NumProcs + 1
      /\ begin' = [begin EXCEPT ![i] = k]
      /\ threads' = [threads EXCEPT ![i] = k .. NextK - 1]
      /\ end' = [end EXCEPT ![i] = NextK]
      /\ owner' = [owner EXCEPT ![i] = k - NextK]
      /\ k' = NextK
      /\ UNCHANGED <<NumProcs, pc, g>>
  BY DEF InitGroup, Shapes
<1>2. NextK \in k .. NumProcs + 1 /\ NumProcs \in Nat
  BY NextKRange, GroupsAssumption DEF Shapes
<1>3. \/ mainPc' = "groups" /\ i' = i + 1 /\ i' \in Group
      \/ mainPc' = "create" /\ i' = 0 /\ i + 1 = NFUTEX
  BY <1>1, GroupsAssumption DEF InitGroup, Group
<1>4. Dealt = 0 .. i - 1 /\ Dealt' = Dealt \cup {i} /\ i \notin Dealt /\ i \in Int
  BY <1>1, <1>3, GroupsAssumption DEF Dealt, Group
<1>5. /\ \A j \in Dealt : begin'[j] = begin[j] /\ end'[j] = end[j]
                          /\ threads'[j] = threads[j] /\ owner'[j] = owner[j] /\ j \in Group
      /\ begin'[i] = k /\ end'[i] = NextK
      /\ threads'[i] = k .. NextK - 1 /\ owner'[i] = k - NextK
  <2>1. \A j \in Dealt : j \in Group /\ j # i
    BY <1>1, <1>4, GroupsAssumption DEF Group
  <2>2. /\ DOMAIN begin = Group /\ DOMAIN end = Group
        /\ DOMAIN threads = Group /\ DOMAIN owner = Group
    BY DEF Shapes
  <2> QED
    BY <1>1, <2>1, <2>2
<1>6. Shapes'
  <2>1. /\ begin' \in [Group -> Int] /\ end' \in [Group -> Int] /\ owner' \in [Group -> Int]
    BY <1>1, <1>2 DEF Shapes
  <2>2. threads' \in [Group -> SUBSET Int]
    BY <1>1, <1>2 DEF Shapes
  <2>3. Thread' = Thread
    BY <1>1 DEF Thread
  <2>4. /\ mainPc' \in {"groups", "create", "created", "aborted"} /\ i' \in Int
        /\ mainPc' = "groups" => i' \in Group
    BY <1>3, <1>4
  <2>5. k' \in 1 .. NumProcs' + 1 /\ NumProcs' \in 1 .. MaxProcs
    <3>1. NumProcs \in 1 .. MaxProcs /\ NumProcs' = NumProcs /\ k' = NextK
      BY <1>1 DEF Shapes
    <3>2. k \in 1 .. NumProcs + 1
      BY DEF Shapes
    <3> QED
      BY <1>2, <3>1, <3>2
  <2>6. /\ pc' \in [Thread' -> {"idle", "search", "barrier", "loop"}]
        /\ g' \in [Thread' -> Group]
    BY <1>1, <2>3 DEF Shapes
  <2> QED
    BY <2>1, <2>2, <2>4, <2>5, <2>6 DEF Shapes
<1>7. DealtInv'
  <2>1. ASSUME NEW j \in Dealt'
        PROVE  /\ 1 <= begin'[j] /\ begin'[j] <= end'[j] /\ end'[j] <= NextK
               /\ threads'[j] = begin'[j] .. end'[j] - 1
               /\ owner'[j] = begin'[j] - end'[j]
    <3>1. CASE j = i
      BY <1>1, <1>2, <1>5, <3>1
    <3>2. CASE j # i
      <4>1. j \in Dealt /\ begin[j] \in Int /\ end[j] \in Int
        BY <1>4, <1>5, <3>2 DEF Shapes
      <4> QED
        BY <1>1, <1>2, <1>5, <4>1 DEF DealtInv
    <3> QED BY <3>1, <3>2
  <2>2. ASSUME NEW j \in Dealt', NEW l \in Dealt', j < l
        PROVE  end'[j] <= begin'[l]
    <3>1. j \in Dealt
      BY <1>4, <2>2
    <3>2. CASE l = i
      BY <1>5, <3>1, <3>2 DEF DealtInv
    <3>3. CASE l # i
      BY <1>4, <1>5, <2>2, <3>1, <3>3 DEF DealtInv
    <3> QED BY <3>2, <3>3
  <2> QED BY <1>1, <2>1, <2>2 DEF DealtInv
<1>8. FoundInv'
  <2>1. Thread' = Thread
    BY <1>1 DEF Thread
  <2> QED
    BY <1>1, <2>1 DEF FoundInv
<1>9. TypeOK' /\ CreateInv'
  <2>1. Thread' = Thread /\ NumProcs \in 1 .. MaxProcs /\ MaxProcs \in Nat
    BY <1>1, GroupsAssumption DEF Thread, Shapes
  <2>2. /\ k \in 0 .. MaxProcs + 1 /\ NextK \in 1 .. MaxProcs + 1
        /\ k - NextK \in -MaxProcs .. 0 /\ k .. NextK - 1 \subseteq Slot
    BY <1>1, <1>2, <2>1 DEF Slot
  <2>3. /\ begin' \in [Group -> 0 .. MaxProcs + 1]
        /\ end' \in [Group -> 0 .. MaxProcs + 1]
        /\ owner' \in [Group -> -MaxProcs .. 0]
        /\ threads' \in [Group -> SUBSET Slot]
    BY <1>1, <2>2 DEF TypeOK
  <2>4. i' \in 0 .. NFUTEX + MaxProcs /\ CreateInv'
    BY <1>1, <1>3, <2>1, GroupsAssumption DEF Group, CreateInv
  <2> QED
    BY <1>1, <1>3, <2>1, <2>2, <2>3, <2>4 DEF TypeOK
<1> QED BY <1>6, <1>7, <1>8, <1>9

\* From then on the groups stay, and a thread settles on one it is in.
LEMMA LaterStep ==
  ASSUME GroupsInv, CreateThread \/ PassBarrier \/ \E t \in Thread : FindGroup(t)
  PROVE  GroupsInv'
<1> USE DEF GroupsInv
<1>1. mainPc # "groups" /\ mainPc' # "groups" /\ UNCHANGED <<NumProcs, begin, end, owner, threads, k>>
  <2>1. CASE CreateThread
    BY <2>1 DEF CreateThread, groupVars
  <2>2. CASE PassBarrier
    <3>1. 1 \in Thread
      BY DEF Thread, Shapes
    <3>2. pc[1] = "barrier"
      BY <2>2, <3>1 DEF PassBarrier
    <3>3. mainPc # "groups"
      BY <3>1, <3>2 DEF FoundInv
    <3> QED BY <2>2, <3>3 DEF PassBarrier, groupVars
  <2>3. ASSUME NEW t \in Thread, FindGroup(t)
        PROVE  <1>1!:
    <3>1. pc[t] = "search" /\ mainPc' \in {mainPc, "aborted"}
      BY <2>3 DEF FindGroup
    <3>2. mainPc # "groups"
      BY <3>1 DEF FoundInv
    <3> QED BY <2>3, <3>1, <3>2 DEF FindGroup, groupVars
  <2> QED BY <2>1, <2>2, <2>3
<1>2. Thread' = Thread /\ Dealt' = Dealt
  BY <1>1 DEF Thread, Dealt
<1>3. DealtInv'
  BY <1>1, <1>2 DEF DealtInv
<1>4. Shapes' /\ FoundInv'
  <2>1. CASE CreateThread
    <3>1. /\ pc' = [pc EXCEPT ![i + 1] = "search"] /\ i' = i + 1 /\ UNCHANGED g
          /\ mainPc' \in {"create", "created"}
      BY <2>1 DEF CreateThread
    <3>2. Shapes'
      <4>1. pc' \in [Thread -> {"idle", "search", "barrier", "loop"}]
        BY <3>1 DEF Shapes
      <4>2. i' \in Int /\ mainPc' # "groups"
        BY <3>1 DEF Shapes
      <4> QED
        BY <1>1, <1>2, <3>1, <4>1, <4>2 DEF Shapes
    <3>3. FoundInv'
      BY <1>1, <1>2, <3>1 DEF Shapes, FoundInv
    <3> QED BY <3>2, <3>3
  <2>2. CASE PassBarrier
    BY <1>1, <1>2, <2>2 DEF PassBarrier, Shapes, FoundInv
  <2>3. ASSUME NEW t \in Thread, FindGroup(t)
        PROVE  Shapes' /\ FoundInv'
    <3> DEFINE having == {j \in Group : t \in threads[j]}
               first(j) == \A l \in having : j <= l
    <3>1. pc[t] = "search" /\ mainPc' \in {mainPc, "aborted"} /\ UNCHANGED i
      BY <2>3 DEF FindGroup
    <3>2. CASE having # {}
      <4>1. g' = [g EXCEPT ![t] = CHOOSE j \in having : first(j)] /\ pc' = [pc EXCEPT ![t] = "barrier"]
        BY <2>3, <3>2 DEF FindGroup
      <4>2. \E j \in having : first(j)
        <5>1. PICK j \in Group : t \in threads[j]
          BY <3>2
        <5>2. ASSUME NEW l \in Group, t \in threads[l]
              PROVE  l = j
          BY <1>1, <5>1, <5>2, Disjoint DEF Dealt
        <5>3. j <= j
          BY GroupsAssumption DEF Group
        <5> QED BY <5>1, <5>2, <5>3
      <4>3. (CHOOSE j \in having : first(j)) \in having
        BY <4>2
      <4> DEFINE chosen == CHOOSE j \in having : first(j)
      <4>4. chosen \in Group /\ t \in threads[chosen]
        BY <4>3
      <4> HIDE DEF chosen
      <4>5. g' = [g EXCEPT ![t] = chosen]
        BY <4>1 DEF chosen
      <4> QED
        BY <1>1, <1>2, <3>1, <4>1, <4>4, <4>5 DEF Shapes, FoundInv
    <3>3. CASE having = {}
      <4>1. g' = [g EXCEPT ![t] = NFUTEX - 1] /\ UNCHANGED pc
        BY <2>3, <3>3 DEF FindGroup
      <4>2. NFUTEX - 1 \in Group
        BY GroupsAssumption DEF Group
      <4> QED
        BY <1>1, <1>2, <3>1, <4>1, <4>2 DEF Shapes, FoundInv
    <3> QED BY <3>2, <3>3
  <2> QED BY <2>1, <2>2, <2>3
<1>5. i' \in 0 .. NFUTEX + MaxProcs /\ CreateInv'
  <2>1. CASE CreateThread
    BY <2>1, GroupsAssumption DEF CreateThread, CreateInv, TypeOK
  <2>2. CASE PassBarrier
    BY <2>2 DEF PassBarrier, CreateInv, TypeOK
  <2>3. ASSUME NEW t \in Thread, FindGroup(t)
        PROVE  <1>5!:
    <3>1. UNCHANGED <<NumProcs, i>> /\ mainPc' \in {mainPc, "aborted"}
      BY <2>3 DEF FindGroup
    <3> QED BY <3>1 DEF CreateInv, TypeOK
  <2> QED BY <2>1, <2>2, <2>3
<1>6. TypeOK'
  BY <1>1, <1>2, <1>4, <1>5 DEF TypeOK, Shapes
<1> QED BY <1>3, <1>4, <1>5, <1>6

\* The inductive invariant.
THEOREM GroupsInvariant == Spec => []GroupsInv
<1>1. ASSUME GroupsInv, UNCHANGED vars
      PROVE  GroupsInv'
  BY <1>1 DEF GroupsInv, Shapes, TypeOK, DealtInv, FoundInv, CreateInv, Dealt, Thread,
     vars, groupVars
<1>2. GroupsInv /\ [Next]_vars => GroupsInv'
  BY <1>1, InitGroupStep, LaterStep DEF Next
<1> QED
  BY <1>2, InitGroupsInv, PTL DEF Spec

\* main()'s locals and the fields of groups[] keep their ranges.
THEOREM GroupsTypeCorrect == Spec => []TypeOK
  BY GroupsInvariant, PTL DEF GroupsInv

\* If the threads get to their main loops at all, racey-futex.c:242-253 has dealt
\* each of them to exactly one group, whatever NumProcs is.
THEOREM GroupsPartition == Spec => []GroupsPartitionTheThreads
  BY GroupsInvariant, InvImpliesPartition, PTL
=============================================================================
