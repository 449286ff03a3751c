--------------------------- MODULE RaceyMixProofs ---------------------------
(***************************************************************************)
(* Facts about the arithmetic, for every word, pair of primes and number   *)
(* of elements that MixAssumption allows, and about how far main() has     *)
(* come, for every number of threads.                                      *)
(***************************************************************************)
EXTENDS RaceyMain, WellFoundedInduction, TLAPS

\* A remainder lies below its divisor.
LEMMA ModRange ==
  ASSUME NEW a \in Nat, NEW b \in Nat \ {0}
  PROVE  /\ a % b \in 0 .. b - 1
         /\ a % b \in Nat
  OBVIOUS

\* What mix() returns is below PRIME1 whatever its arguments, wrapped or not.
LEMMA MixRange ==
  ASSUME NEW i \in Nat, NEW j \in Nat
  PROVE  Mix(i, j) \in Mixed
<1> DEFINE sum == i + j * Prime2
<1>1. sum \in Nat
  BY MixAssumption
<1>2. sum % Word \in Nat
  <2> HIDE DEF sum
  <2> QED BY <1>1, ModRange, MixAssumption
<1>3. (sum % Word) % Prime1 \in 0 .. Prime1 - 1
  <2> DEFINE w == sum % Word
  <2> HIDE DEF w
  <2> QED BY <1>2, ModRange, MixAssumption DEF w
<1> QED
  BY <1>3 DEF Mix, Mixed

\* num % MAX_ELEM is an index of m[].
LEMMA IndexRange ==
  ASSUME NEW n \in Nat
  PROVE  IndexOf(n) \in Elem
  BY ModRange, MixAssumption DEF IndexOf, Elem

\* A mixed number can be stored in sig[] as it is.
LEMMA MixedIsUnsigned == Mixed \subseteq Unsigned
  BY MixAssumption DEF Mixed, Unsigned

\* The initial array holds mixed numbers.
LEMMA InitialMRange == InitialM \in [Elem -> Mixed]
  BY MixRange, MixAssumption DEF InitialM, Elem
-----------------------------------------------------------------------------
\* Induction without an operator as a parameter: a set takes its place.
LEMMA LeastNumber ==
  ASSUME NEW T, T \subseteq Nat, T # {}
  PROVE  \E n \in T : \A k \in T : n <= k
<1> DEFINE R == OpToRel(<, Nat)
<1>1. IsWellFoundedOn(R, Nat)
  BY NatLessThanWellFounded, Zenon
<1> HIDE DEF R
<1>2. PICK n \in T : \A k \in T : <<k, n>> \notin R
  BY <1>1, WFMin
<1>3. \A k \in T : ~(k < n)
  BY <1>2 DEF R, OpToRel
<1> QED
  BY <1>2, <1>3

\* A set with 0 that has the successor of each of its numbers has every number.
LEMMA SetInduction ==
  ASSUME NEW S, 0 \in S, \A n \in Nat : n \in S => n + 1 \in S
  PROVE  Nat \subseteq S
<1> SUFFICES ASSUME Nat \ S # {} PROVE FALSE
  OBVIOUS
<1>1. PICK n \in Nat \ S : \A k \in Nat \ S : n <= k
  BY LeastNumber
<1>2. n # 0 /\ n - 1 \in Nat
  BY <1>1
<1>3. n - 1 \in S
  BY <1>1, <1>2
<1> QED
  BY <1>1, <1>2, <1>3

\* The function that folds sig[] up to sig[n].
Folds(n, values, f) ==
  f = [k \in 0 .. n |-> IF k = 0 THEN values[0] ELSE Mix(values[k], f[k - 1])]

\* Such a function exists: one up to k is extended to k + 1.
LEMMA FoldExists ==
  ASSUME NEW values, NEW n \in Nat
  PROVE  \E f : Folds(n, values, f)
<1> DEFINE S == {k \in Nat : \E f : Folds(k, values, f)}
<1>1. 0 \in S
  <2>1. Folds(0, values, [k \in 0 .. 0 |-> values[0]])
    BY DEF Folds
  <2> QED
    BY <2>1
<1>2. ASSUME NEW k \in Nat, k \in S
      PROVE  k + 1 \in S
  <2>1. PICK f : Folds(k, values, f)
    BY <1>2
  <2> DEFINE g == [j \in 0 .. k + 1 |-> IF j = k + 1 THEN Mix(values[j], f[k]) ELSE f[j]]
  <2>2. Folds(k + 1, values, g)
    BY <2>1 DEF Folds
  <2> QED
    BY <2>2
<1> HIDE DEF S
<1>3. n \in S
  BY <1>1, <1>2, SetInduction
<1> QED
  BY <1>3 DEF S

\* The signature is the last value of such a function.
LEMMA SignatureIsFold ==
  ASSUME NEW values, NEW n \in Nat \ {0}
  PROVE  \E f : Folds(n - 1, values, f) /\ Signature(values, n) = f[n - 1]
<1> DEFINE fold == CHOOSE f : Folds(n - 1, values, f)
<1>1. n - 1 \in Nat
  OBVIOUS
<1>2. Folds(n - 1, values, fold)
  BY <1>1, FoldExists
<1>3. Signature(values, n) = fold[n - 1]
  BY DEF Signature, Folds
<1> QED
  BY <1>2, <1>3

\* mix_sig fits in the int that holds it: the signature of two or more threads is a
\* mixed number, whatever their values (racey-basic.c:166-171).
THEOREM SignatureRange ==
  ASSUME NEW n \in Nat, n > 1, NEW values \in [0 .. n -> Unsigned]
  PROVE  Signature(values, n) \in Mixed
<1>1. PICK f : Folds(n - 1, values, f) /\ Signature(values, n) = f[n - 1]
  BY SignatureIsFold
<1> DEFINE S == {k \in Nat : k <= n - 1 => f[k] \in Unsigned /\ (k > 0 => f[k] \in Mixed)}
<1>2. 0 \in S
  BY <1>1 DEF Folds
<1>3. ASSUME NEW k \in Nat, k \in S
      PROVE  k + 1 \in S
  <2> SUFFICES ASSUME k + 1 <= n - 1 PROVE f[k + 1] \in Unsigned /\ f[k + 1] \in Mixed
    OBVIOUS
  <2>1. f[k] \in Nat /\ values[k + 1] \in Nat
    BY <1>3, MixAssumption DEF Unsigned
  <2>2. f[k + 1] = Mix(values[k + 1], f[k])
    BY <1>1 DEF Folds
  <2>3. f[k + 1] \in Mixed
    BY <2>1, <2>2, MixRange
  <2> QED
    BY <2>3, MixedIsUnsigned
<1>4. n - 1 \in Nat /\ n - 1 > 0
  OBVIOUS
<1> HIDE DEF S
<1>5. n - 1 \in S
  BY <1>2, <1>3, <1>4, SetInduction
<1> QED
  BY <1>1, <1>4, <1>5 DEF S

\* The loop of racey-basic.c:168-169 stops one thread early: whatever the last
\* thread leaves in sig[n], the signature is the same.
THEOREM LastThreadNeverCounts ==
  ASSUME NEW n \in Nat \ {0}, NEW values, NEW other,
         \A k \in 0 .. n - 1 : values[k] = other[k]
  PROVE  Signature(values, n) = Signature(other, n)
<1>1. PICK f : Folds(n - 1, values, f) /\ Signature(values, n) = f[n - 1]
  BY SignatureIsFold
<1>2. PICK g : Folds(n - 1, other, g) /\ Signature(other, n) = g[n - 1]
  BY SignatureIsFold
<1> DEFINE S == {k \in Nat : k <= n - 1 => f[k] = g[k]}
<1>3. 0 \in S
  BY <1>1, <1>2 DEF Folds
<1>4. ASSUME NEW k \in Nat, k \in S
      PROVE  k + 1 \in S
  <2> SUFFICES ASSUME k + 1 <= n - 1 PROVE f[k + 1] = g[k + 1]
    OBVIOUS
  <2>1. f[k] = g[k] /\ values[k + 1] = other[k + 1]
    BY <1>4
  <2>2. f[k + 1] = Mix(values[k + 1], f[k])
    BY <1>1 DEF Folds
  <2>3. g[k + 1] = Mix(other[k + 1], g[k])
    BY <1>2 DEF Folds
  <2> QED
    BY <2>1, <2>2, <2>3
<1> HIDE DEF S
<1>5. n - 1 \in S
  BY <1>3, <1>4, SetInduction
<1> QED
  BY <1>1, <1>2, <1>5 DEF S
-----------------------------------------------------------------------------
\* main() is at a step that it can take: only a join has to wait.
MainRuns ==
  \/ mainPc \in {"create", "result"}
  \/ mainPc = "join" /\ pc[mainI + 1] = "exit"

\* How far main() has come: the steps it has made.
MainRank ==
  CASE mainPc = "create" -> mainI
    [] mainPc = "join"   -> NumProcs + mainI
    [] mainPc = "result" -> 2 * NumProcs
    [] OTHER             -> 2 * NumProcs + 1

LEMMA MainRankRange ==
  ASSUME mainI \in 0 .. NumProcs
  PROVE  MainRank \in 0 .. 2 * NumProcs + 1
BY MainAssumption DEF MainRank

\* main() never goes back.
LEMMA MainAdvances ==
  ASSUME MainInv, mainI \in 0 .. NumProcs,
         CreateThread \/ JoinThread \/ (mainPc = "result" /\ mainPc' = "done")
  PROVE  MainRank' > MainRank
<1>1. CASE CreateThread
  <2>1. CASE mainI + 1 < NumProcs
    BY <1>1, <2>1, MainAssumption DEF CreateThread, MainRank
  <2>2. CASE ~(mainI + 1 < NumProcs)
    BY <1>1, <2>2, MainAssumption DEF CreateThread, MainRank, MainInv
  <2> QED BY <2>1, <2>2
<1>2. CASE JoinThread
  <2>1. CASE mainI + 1 < NumProcs
    BY <1>2, <2>1, MainAssumption DEF JoinThread, MainRank
  <2>2. CASE ~(mainI + 1 < NumProcs)
    BY <1>2, <2>2, MainAssumption DEF JoinThread, MainRank, MainInv
  <2> QED BY <2>1, <2>2
<1>3. CASE mainPc = "result" /\ mainPc' = "done"
  BY <1>3, MainAssumption DEF MainRank
<1> QED BY <1>1, <1>2, <1>3

\* A main() that can take no step, and is not done, waits for a thread.
LEMMA MainWaits ==
  ASSUME MainTypeOK, MainInv, ~MainRuns, mainPc # "done"
  PROVE  /\ \A t \in Thread : pc[t] # "idle"
         /\ \E t \in Thread : pc[t] # "exit"
<1>1. mainPc = "join" /\ pc[mainI + 1] # "exit"
  BY DEF MainRuns, MainTypeOK
<1>2. mainI + 1 \in Thread
  BY <1>1, MainAssumption DEF MainInv, MainTypeOK, Thread
<1> QED BY <1>1, <1>2 DEF MainInv
=============================================================================
