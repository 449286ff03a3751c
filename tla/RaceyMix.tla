------------------------------ MODULE RaceyMix ------------------------------
(***************************************************************************)
(* The arithmetic every racey program is built from: the mix function, the *)
(* element index derived from a mixed number, the initial content of the   *)
(* shared array m[], and the signature folded from the threads' private    *)
(* values when the run is over.                                            *)
(*                                                                         *)
(* The C code computes in 32-bit unsigned arithmetic.  Here the word and   *)
(* the two primes are parameters, so that the checker can explore a word   *)
(* small enough for every interleaving, and the lemmas of RaceyMixProofs   *)
(* hold for the real constants too.                                        *)
(***************************************************************************)
EXTENDS Integers

CONSTANTS
  Word,      \* 2^32: unsigned arithmetic wraps modulo Word
  Prime1,    \* PRIME1
  Prime2,    \* PRIME2
  MaxElem    \* MAX_ELEM: the number of elements of m[]

\* Prime1 fits in the positive half of an int, which is what lets the code
\* keep a mixed number in "int value" and "int mix_sig".
ASSUME MixAssumption ==
  /\ Word \in Nat \ {0}
  /\ Prime1 \in Nat \ {0}
  /\ Prime2 \in Nat \ {0}
  /\ MaxElem \in Nat \ {0}
  /\ 2 * Prime1 <= Word

Elem == 0 .. MaxElem - 1       \* indices of m[]
Unsigned == 0 .. Word - 1      \* values of an unsigned
Mixed == 0 .. Prime1 - 1       \* values mix() can return

\* unsigned mix(unsigned i, unsigned j): the product and the sum wrap at the
\* word, the remainder is taken of the wrapped sum.
Mix(i, j) == ((i + j * Prime2) % Word) % Prime1

\* num % MAX_ELEM
IndexOf(num) == num % MaxElem

\* m[i].value = mix(i,i)
InitialM == [e \in Elem |-> Mix(e, e)]

\* mix_sig = sig[0]; for (i = 1; i < n; i++) mix_sig = mix(sig[i], mix_sig).
\* The loop stops before n: sig[n], the last thread's value, is not folded.
Signature(sig, n) ==
  LET fold[k \in 0 .. n - 1] ==
        IF k = 0 THEN sig[0] ELSE Mix(sig[k], fold[k - 1])
  IN  fold[n - 1]
=============================================================================
