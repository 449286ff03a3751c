--------------------------- MODULE RaceyReadFile ----------------------------
(***************************************************************************)
(* racey-readfile.c.  The threads read one file through one descriptor,    *)
(* and so through one file offset: whoever reads next gets the next chunk. *)
(* Each thread hashes what it gets until the file ends or a read fails.    *)
(* read(2) is atomic with respect to the offset, which the kernel locks.   *)
(***************************************************************************)
EXTENDS RaceyMain, Sequences

CONSTANTS
  BufSize,   \* 256, sizeof buffer
  IntSize,   \* 4, sizeof(*numbers)
  FileLen    \* st_size, 2048 or more

ASSUME ReadFileAssumption ==
  /\ BufSize \in Nat \ {0} /\ IntSize \in Nat \ {0} /\ FileLen \in Nat
  /\ BufSize < Word

VARIABLES
  offset,    \* the file offset of globalfd
  hash,      \* the local num of each thread
  chunks,    \* history: where each thread's reads began, in their order
  failed     \* the threads that a failing read has stopped

readVars == <<offset, hash, chunks, failed>>
readFileVars == <<pc, m, sig, mainVars, readVars>>

\* The number at an offset of the file: its content, any would do.
NumberAt(o) == (o + 1) % Word

\* num = mix(num, r); for each whole number of the chunk: num = mix(num, ...)
HashChunk(num, r, from) ==
  LET h[k \in 0 .. r \div IntSize] ==
        IF k = 0 THEN Mix(num, r) ELSE Mix(h[k - 1], NumberAt(from + (k - 1) * IntSize))
  IN  h[r \div IntSize]

\* What a read at an offset returns.
ChunkLen(o) == IF FileLen - o < BufSize THEN FileLen - o ELSE BufSize

ReadFileTypeOK ==
  /\ pc \in [Thread -> {"idle", "start", "wait", "read", "store", "exit"}]
  /\ MainTypeOK
  /\ offset \in 0 .. FileLen
  /\ hash \in [Thread -> Unsigned]
  /\ chunks \in [Thread -> Seq(0 .. FileLen)]
  /\ failed \subseteq Thread

ReadFileInit ==
  /\ MainInit
  /\ offset = 0
  /\ hash = [t \in Thread |-> 0]
  /\ chunks = [t \in Thread |-> <<>>]
  /\ failed = {}

\* int num = sig[threadId], and the thread comes to the barrier
Arrive(t) ==
  /\ pc[t] = "start"
  /\ hash' = [hash EXCEPT ![t] = sig[t]]
  /\ pc' = [pc EXCEPT ![t] = "wait"]
  /\ UNCHANGED <<m, sig, mainVars, offset, chunks, failed>>

\* pthread_barrier_wait(&barrier)
PassReadBarrier(t) ==
  /\ pc[t] = "wait"
  /\ \A u \in Thread : pc[u] \notin {"idle", "start"}
  /\ pc' = [pc EXCEPT ![t] = "read"]
  /\ UNCHANGED <<m, sig, mainVars, readVars>>

\* Mutant: pread() at the thread's own offset.
ReadOwnOffset(t) ==
  LET o == Len(chunks[t]) * BufSize IN
  /\ pc[t] = "read"
  /\ o < FileLen
  /\ hash' = [hash EXCEPT ![t] = HashChunk(@, ChunkLen(o), o)]
  /\ offset' = IF o + ChunkLen(o) > offset THEN o + ChunkLen(o) ELSE offset
  /\ chunks' = [chunks EXCEPT ![t] = Append(@, o)]
  /\ UNCHANGED <<pc, m, sig, mainVars, failed>>

\* r = read(fd, buffer, sizeof buffer), r > 0, and the mixing of r and the chunk
ReadChunk(t) ==
  /\ pc[t] = "read"
  /\ offset < FileLen
  /\ hash' = [hash EXCEPT ![t] = HashChunk(@, ChunkLen(offset), offset)]
  /\ offset' = offset + ChunkLen(offset)
  /\ chunks' = [chunks EXCEPT ![t] = Append(@, offset)]
  /\ UNCHANGED <<pc, m, sig, mainVars, failed>>

\* Mutant: the loop goes on while r # 0.
RetryFailedRead(t) ==
  /\ pc[t] = "read"
  /\ \/ /\ offset = FileLen
        /\ hash' = [hash EXCEPT ![t] = Mix(@, 0)]
        /\ pc' = [pc EXCEPT ![t] = "store"]
        /\ UNCHANGED failed
     \/ /\ hash' = [hash EXCEPT ![t] = Mix(@, Word - 1)]
        /\ failed' = failed \cup {t}
        /\ UNCHANGED pc
  /\ UNCHANGED <<m, sig, mainVars, offset, chunks>>

\* r = 0, or r = -1 at any time: it is mixed in as well, and the loop is over.
ReadNothing(t) ==
  /\ pc[t] = "read"
  /\ \/ /\ offset = FileLen
        /\ hash' = [hash EXCEPT ![t] = Mix(@, 0)]
        /\ UNCHANGED failed
     \/ /\ hash' = [hash EXCEPT ![t] = Mix(@, Word - 1)]
        /\ failed' = failed \cup {t}
  /\ pc' = [pc EXCEPT ![t] = "store"]
  /\ UNCHANGED <<m, sig, mainVars, offset, chunks>>

\* sig[threadId] = num; return NULL
StoreHash(t) ==
  /\ pc[t] = "store"
  /\ sig' = [sig EXCEPT ![t] = hash[t]]
  /\ pc' = [pc EXCEPT ![t] = "exit"]
  /\ UNCHANGED <<m, mainVars, readVars>>

ReadFileBody(t) ==
  Arrive(t) \/ PassReadBarrier(t) \/ ReadChunk(t) \/ ReadNothing(t) \/ StoreHash(t)

ReadFileMain == MainStep /\ UNCHANGED readVars

ReadFileDone == mainPc = "done" /\ UNCHANGED readFileVars

ReadFileNext == ReadFileMain \/ ReadFileDone \/ \E t \in Thread : ReadFileBody(t)

ReadFileSpec == ReadFileInit /\ [][ReadFileNext]_readFileVars
-----------------------------------------------------------------------------
\* The chunks that have been read are those before the offset, each of them by
\* one thread only, which reads them in the order of the file (:79-86).
ChunksAreReadOnce ==
  /\ \A t, u \in Thread : \A i \in DOMAIN chunks[t], j \in DOMAIN chunks[u] :
       chunks[t][i] = chunks[u][j] => t = u /\ i = j
  /\ \A t \in Thread : \A i, j \in DOMAIN chunks[t] :
       i < j => chunks[t][i] < chunks[t][j]
  /\ \A o \in 0 .. FileLen - 1 :
       o % BufSize = 0 =>
         (o < offset <=> \E t \in Thread : \E i \in DOMAIN chunks[t] : chunks[t][i] = o)

\* The signature is folded from final hashes, and of the whole file, unless every
\* thread has met a read that failed.
HashesAreFinal ==
  mainPc = "done" =>
    /\ \A t \in Thread : pc[t] = "exit" /\ sig[t] = hash[t]
    /\ mixSig = Signature(sig, NumProcs)
    /\ offset = FileLen \/ failed = Thread
=============================================================================
