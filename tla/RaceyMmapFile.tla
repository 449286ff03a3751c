--------------------------- MODULE RaceyMmapFile ----------------------------
(***************************************************************************)
(* racey-mmaptmpfile.c: racey-basic with sig[] in a temporary file that is *)
(* mapped before the threads are created.  When main() has printed the     *)
(* signature it unmaps, closes and removes the file.                       *)
(***************************************************************************)
EXTENDS RaceyBasic

VARIABLES
  mapped,    \* sig[] can be accessed
  linked     \* the temporary file has a name

fileVars == <<mapped, linked>>

\* InitMmap: mkstemp, ftruncate, mmap, and sig[i] = i
InitMmap == mapped = TRUE /\ linked = TRUE

MmapInit == Init /\ InitMmap

MmapBody(t) == ThreadBody(t) /\ UNCHANGED fileVars

\* CloseMmap(fd): munmap, close, unlink
CloseMmap ==
  /\ mainPc = "done" /\ mapped
  /\ mapped' = FALSE
  /\ linked' = FALSE
  /\ UNCHANGED vars

MmapMain == (main /\ UNCHANGED fileVars) \/ CloseMmap

\* Who would fault on sig[]: a thread in its loop, and main() before its fold.
UsesSig == mainPc = "result" \/ \E t \in Thread : pc[t] \in LoopPc
=============================================================================
