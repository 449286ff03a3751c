-------------------------------- MODULE Pipes --------------------------------
(***************************************************************************)
(* What racey-forkpipe.c and racey-clonepipe.c have in common: for each    *)
(* thread id an input pipe, into which all writers write, and an output    *)
(* pipe for the one number that the reader of that id makes of its input.  *)
(*                                                                         *)
(* A message is 64 bytes, written atomically, <<w, k>> for the k-th of     *)
(* writer w; its contents decide its target, any target here.  A read      *)
(* takes the 128 bytes of two messages, or what there is.                  *)
(***************************************************************************)
EXTENDS Integers, Sequences, FiniteSets

CONSTANTS
  NumProcs,   \* the number of thread ids
  MaxLoop,    \* messages per writer
  Capacity    \* messages a pipe can hold

ASSUME PipeAssumption ==
  /\ NumProcs \in Nat \ {0}
  /\ MaxLoop \in Nat \ {0}
  /\ Capacity \in Nat \ {0}

Id == 1 .. NumProcs

VARIABLES
  data,      \* data[i]: the messages in the pipe inputs[i]
  result,    \* result[i]: the numbers in the pipe output[i]
  received,  \* history: the messages each reader has read
  mainPc,    \* where main() stands
  mainI      \* main()'s i
=============================================================================
