----------------------------- MODULE ClonePipe ------------------------------
(***************************************************************************)
(* racey-clonepipe.c, the program of racey-forkpipe.c with threads.  They  *)
(* share one table of descriptors, so nobody can close a pipe for itself:  *)
(* main() joins the writers first, closes the writing ends of the inputs,  *)
(* and only then joins the readers, whose input ends with that close.      *)
(***************************************************************************)
EXTENDS Pipes

VARIABLES
  writable,  \* the i whose inputs[i][WR] is open
  reader,    \* where each ReaderThread stands
  writer,    \* where each WriterThread stands
  sent       \* the loop counter i of each WriterThread

threadVars == <<data, result, reader, writer, sent, received>>
cloneVars == <<writable, threadVars, mainPc, mainI>>

CloneTypeOK ==
  /\ writable \subseteq Id
  /\ \A t \in Id : data[t] \in Seq(Id \X (1 .. MaxLoop)) /\ Len(data[t]) <= Capacity
  /\ result \in [Id -> 0 .. 1]
  /\ reader \in [Id -> {"unborn", "loop", "return", "exit"}]
  /\ writer \in [Id -> {"unborn", "loop", "exit"}]
  /\ sent \in [Id -> 0 .. MaxLoop]
  /\ mainPc \in {"createReader", "createWriter", "joinWriters", "close", "joinReaders",
                 "read", "done"}
  /\ mainI \in 1 .. NumProcs

\* The pipes are open.
CloneInit ==
  /\ writable = Id
  /\ data = [t \in Id |-> <<>>]
  /\ result = [t \in Id |-> 0]
  /\ reader = [t \in Id |-> "unborn"]
  /\ writer = [t \in Id |-> "unborn"]
  /\ sent = [t \in Id |-> 0]
  /\ received = [t \in Id |-> <<>>]
  /\ mainPc = "createReader"
  /\ mainI = 1

\* for (i = 1; i <= NumProcs; i++): on to the next id, or to the next loop.
NextId(this, next) ==
  IF mainI < NumProcs THEN mainI' = mainI + 1 /\ mainPc' = this
                      ELSE mainI' = 1 /\ mainPc' = next
-----------------------------------------------------------------------------
\* The threads are created reader, writer, reader, ... (tids[i] = (i+1)/2).
CreateReader ==
  /\ mainPc = "createReader"
  /\ reader' = [reader EXCEPT ![mainI] = "loop"]
  /\ mainPc' = "createWriter"
  /\ UNCHANGED <<writable, data, result, writer, sent, received, mainI>>

CreateWriter ==
  /\ mainPc = "createWriter"
  /\ writer' = [writer EXCEPT ![mainI] = "loop"]
  /\ NextId("createReader", "joinWriters")
  /\ UNCHANGED <<writable, data, result, reader, sent, received>>

\* Mutant: main() joins one writer and goes on.
JoinFirstWriter ==
  /\ mainPc = "joinWriters"
  /\ writer[mainI] = "exit"
  /\ mainPc' = "close"
  /\ UNCHANGED <<writable, threadVars, mainI>>

JoinWriter ==
  /\ mainPc = "joinWriters"
  /\ writer[mainI] = "exit"
  /\ NextId("joinWriters", "close")
  /\ UNCHANGED <<writable, threadVars>>

\* Mutant: the loop stops before the last id, as the one over the results does.
CloseAllButLast ==
  /\ mainPc = "close"
  /\ writable' = IF mainI < NumProcs THEN writable \ {mainI} ELSE writable
  /\ NextId("close", "joinReaders")
  /\ UNCHANGED threadVars

\* close(inputs[i][WR])
CloseInput ==
  /\ mainPc = "close"
  /\ writable' = writable \ {mainI}
  /\ NextId("close", "joinReaders")
  /\ UNCHANGED threadVars

JoinReader ==
  /\ mainPc = "joinReaders"
  /\ reader[mainI] = "exit"
  /\ NextId("joinReaders", "read")
  /\ UNCHANGED <<writable, threadVars>>

\* read(output[i][RD], ...) for i < NumProcs.  The process itself holds the
\* writing end, so that an empty pipe means to wait, never "no output".
MainReadsResult ==
  /\ mainPc = "read"
  /\ IF mainI < NumProcs
       THEN /\ result[mainI] > 0
            /\ result' = [result EXCEPT ![mainI] = @ - 1]
            /\ mainI' = mainI + 1
            /\ UNCHANGED mainPc
       ELSE /\ mainPc' = "done"
            /\ UNCHANGED <<result, mainI>>
  /\ UNCHANGED <<writable, data, reader, writer, sent, received>>

CloneMain ==
  \/ CreateReader \/ CreateWriter \/ JoinWriter \/ CloseInput \/ JoinReader
  \/ MainReadsResult
-----------------------------------------------------------------------------
\* Mutant: a read overwrites what an earlier one has left in the buffer.
ThreadReadLastOnly(t) ==
  LET n == IF Len(data[t]) > 2 THEN 2 ELSE Len(data[t])
  IN  /\ reader[t] = "loop"
      /\ n > 0
      /\ received' = [received EXCEPT ![t] = Append(@, data[t][n])]
      /\ data' = [data EXCEPT ![t] = SubSeq(@, n + 1, Len(@))]
      /\ UNCHANGED <<writable, result, reader, writer, sent, mainPc, mainI>>

\* r > 0: two messages of 64 bytes, or the one there is.
ThreadRead(t) ==
  LET n == IF Len(data[t]) > 2 THEN 2 ELSE Len(data[t])
  IN  /\ reader[t] = "loop"
      /\ n > 0
      /\ received' = [received EXCEPT ![t] = @ \o SubSeq(data[t], 1, n)]
      /\ data' = [data EXCEPT ![t] = SubSeq(@, n + 1, Len(@))]
      /\ UNCHANGED <<writable, result, reader, writer, sent, mainPc, mainI>>

\* r = 0: the pipe is empty and its writing end is closed.
ThreadReadEnd(t) ==
  /\ reader[t] = "loop"
  /\ data[t] = <<>>
  /\ t \notin writable
  /\ reader' = [reader EXCEPT ![t] = "return"]
  /\ UNCHANGED <<writable, data, result, writer, sent, received, mainPc, mainI>>

ThreadWriteResult(t) ==
  /\ reader[t] = "return"
  /\ result' = [result EXCEPT ![t] = @ + 1]
  /\ reader' = [reader EXCEPT ![t] = "exit"]
  /\ UNCHANGED <<writable, data, writer, sent, received, mainPc, mainI>>

ReaderThread(t) == ThreadRead(t) \/ ThreadReadEnd(t) \/ ThreadWriteResult(t)

\* Mutant: a write never waits for room in the pipe.
ThreadWriteUnbounded(t, target) ==
  /\ writer[t] = "loop"
  /\ sent[t] < MaxLoop
  /\ data' = [data EXCEPT ![target] = Append(@, <<t, sent[t] + 1>>)]
  /\ sent' = [sent EXCEPT ![t] = @ + 1]
  /\ UNCHANGED <<writable, result, reader, writer, received, mainPc, mainI>>

\* write(inputs[target][WR], ...), to a pipe that is still open: it waits for
\* room.  Written to a closed descriptor the message would be lost (r = -1).
ThreadWrite(t, target) ==
  /\ writer[t] = "loop"
  /\ sent[t] < MaxLoop
  /\ IF target \in writable
       THEN /\ Len(data[target]) < Capacity
            /\ data' = [data EXCEPT ![target] = Append(@, <<t, sent[t] + 1>>)]
       ELSE UNCHANGED data
  /\ sent' = [sent EXCEPT ![t] = @ + 1]
  /\ UNCHANGED <<writable, result, reader, writer, received, mainPc, mainI>>

WriterReturn(t) ==
  /\ writer[t] = "loop"
  /\ sent[t] = MaxLoop
  /\ writer' = [writer EXCEPT ![t] = "exit"]
  /\ UNCHANGED <<writable, data, result, reader, sent, received, mainPc, mainI>>

WriterThread(t) == (\E target \in Id : ThreadWrite(t, target)) \/ WriterReturn(t)

CloneNext ==
  \/ CloneMain
  \/ \E t \in Id : ReaderThread(t) \/ WriterThread(t)
  \/ (mainPc = "done" /\ UNCHANGED cloneVars)

\* The kernel schedules every runnable thread again and again.
CloneFairness ==
  WF_cloneVars(CloneMain) /\ \A t \in Id : WF_cloneVars(ReaderThread(t)) /\ WF_cloneVars(WriterThread(t))

CloneSpec == CloneInit /\ [][CloneNext]_cloneVars
CloneFairSpec == CloneSpec /\ CloneFairness
-----------------------------------------------------------------------------
\* main() gets past all its joins and reads, and prints.
CloneTermination == <>(mainPc = "done")

CloneExchange == INSTANCE PipeExchange WITH
  Batch <- 2,
  channel <- data,
  over <- {t \in Id : writer[t] = "exit"},
  finished <- {t \in Id : reader[t] \in {"return", "exit"}},
  folded <- (mainPc = "done")

\* The signature covers everything that was sent, once and in order.
CloneDeliversEverything == CloneExchange!Delivered

\* The joins and closes of main() are in an order that ends an input exactly
\* when all writers are over and everything sent has been received.
CloneImplementsExchange == CloneExchange!Spec
=============================================================================
