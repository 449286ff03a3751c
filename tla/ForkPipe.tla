------------------------------ MODULE ForkPipe ------------------------------
(***************************************************************************)
(* racey-forkpipe.c.  main() opens an input and an output pipe per thread  *)
(* id and forks, for each id, a reader and a writer process.  Every child  *)
(* inherits main()'s descriptors as they are at that fork and closes the   *)
(* ones it does not use; a reader's input ends when no process at all has  *)
(* the writing end open any more, so one close too few anywhere keeps      *)
(* every reader waiting, and one too early loses messages.                 *)
(***************************************************************************)
EXTENDS Pipes

Child == 1 .. 2 * NumProcs       \* by order of creation
main == 0
Proc == {main} \cup Child

ThreadId(c) == (c + 1) \div 2
Reader == {c \in Child : c % 2 = 1}
Writer == Child \ Reader

\* The descriptors: both ends of inputs[i] and output[i].
inputs(i, end) == <<"inputs", i, end>>
output(i, end) == <<"output", i, end>>
Fd == {"inputs", "output"} \X Id \X {"RD", "WR"}

VARIABLES
  open,  \* open[p]: the descriptors process p has open
  pc,    \* where each child stands
  i      \* the loop counter i of each child

childVars == <<data, result, pc, i, received>>
vars == <<open, childVars, mainPc, mainI>>

TypeOK ==
  /\ open \in [Proc -> SUBSET Fd]
  /\ \A t \in Id : data[t] \in Seq(Id \X (1 .. MaxLoop)) /\ Len(data[t]) <= Capacity
  /\ result \in [Id -> 0 .. 1]
  /\ pc \in [Child -> {"unborn", "unused", "loop", "return", "close", "killed", "exit"}]
  /\ i \in [Child -> 0 .. NumProcs + MaxLoop]
  /\ mainPc \in {"fork", "close", "wait", "read", "done", "failed", "noOutput"}
  /\ mainI \in 1 .. 2 * NumProcs + 1

\* The pipes are open.
Init ==
  /\ open = [p \in Proc |-> IF p = main THEN Fd ELSE {}]
  /\ data = [t \in Id |-> <<>>]
  /\ result = [t \in Id |-> 0]
  /\ pc = [c \in Child |-> "unborn"]
  /\ i = [c \in Child |-> 1]
  /\ received = [t \in Id |-> <<>>]
  /\ mainPc = "fork"
  /\ mainI = 1

\* Is some process holding fd?
Held(fd) == \E p \in Proc : fd \in open[p]

Close(p, fds) == open' = [open EXCEPT ![p] = @ \ fds]
Goto(c, label) == pc' = [pc EXCEPT ![c] = label]
-----------------------------------------------------------------------------
Fork ==
  /\ mainPc = "fork"
  /\ open' = [open EXCEPT ![mainI] = open[main]]
  /\ Goto(mainI, "unused")
  /\ IF mainI < 2 * NumProcs THEN mainI' = mainI + 1 /\ UNCHANGED mainPc
                             ELSE mainI' = 1 /\ mainPc' = "close"
  /\ UNCHANGED <<data, result, i, received>>

\* fork() < 0: main() returns 1, and leaves the children it has to themselves.
ForkFails ==
  /\ mainPc = "fork"
  /\ mainPc' = "failed"
  /\ Close(main, Fd)
  /\ UNCHANGED <<childVars, mainI>>

\* close unused pipes
MainCloses ==
  /\ mainPc = "close"
  /\ Close(main, {inputs(mainI, "RD"), inputs(mainI, "WR"), output(mainI, "WR")})
  /\ IF mainI < NumProcs THEN mainI' = mainI + 1 /\ UNCHANGED mainPc
                         ELSE mainI' = 1 /\ mainPc' = "wait"
  /\ UNCHANGED childVars

\* wait(NULL), once per child: any child that has ended and was not waited for.
WaitChild ==
  /\ mainPc = "wait"
  /\ mainI <= Cardinality({c \in Child : pc[c] \in {"killed", "exit"}})
  /\ IF mainI < 2 * NumProcs THEN mainI' = mainI + 1 /\ UNCHANGED mainPc
                             ELSE mainI' = 1 /\ mainPc' = "read"
  /\ UNCHANGED <<open, childVars>>

\* read(output[i][RD], ...) for i < NumProcs; the last id's result stays unread.
ReadResult ==
  /\ mainPc = "read"
  /\ mainI < NumProcs
  /\ IF result[mainI] > 0
       THEN /\ result' = [result EXCEPT ![mainI] = @ - 1]
            /\ mainI' = mainI + 1
            /\ UNCHANGED mainPc
       ELSE /\ ~Held(output(mainI, "WR"))
            /\ mainPc' = "noOutput"
            /\ UNCHANGED <<result, mainI>>
  /\ UNCHANGED <<open, data, pc, i, received>>

PrintSignature ==
  /\ mainPc = "read"
  /\ mainI >= NumProcs
  /\ mainPc' = "done"
  /\ Close(main, Fd)
  /\ UNCHANGED <<childVars, mainI>>

mainStep ==
  \/ Fork \/ ForkFails \/ MainCloses \/ WaitChild \/ ReadResult \/ PrintSignature
-----------------------------------------------------------------------------
\* Mutant: a reader keeps its own copy of its input's writing end.
UnusedKeepingInput(c, k) ==
  IF c \in Writer THEN {output(k, "RD"), output(k, "WR")}
  ELSE IF k = ThreadId(c) THEN {output(k, "RD")}
  ELSE {inputs(k, "RD"), inputs(k, "WR"), output(k, "RD"), output(k, "WR")}

\* Mutant: a writer closes the reading ends too, which it does not use either.
UnusedReadingEnds(c, k) ==
  IF c \in Writer THEN {inputs(k, "RD"), output(k, "RD"), output(k, "WR")}
  ELSE IF k = ThreadId(c) THEN {inputs(k, "WR"), output(k, "RD")}
  ELSE {inputs(k, "RD"), inputs(k, "WR"), output(k, "RD"), output(k, "WR")}

\* The descriptors child c does not use, of those with index k.
Unused(c, k) ==
  IF c \in Writer THEN {output(k, "RD"), output(k, "WR")}
  ELSE IF k = ThreadId(c) THEN {inputs(k, "WR"), output(k, "RD")}
  ELSE {inputs(k, "RD"), inputs(k, "WR"), output(k, "RD"), output(k, "WR")}

CloseUnused(c) ==
  /\ pc[c] = "unused"
  /\ Close(c, Unused(c, i[c]))
  /\ IF i[c] < NumProcs
       THEN i' = [i EXCEPT ![c] = @ + 1] /\ UNCHANGED pc
       ELSE i' = [i EXCEPT ![c] = 0] /\ Goto(c, "loop")
  /\ UNCHANGED <<data, result, received, mainPc, mainI>>

\* Mutant: the second message of a read is thrown away.
ReadFirstOnly(c) ==
  LET t == ThreadId(c)
      n == IF Len(data[t]) > 2 THEN 2 ELSE Len(data[t])
  IN  /\ c \in Reader
      /\ pc[c] = "loop"
      /\ n > 0
      /\ received' = [received EXCEPT ![t] = Append(@, Head(data[t]))]
      /\ data' = [data EXCEPT ![t] = SubSeq(@, n + 1, Len(@))]
      /\ UNCHANGED <<open, result, pc, i, mainPc, mainI>>

\* read(inputs[threadId][RD], ...) with r > 0: two messages, or the one there is.
Read(c) ==
  LET t == ThreadId(c)
      n == IF Len(data[t]) > 2 THEN 2 ELSE Len(data[t])
  IN  /\ c \in Reader
      /\ pc[c] = "loop"
      /\ n > 0
      /\ received' = [received EXCEPT ![t] = @ \o SubSeq(data[t], 1, n)]
      /\ data' = [data EXCEPT ![t] = SubSeq(@, n + 1, Len(@))]
      /\ UNCHANGED <<open, result, pc, i, mainPc, mainI>>

\* Mutant: the reader takes an empty pipe for the end of its input.
ReadEndWhenEmpty(c) ==
  /\ c \in Reader
  /\ pc[c] = "loop"
  /\ data[ThreadId(c)] = <<>>
  /\ Goto(c, "return")
  /\ UNCHANGED <<open, data, result, i, received, mainPc, mainI>>

\* Mutant: the reader returns at the end of its input without its result.
ReadEndWithoutResult(c) ==
  /\ c \in Reader
  /\ pc[c] = "loop"
  /\ data[ThreadId(c)] = <<>>
  /\ ~Held(inputs(ThreadId(c), "WR"))
  /\ Goto(c, "close")
  /\ UNCHANGED <<open, data, result, i, received, mainPc, mainI>>

\* r = 0, the end of the input: the pipe is empty and nobody can write to it.
ReadEnd(c) ==
  /\ c \in Reader
  /\ pc[c] = "loop"
  /\ data[ThreadId(c)] = <<>>
  /\ ~Held(inputs(ThreadId(c), "WR"))
  /\ Goto(c, "return")
  /\ UNCHANGED <<open, data, result, i, received, mainPc, mainI>>

\* write(output[threadId][WR], &num, sizeof(num))
WriteResult(c) ==
  /\ c \in Reader
  /\ pc[c] = "return"
  /\ result' = [result EXCEPT ![ThreadId(c)] = @ + 1]
  /\ Goto(c, "close")
  /\ UNCHANGED <<open, data, i, received, mainPc, mainI>>

\* A reader closes its two descriptors; return 0 closes whatever is left.
ReaderExit(c) ==
  /\ c \in Reader
  /\ pc[c] = "close"
  /\ Close(c, Fd)
  /\ Goto(c, "exit")
  /\ UNCHANGED <<data, result, i, received, mainPc, mainI>>

\* Mutant: a write never waits for room in the pipe.
WriteUnbounded(c, target) ==
  /\ c \in Writer
  /\ pc[c] = "loop"
  /\ i[c] < MaxLoop
  /\ data' = [data EXCEPT ![target] = Append(@, <<ThreadId(c), i[c] + 1>>)]
  /\ i' = [i EXCEPT ![c] = @ + 1]
  /\ UNCHANGED <<open, pc, result, received, mainPc, mainI>>

\* write(inputs[target][WR], buffer, 64): blocks while the pipe is full, and
\* kills the writer when no process could ever read what it writes.
Write(c, target) ==
  /\ c \in Writer
  /\ pc[c] = "loop"
  /\ i[c] < MaxLoop
  /\ IF Held(inputs(target, "RD"))
       THEN /\ Len(data[target]) < Capacity
            /\ data' = [data EXCEPT ![target] = Append(@, <<ThreadId(c), i[c] + 1>>)]
            /\ i' = [i EXCEPT ![c] = @ + 1]
            /\ UNCHANGED <<open, pc>>
       ELSE /\ Goto(c, "killed")
            /\ Close(c, Fd)
            /\ UNCHANGED <<data, i>>
  /\ UNCHANGED <<result, received, mainPc, mainI>>

\* i == MaxLoop
LeaveLoop(c) ==
  /\ c \in Writer
  /\ pc[c] = "loop"
  /\ i[c] = MaxLoop
  /\ i' = [i EXCEPT ![c] = 1]
  /\ Goto(c, "close")
  /\ UNCHANGED <<open, data, result, received, mainPc, mainI>>

\* The writer's last loop, and return 0 after it.
CloseInputs(c) ==
  /\ c \in Writer
  /\ pc[c] = "close"
  /\ Close(c, {inputs(i[c], "RD"), inputs(i[c], "WR")})
  /\ IF i[c] < NumProcs
       THEN i' = [i EXCEPT ![c] = @ + 1] /\ UNCHANGED pc
       ELSE Goto(c, "exit") /\ UNCHANGED i
  /\ UNCHANGED <<data, result, received, mainPc, mainI>>

child(c) ==
  \/ CloseUnused(c)
  \/ Read(c) \/ ReadEnd(c) \/ WriteResult(c) \/ ReaderExit(c)
  \/ (\E target \in Id : Write(c, target)) \/ LeaveLoop(c) \/ CloseInputs(c)

Ended(c) == pc[c] \in {"exit", "killed"}
Over == mainPc \in {"done", "failed", "noOutput"} /\ \A c \in Child : pc[c] = "unborn" \/ Ended(c)

Next == mainStep \/ (\E c \in Child : child(c)) \/ (Over /\ UNCHANGED vars)

\* The kernel schedules every runnable process again and again.
Fairness == WF_vars(mainStep) /\ \A c \in Child : WF_vars(child(c))

Spec == Init /\ [][Next]_vars
FairSpec == Spec /\ Fairness
-----------------------------------------------------------------------------
\* No writer ever meets a pipe that nobody can read any more: SIGPIPE would end
\* it silently, with messages unsent, and wait(NULL) would not tell.
NobodyIsKilled == \A c \in Child : pc[c] # "killed"

\* "no output from thread %d" (racey-forkpipe.c:229) is never printed: every
\* result is in its pipe before the last writing end of that pipe is closed.
ResultsAreThere == mainPc # "noOutput"

\* main() and all its children end, unless a fork failed before the last reader
\* was created: then a writer that picks the missing reader's pipe fills it and
\* waits for ever, the writers keeping each other's pipes open for reading.
Termination ==
  <>(Over \/ (mainPc = "failed" /\ \E r \in Reader : pc[r] = "unborn"))
-----------------------------------------------------------------------------
\* The exchange of messages, without the descriptors that organise it.
WriterOf(w) == 2 * w
ReaderOf(r) == 2 * r - 1
NeverBorn(c) == mainPc = "failed" /\ pc[c] = "unborn"

Exchange == INSTANCE PipeExchange WITH
  Batch <- 2,
  channel <- data,
  received <- received,
  sent <- [w \in Id |-> CASE pc[WriterOf(w)] \in {"unborn", "unused"} -> 0
                         [] pc[WriterOf(w)] \in {"close", "exit"} -> MaxLoop
                         [] OTHER -> i[WriterOf(w)]],
  over <- {w \in Id : pc[WriterOf(w)] \in {"close", "exit"} \/ NeverBorn(WriterOf(w))},
  finished <- {r \in Id : pc[ReaderOf(r)] \in {"return", "close", "exit"}},
  folded <- (mainPc = "done")

\* The signature covers everything that was sent, once and in order.
EverythingIsDelivered == Exchange!Delivered

\* The descriptors are closed so that an input ends exactly when all writers are
\* over and everything sent has been received.
ImplementsExchange == Exchange!Spec
=============================================================================
