----------------------------- MODULE TcpServer ------------------------------
(***************************************************************************)
(* racey-tcp-server.c.  main() accepts connections and pushes them on a    *)
(* stack, the array client_fds[] with its top client_idx; WORKER_NUM       *)
(* threads poll the stack, take its top, and copy what comes over the      *)
(* connection to the output file.  client_fds_lock guards the stack.       *)
(*                                                                         *)
(* The code goes past both ends of the array.  client_fds[-1], which every *)
(* poll of the empty stack reads, is padding in front of the 32-byte       *)
(* aligned array, and 0 in every build.  client_fds[10], which a push on   *)
(* the full stack writes, is padding or the variable barrier, which nobody *)
(* reads any more (-fcommon), and then serves as one more cell, or it is   *)
(* client_idx itself (-fno-common): what follows then, corrupt, is not     *)
(* described here.                                                         *)
(***************************************************************************)
EXTENDS TcpClient

CONSTANTS
  WorkerNum,      \* WORKER_NUM, 10: the number of workers
  Slots,          \* WORKER_NUM again: the length of client_fds[]
  ServerBacklog   \* 10, the second argument of listen()

ASSUME ServerAssumption ==
  /\ WorkerNum \in Nat \ {0} /\ Slots \in Nat \ {0}
  /\ ServerBacklog \in Nat \ {0}

Worker == 1 .. WorkerNum
NoFd == <<>>         \* -1, or any other value that is not positive
Free == 0            \* nobody holds the lock

VARIABLES
  client_fds,  \* the array, with the cells before and after it
  client_idx,  \* the top of the stack, -1 when it is empty
  barrier,     \* TRUE when the workers may start
  fdsLock,     \* the worker in its critical section, Free when none is
  wpc,         \* where each worker stands, "idle" until it is created
  fd,          \* the local fd of each worker
  buf,         \* what the last read() of each worker has returned
  mpc,         \* where main() stands
  client_fd,   \* the local client_fd of main()
  served,      \* connections that a worker has closed
  corrupt      \* client_idx has been overwritten

stackVars == <<client_fds, client_idx>>
workerVars == <<wpc, fd, buf, served>>
mainVars == <<mpc, client_fd, corrupt, barrier>>
serverVars == <<stackVars, fdsLock, workerVars, mainVars>>
vars == <<clientVars, listening, backlog, received, output, serverVars>>

TypeOK ==
  /\ ClientTypeOK
  /\ client_fds \in [-1 .. Slots -> Conn \cup {NoFd}]
  /\ client_idx \in -1 .. Slots
  /\ barrier \in BOOLEAN /\ corrupt \in BOOLEAN
  /\ fdsLock \in Worker \cup {Free}
  /\ wpc \in [Worker -> {"idle", "spin", "poll", "clear", "read", "write"}]
  /\ fd \in [Worker -> Conn \cup {NoFd}]
  /\ mpc \in {"create", "listen", "accept", "push"}
  /\ client_fd \in Conn \cup {NoFd}
  /\ served \subseteq Conn

ServerInit ==
  /\ client_fds = [i \in -1 .. Slots |-> NoFd]
  /\ client_idx = -1
  /\ barrier = FALSE
  /\ fdsLock = Free
  /\ wpc = [w \in Worker |-> "idle"]
  /\ fd = [w \in Worker |-> NoFd]
  /\ buf = [w \in Worker |-> <<>>]
  /\ mpc = "create"
  /\ client_fd = NoFd
  /\ served = {}
  /\ corrupt = FALSE
-----------------------------------------------------------------------------
\* while (barrier == 0) {}
LeaveSpin(w) ==
  /\ wpc[w] = "spin"
  /\ barrier
  /\ wpc' = [wpc EXCEPT ![w] = "poll"]
  /\ UNCHANGED <<fd, buf, served, stackVars, fdsLock, received, output>>

\* Mutant: a worker looks at the stack without the lock.
TakeUnlocked(w) ==
  /\ wpc[w] = "poll"
  /\ client_fds[client_idx] # NoFd
  /\ fd' = [fd EXCEPT ![w] = client_fds[client_idx]]
  /\ fdsLock' = w
  /\ wpc' = [wpc EXCEPT ![w] = "clear"]
  /\ UNCHANGED <<buf, served, stackVars, received, output>>

\* pthread_mutex_lock(&client_fds_lock), and fd = client_fds[client_idx] if that
\* is positive; a worker that finds nothing unlocks again: nothing changes.
Take(w) ==
  /\ wpc[w] = "poll"
  /\ fdsLock = Free
  /\ client_fds[client_idx] # NoFd
  /\ fd' = [fd EXCEPT ![w] = client_fds[client_idx]]
  /\ fdsLock' = w
  /\ wpc' = [wpc EXCEPT ![w] = "clear"]
  /\ UNCHANGED <<buf, served, stackVars, received, output>>

\* Mutant: break without unlocking.
PopKeepingLock(w) ==
  /\ wpc[w] = "clear"
  /\ client_fds' = [client_fds EXCEPT ![client_idx] = NoFd]
  /\ client_idx' = client_idx - 1
  /\ wpc' = [wpc EXCEPT ![w] = "read"]
  /\ UNCHANGED <<fdsLock, fd, buf, served, received, output>>

\* client_fds[client_idx] = -1; client_idx--; unlock
Pop(w) ==
  /\ wpc[w] = "clear"
  /\ client_fds' = [client_fds EXCEPT ![client_idx] = NoFd]
  /\ client_idx' = client_idx - 1
  /\ fdsLock' = Free
  /\ wpc' = [wpc EXCEPT ![w] = "read"]
  /\ UNCHANGED <<fd, buf, served, received, output>>

\* read(fd, buf, sizeof(buf)) blocks until something has come, or the end; on a
\* lost connection it fails, and the write of n = -1 bytes that follows too.
Read(w) ==
  LET c == fd[w] IN
  /\ wpc[w] = "read"
  /\ \/ \E pieces \in NextPieces(c) :
          /\ buf' = [buf EXCEPT ![w] = pieces]
          /\ received' = [received EXCEPT ![c] = @ + Len(pieces)]
     \/ /\ AtEnd(c)
        /\ buf' = [buf EXCEPT ![w] = <<>>]
        /\ UNCHANGED received
  /\ wpc' = [wpc EXCEPT ![w] = "write"]
  /\ UNCHANGED <<fd, served, stackVars, fdsLock, output>>

\* Mutant: while (n == sizeof(buf)).
WriteOnce(w) ==
  /\ wpc[w] = "write"
  /\ output' = [output EXCEPT ![fd[w]] = @ \o buf[w]]
  /\ buf' = [buf EXCEPT ![w] = <<>>]
  /\ served' = served \cup {fd[w]}
  /\ fd' = [fd EXCEPT ![w] = NoFd]
  /\ wpc' = [wpc EXCEPT ![w] = "poll"]
  /\ UNCHANGED <<stackVars, fdsLock, received>>

\* write(output_fd, buf, n), all that is done under file_lock and so one step;
\* after n > 0 the next read, otherwise close(fd) and back to the stack.
Write(w) ==
  /\ wpc[w] = "write"
  /\ output' = [output EXCEPT ![fd[w]] = @ \o buf[w]]
  /\ buf' = [buf EXCEPT ![w] = <<>>]
  /\ IF buf[w] # <<>>
       THEN wpc' = [wpc EXCEPT ![w] = "read"] /\ UNCHANGED <<fd, served>>
       ELSE /\ served' = served \cup {fd[w]}
            /\ fd' = [fd EXCEPT ![w] = NoFd]
            /\ wpc' = [wpc EXCEPT ![w] = "poll"]
  /\ UNCHANGED <<stackVars, fdsLock, received>>

racey_worker(w) ==
  /\ LeaveSpin(w) \/ Take(w) \/ Pop(w) \/ Read(w) \/ Write(w)
  /\ UNCHANGED <<clientVars, listening, backlog, mainVars>>
-----------------------------------------------------------------------------
\* client_fds[i] = -1; pthread_create(&threads[i], ..., racey_worker, NULL);
\* barrier = 1 after the last
CreateWorker ==
  /\ mpc = "create"
  /\ \E w \in Worker :
       /\ \A v \in Worker : wpc[v] = "idle" <=> v >= w
       /\ wpc' = [wpc EXCEPT ![w] = "spin"]
       /\ barrier' = (w = WorkerNum)
       /\ mpc' = IF w = WorkerNum THEN "listen" ELSE "create"
  /\ UNCHANGED <<fd, buf, served, client_fd, corrupt, stackVars, fdsLock, listening, backlog>>

\* listen(server_fd, 10)
Listen ==
  /\ mpc = "listen"
  /\ listening' = TRUE
  /\ mpc' = "accept"
  /\ UNCHANGED <<client_fd, corrupt, barrier, workerVars, stackVars, fdsLock, backlog>>

\* client_fd = accept(...)
Accept ==
  /\ mpc = "accept"
  /\ backlog # <<>>
  /\ client_fd' = Head(backlog)
  /\ backlog' = Tail(backlog)
  /\ mpc' = "push"
  /\ UNCHANGED <<corrupt, barrier, workerVars, stackVars, fdsLock, listening>>

\* Mutant: client_idx <= WORKER_NUM.
PushOneMore ==
  /\ mpc = "push"
  /\ fdsLock = Free
  /\ client_idx <= Slots
  /\ client_idx' = client_idx + 1
  /\ client_fds' = [client_fds EXCEPT ![client_idx + 1] = client_fd]
  /\ corrupt' \in IF client_idx + 1 >= Slots THEN BOOLEAN ELSE {FALSE}
  /\ client_fd' = NoFd
  /\ mpc' = "accept"
  /\ UNCHANGED <<barrier, fdsLock, workerVars, listening, backlog>>

\* Under client_fds_lock, if client_idx < WORKER_NUM: client_idx++;
\* client_fds[client_idx] = client_fd; and back to accept().  The last of these
\* stores is past the end.  While the stack is full main() tries again.
Push ==
  /\ mpc = "push"
  /\ fdsLock = Free
  /\ client_idx < Slots
  /\ client_idx' = client_idx + 1
  /\ client_fds' = [client_fds EXCEPT ![client_idx + 1] = client_fd]
  /\ corrupt' \in IF client_idx + 1 = Slots THEN BOOLEAN ELSE {FALSE}
  /\ client_fd' = NoFd
  /\ mpc' = "accept"
  /\ UNCHANGED <<barrier, fdsLock, workerVars, listening, backlog>>

main ==
  /\ CreateWorker \/ Listen \/ Accept \/ Push
  /\ UNCHANGED <<clientVars, received, output>>

\* The workers find no connection, main() waits for one, and none will come.
Polling ==
  /\ mpc = "accept" /\ backlog = <<>> /\ client_idx = -1
  /\ \A w \in Worker : wpc[w] = "poll"
  /\ \A t \in ClientThread : cpc[t] = "over"
  /\ UNCHANGED vars

\* Past the overwritten client_idx nothing is said.
Corrupted == corrupt /\ UNCHANGED vars
-----------------------------------------------------------------------------
\* Where an accepted connection can be: with main(), on the stack, with a
\* worker, or closed.  A worker that clears its cell is still taking it.
WithMain(c) == client_fd = c
OnStack(c) == \E i \in 0 .. client_idx : client_fds[i] = c
InService(w, c) == fd[w] = c /\ wpc[w] \in {"read", "write"}

\* The stack is what the workers and main() take it for: full up to its top,
\* empty above, -1 below; an accepted connection is in exactly one place, and is
\* served by one worker only (:36-50, :154-161).
EachInOnePlace ==
  ~corrupt /\ mpc # "create" =>
    /\ \A i \in 0 .. Slots : client_fds[i] # NoFd <=> i <= client_idx
    /\ \A i, j \in 0 .. client_idx : client_fds[i] = client_fds[j] => i = j
    /\ \A c \in Conn :
         LET workers == {w \in Worker : InService(w, c)}
         IN  /\ c \in Accepted <=> WithMain(c) \/ OnStack(c) \/ workers # {} \/ c \in served
             /\ ~(WithMain(c) /\ OnStack(c))
             /\ workers # {} => ~WithMain(c) /\ ~OnStack(c) /\ c \notin served
             /\ c \in served => ~WithMain(c) /\ ~OnStack(c)
             /\ Cardinality(workers) <= 1

\* The file holds every connection's pieces once and in order, whatever the
\* workers write in between, and a served connection's quote completely.
OutputInOrder ==
  \A c \in Conn :
    InOrder(c) /\ (c \in served \ lost => Len(output[c]) = sent[c])
=============================================================================
