--------------------------- MODULE RaceyTcpProofs ---------------------------
(***************************************************************************)
(* Proofs about the stack of the threaded server, racey-tcp-server.c, and  *)
(* about what either server writes, for every number of clients, quotes,   *)
(* pieces and workers, every length of the stack and of the backlog, and   *)
(* every loss of connections.                                              *)
(***************************************************************************)
EXTENDS RaceyTcp, TLAPS, FiniteSetTheorems, SequenceTheorems

Shapes ==
  /\ cpc \in [ClientThread -> {"connect", "write", "close", "over"}]
  /\ quoteN \in [ClientThread -> 1 .. Quotes + 1]
  /\ backlog \in Seq(Conn)
  /\ client_fds \in [-1 .. Slots -> Conn \cup {NoFd}]
  /\ client_idx \in -1 .. Slots
  /\ fdsLock \in Worker \cup {Free}
  /\ wpc \in [Worker -> {"idle", "spin", "poll", "clear", "read", "write"}]
  /\ fd \in [Worker -> Conn \cup {NoFd}]
  /\ mpc \in {"create", "listen", "accept", "push"}
  /\ client_fd \in Conn \cup {NoFd}
  /\ served \subseteq Conn

\* A client thread that is not over has a quote to send.
ClientInv == \A t \in ClientThread : cpc[t] # "over" => quoteN[t] <= Quotes

\* The backlog holds connections that are established, each once.
BacklogInv ==
  /\ \A i \in DOMAIN backlog : backlog[i] \in Established
  /\ \A i, j \in DOMAIN backlog : backlog[i] = backlog[j] => i = j

\* The lock is held by the worker that is taking the top of the stack.
LockInv ==
  \A w \in Worker :
    /\ wpc[w] = "clear" <=> fdsLock = w
    /\ wpc[w] = "clear" => client_idx >= 0 /\ fd[w] = client_fds[client_idx]

\* The cells up to the top are full, and no two hold the same connection.
StackInv ==
  /\ \A i \in -1 .. Slots : client_fds[i] # NoFd <=> 0 <= i /\ i <= client_idx
  /\ \A i, j \in 0 .. client_idx : client_fds[i] = client_fds[j] => i = j

\* main() and the workers hold a connection exactly where they work on one.
HoldInv ==
  /\ client_fd # NoFd <=> mpc = "push"
  /\ \A w \in Worker : fd[w] # NoFd <=> wpc[w] \in {"clear", "read", "write"}

WithWorker(c) == \E w \in Worker : InService(w, c)

\* An accepted connection is in one place, and no other is anywhere.
PlaceInv ==
  /\ \A v, w \in Worker : \A c \in Conn : InService(v, c) /\ InService(w, c) => v = w
  /\ \A c \in Conn :
       /\ c \in Accepted <=> WithMain(c) \/ OnStack(c) \/ WithWorker(c) \/ c \in served
       /\ WithMain(c) => ~OnStack(c) /\ ~WithWorker(c) /\ c \notin served
       /\ OnStack(c) => ~WithWorker(c) /\ c \notin served
       /\ WithWorker(c) => c \notin served

ServerInv ==
  Shapes /\ ClientInv /\ BacklogInv /\ LockInv /\ StackInv /\ HoldInv /\ PlaceInv

\* The epoll server leaves the stack alone, and past the overwritten client_idx
\* nothing is claimed.
TcpInv ==
  \/ server = "epoll" /\ mpc = "create"
  \/ server = "threads" /\ (corrupt \/ ServerInv)
-----------------------------------------------------------------------------
\* NoFd stands for a number that is no descriptor.
LEMMA NoFdIsNoConn == NoFd \notin Conn
  BY DEF NoFd, Conn

\* What of the state PlaceInv depends on.
LEMMA PlacesKept ==
  ASSUME PlaceInv, Accepted' = Accepted, UNCHANGED <<client_fd, served>>,
         \A c \in Conn : OnStack(c)' <=> OnStack(c),
         \A w \in Worker : \A c \in Conn : InService(w, c)' <=> InService(w, c)
  PROVE  PlaceInv'
<1>1. \A c \in Conn : WithWorker(c)' <=> WithWorker(c)
  BY DEF WithWorker
<1>2. \A c \in Conn : WithMain(c)' <=> WithMain(c)
  BY DEF WithMain
<1> QED
  BY <1>1, <1>2 DEF PlaceInv

\* The four invariants make the stack what EachInOnePlace says.
LEMMA TcpInvImplies == TcpInv => EachInOnePlace
<1> SUFFICES ASSUME ServerInv PROVE EachInOnePlace
  BY DEF TcpInv, EachInOnePlace
<1> USE DEF ServerInv
<1>1. \A i \in 0 .. Slots : client_fds[i] # NoFd <=> i <= client_idx
  BY ServerAssumption DEF StackInv
<1>2. \A i, j \in 0 .. client_idx : client_fds[i] = client_fds[j] => i = j
  BY DEF StackInv
<1>3. ASSUME NEW c \in Conn
      PROVE  LET workers == {w \in Worker : InService(w, c)}
             IN  /\ c \in Accepted <=> WithMain(c) \/ OnStack(c) \/ workers # {} \/ c \in served
                 /\ ~(WithMain(c) /\ OnStack(c))
                 /\ workers # {} => ~WithMain(c) /\ ~OnStack(c) /\ c \notin served
                 /\ c \in served => ~WithMain(c) /\ ~OnStack(c)
                 /\ Cardinality(workers) <= 1
  <2> DEFINE workers == {w \in Worker : InService(w, c)}
  <2>1. workers # {} <=> WithWorker(c)
    BY DEF WithWorker
  <2>2. Cardinality(workers) <= 1
    <3>1. CASE workers = {}
      BY <3>1, FS_EmptySet
    <3>2. CASE workers # {}
      <4>1. PICK w \in Worker : w \in workers
        BY <3>2
      <4>2. workers = {w}
        BY <4>1 DEF PlaceInv
      <4>3. Cardinality({w}) = 1
        BY FS_Singleton
      <4> QED BY <4>2, <4>3
    <3> QED BY <3>1, <3>2
  <2> HIDE DEF workers
  <2>3. /\ c \in Accepted <=> WithMain(c) \/ OnStack(c) \/ WithWorker(c) \/ c \in served
        /\ WithMain(c) => ~OnStack(c) /\ ~WithWorker(c) /\ c \notin served
        /\ OnStack(c) => ~WithWorker(c) /\ c \notin served
        /\ WithWorker(c) => c \notin served
    BY DEF PlaceInv
  <2> QED
    BY <2>1, <2>2, <2>3 DEF workers
<1> QED
  BY <1>1, <1>2, <1>3 DEF EachInOnePlace
-----------------------------------------------------------------------------
\* A client thread that is not over works on a connection of its own.
LEMMA CurrentIsConn ==
  ASSUME Shapes, ClientInv, NEW t \in ClientThread, cpc[t] # "over"
  PROVE  Current(t) \in Conn
  BY DEF Shapes, ClientInv, Current, Conn

\* connect() establishes a connection and puts it in the backlog at once.
LEMMA ConnectStep ==
  ASSUME Shapes, ClientInv, BacklogInv,
         NEW t \in ClientThread, NEW Backlog, Connect(t, Backlog)
  PROVE  /\ cpc' \in [ClientThread -> {"connect", "write", "close", "over"}]
         /\ backlog' \in Seq(Conn)
         /\ UNCHANGED quoteN /\ ClientInv' /\ BacklogInv'
         /\ Accepted' = Accepted
<1> DEFINE c == Current(t)
<1>1. cpc[t] = "connect" /\ UNCHANGED quoteN
  BY DEF Connect
<1>2. c \in Conn /\ c \notin Established /\ quoteN[t] \in Int
  BY <1>1, CurrentIsConn DEF Shapes, Established, Current, Conn
<1>3. CASE listening
  <2>1. cpc' = [cpc EXCEPT ![t] = "write"] /\ backlog' = Append(backlog, c)
    BY <1>3 DEF Connect
  <2>2. Established' = Established \cup {c}
    BY <1>1, <1>2, <2>1 DEF Established, Shapes, Current, Conn
  <2> HIDE DEF c
  <2>3. backlog \in Seq(Conn)
    BY DEF Shapes
  <2>4. /\ backlog' \in Seq(Conn)
        /\ DOMAIN backlog' = DOMAIN backlog \cup {Len(backlog) + 1}
        /\ \A i \in DOMAIN backlog : backlog'[i] = backlog[i]
        /\ backlog'[Len(backlog) + 1] = c
    BY <1>2, <2>1, <2>3
  <2>5. \A i \in DOMAIN backlog : backlog[i] # c
    BY <1>2 DEF BacklogInv
  <2>6. BacklogInv'
    BY <2>2, <2>4, <2>5 DEF BacklogInv
  <2>7. Accepted' = Accepted
    <3>1. {backlog'[i] : i \in DOMAIN backlog'} = {backlog[i] : i \in DOMAIN backlog} \cup {c}
      BY <2>4
    <3>2. c \notin Established
      BY <1>2
    <3> QED
      BY <2>2, <3>1, <3>2 DEF Accepted
  <2>8. ClientInv' /\ cpc' \in [ClientThread -> {"connect", "write", "close", "over"}]
    BY <1>1, <2>1 DEF ClientInv, Shapes
  <2> QED BY <1>1, <2>4, <2>6, <2>7, <2>8
<1>4. CASE ~listening
  <2>1. cpc' = [cpc EXCEPT ![t] = "over"] /\ UNCHANGED backlog
    BY <1>4 DEF Connect
  <2>2. Established' = Established
    BY <1>1, <2>1 DEF Established, Shapes, Conn
  <2>3. BacklogInv' /\ Accepted' = Accepted
    BY <2>1, <2>2 DEF BacklogInv, Accepted
  <2> QED
    BY <1>1, <2>1, <2>3 DEF ClientInv, Shapes
<1> QED
  BY <1>3, <1>4

\* Writing and closing leave every connection established.
LEMMA WriteCloseStep ==
  ASSUME Shapes, ClientInv, BacklogInv,
         NEW t \in ClientThread, WriteQuote(t) \/ CloseConnection(t)
  PROVE  /\ cpc' \in [ClientThread -> {"connect", "write", "close", "over"}]
         /\ quoteN' \in [ClientThread -> 1 .. Quotes + 1]
         /\ UNCHANGED backlog /\ ClientInv' /\ BacklogInv'
         /\ Accepted' = Accepted
<1>1. /\ Established' = Established /\ ClientInv' /\ UNCHANGED backlog
      /\ cpc' \in [ClientThread -> {"connect", "write", "close", "over"}]
      /\ quoteN' \in [ClientThread -> 1 .. Quotes + 1]
  <2>1. CASE WriteQuote(t)
    BY <2>1 DEF WriteQuote, Established, ClientInv, Shapes, Conn
  <2>2. CASE CloseConnection(t)
    <3>1. /\ cpc[t] = "close" /\ quoteN[t] \in 1 .. Quotes
          /\ quoteN' = [quoteN EXCEPT ![t] = quoteN[t] + 1]
          /\ cpc' = [cpc EXCEPT ![t] = IF quoteN[t] < Quotes THEN "connect" ELSE "over"]
          /\ UNCHANGED backlog
      BY <2>2, ClientAssumption DEF CloseConnection, ClientInv, Shapes
    <3>2. /\ cpc' \in [ClientThread -> {"connect", "write", "close", "over"}]
          /\ quoteN' \in [ClientThread -> 1 .. Quotes + 1]
          /\ ClientInv'
      BY <3>1, ClientAssumption DEF ClientInv, Shapes
    <3>3. ASSUME NEW c \in Conn PROVE c \in Established' <=> c \in Established
      <4>1. c[1] \in ClientThread /\ c[2] \in 1 .. Quotes
        BY DEF Conn
      <4>2. CASE c[1] = t
        BY <3>1, <4>1, <4>2, ClientAssumption DEF Established, Shapes
      <4>3. CASE c[1] # t
        BY <3>1, <4>1, <4>3 DEF Established, Shapes
      <4> QED BY <4>2, <4>3
    <3>4. Established' = Established
      BY <3>3 DEF Established
    <3> QED BY <3>1, <3>2, <3>4
  <2> QED BY <2>1, <2>2
<1> QED
  BY <1>1 DEF BacklogInv, Accepted

\* No step of the client accepts a connection.
LEMMA ClientKeepsAccepted ==
  ASSUME Shapes, ClientInv, BacklogInv,
         Lose \/ \E t \in ClientThread : ClientWorker(t, ListenBacklog)
  PROVE  /\ cpc' \in [ClientThread -> {"connect", "write", "close", "over"}]
         /\ quoteN' \in [ClientThread -> 1 .. Quotes + 1]
         /\ backlog' \in Seq(Conn)
         /\ ClientInv' /\ BacklogInv'
         /\ Accepted' = Accepted
<1>1. CASE Lose
  <2>1. UNCHANGED <<cpc, quoteN, backlog>>
    BY <1>1 DEF Lose
  <2> QED
    BY <2>1 DEF ClientInv, BacklogInv, Accepted, Established, Shapes
<1>2. ASSUME NEW t \in ClientThread, Connect(t, ListenBacklog)
      PROVE  /\ cpc' \in [ClientThread -> {"connect", "write", "close", "over"}]
             /\ quoteN' \in [ClientThread -> 1 .. Quotes + 1]
             /\ backlog' \in Seq(Conn)
             /\ ClientInv' /\ BacklogInv'
             /\ Accepted' = Accepted
  BY <1>2, ConnectStep DEF Shapes
<1>3. ASSUME NEW t \in ClientThread, WriteQuote(t) \/ CloseConnection(t)
      PROVE  /\ cpc' \in [ClientThread -> {"connect", "write", "close", "over"}]
             /\ quoteN' \in [ClientThread -> 1 .. Quotes + 1]
             /\ backlog' \in Seq(Conn)
             /\ ClientInv' /\ BacklogInv'
             /\ Accepted' = Accepted
  BY <1>3, WriteCloseStep DEF Shapes
<1> QED
  BY <1>1, <1>2, <1>3 DEF ClientWorker

\* Whatever a client does, the server's part of the state stays.
LEMMA ClientStepServerInv ==
  ASSUME ServerInv, UNCHANGED serverVars,
         Lose \/ \E t \in ClientThread : ClientWorker(t, ListenBacklog)
  PROVE  ServerInv'
<1> USE DEF ServerInv
<1>1. UNCHANGED <<client_fds, client_idx, fdsLock, wpc, fd, served, mpc, client_fd>>
  BY DEF serverVars, stackVars, workerVars, mainVars
<1>2. /\ cpc' \in [ClientThread -> {"connect", "write", "close", "over"}]
      /\ quoteN' \in [ClientThread -> 1 .. Quotes + 1]
      /\ backlog' \in Seq(Conn)
      /\ ClientInv' /\ BacklogInv'
      /\ Accepted' = Accepted
  BY ClientKeepsAccepted
<1>3. Shapes'
  BY <1>1, <1>2 DEF Shapes
<1>4. LockInv' /\ StackInv' /\ HoldInv'
  BY <1>1 DEF LockInv, StackInv, HoldInv
<1>5. PlaceInv'
  BY <1>1, <1>2, PlacesKept DEF OnStack, InService
<1> QED
  BY <1>2, <1>3, <1>4, <1>5
-----------------------------------------------------------------------------
\* What no step of a worker changes.
LEMMA WorkerKeeps ==
  ASSUME ServerInv, UNCHANGED <<clientVars, listening, backlog, mainVars>>
  PROVE  /\ ClientInv' /\ BacklogInv' /\ Accepted' = Accepted
         /\ UNCHANGED <<cpc, quoteN, backlog, mpc, client_fd>>
  BY DEF ServerInv, ClientInv, BacklogInv, Accepted, Established, clientVars, mainVars

\* A worker that leaves the barrier or takes the top of the stack serves nobody
\* yet: every connection is where it was.
LEMMA TakeStep ==
  ASSUME ServerInv, NEW w \in Worker, LeaveSpin(w) \/ Take(w),
         UNCHANGED <<clientVars, listening, backlog, mainVars>>
  PROVE  ServerInv'
<1> USE DEF ServerInv
<1>1. /\ UNCHANGED <<client_fds, client_idx, served>>
      /\ UNCHANGED <<cpc, quoteN, backlog, mpc, client_fd>>
      /\ ClientInv' /\ BacklogInv' /\ Accepted' = Accepted
  BY WorkerKeeps DEF LeaveSpin, Take, stackVars
<1>2. Free \notin Worker
  BY DEF Worker, Free
<1>3. CASE LeaveSpin(w)
  <2>1. wpc[w] = "spin" /\ wpc' = [wpc EXCEPT ![w] = "poll"] /\ UNCHANGED <<fd, fdsLock>>
    BY <1>3 DEF LeaveSpin
  <2>2. Shapes'
    BY <1>1, <2>1 DEF Shapes
  <2>3. LockInv' /\ StackInv' /\ HoldInv'
    BY <1>1, <2>1 DEF LockInv, StackInv, HoldInv, Shapes
  <2>4. \A v \in Worker : \A c \in Conn : InService(v, c)' <=> InService(v, c)
    BY <2>1 DEF InService, Shapes
  <2>5. PlaceInv'
    BY <1>1, <2>4, PlacesKept DEF OnStack
  <2> QED BY <1>1, <2>2, <2>3, <2>5
<1>4. CASE Take(w)
  <2>1. /\ wpc[w] = "poll" /\ fdsLock = Free /\ client_fds[client_idx] # NoFd
        /\ fd' = [fd EXCEPT ![w] = client_fds[client_idx]]
        /\ fdsLock' = w /\ wpc' = [wpc EXCEPT ![w] = "clear"]
    BY <1>4 DEF Take
  <2>2. client_fds[client_idx] \in Conn /\ client_idx >= 0
    BY <2>1 DEF Shapes, StackInv
  <2>3. Shapes'
    BY <1>1, <2>1, <2>2 DEF Shapes
  <2>4. LockInv'
    <3>1. \A v \in Worker \ {w} : wpc'[v] = wpc[v] /\ wpc[v] # "clear" /\ v # w
      BY <1>2, <2>1 DEF LockInv, Shapes
    <3>2. wpc'[w] = "clear" /\ fd'[w] = client_fds[client_idx]
      BY <2>1 DEF Shapes
    <3> QED
      BY <1>1, <2>1, <2>2, <3>1, <3>2 DEF LockInv
  <2>5. StackInv' /\ HoldInv'
    BY <1>1, <2>1, <2>2 DEF StackInv, HoldInv, Shapes
  <2>6. \A v \in Worker : \A c \in Conn : InService(v, c)' <=> InService(v, c)
    BY <2>1 DEF InService, Shapes
  <2>7. PlaceInv'
    BY <1>1, <2>6, PlacesKept DEF OnStack
  <2> QED BY <1>1, <2>3, <2>4, <2>5, <2>7
<1> QED BY <1>3, <1>4

\* The top leaves the stack and is in service, with the one worker that holds
\* the lock.
LEMMA PopStep ==
  ASSUME ServerInv, NEW w \in Worker, Pop(w),
         UNCHANGED <<clientVars, listening, backlog, mainVars>>
  PROVE  ServerInv'
<1> USE DEF ServerInv
<1> DEFINE top == client_fds[client_idx]
<1>1. /\ UNCHANGED <<fd, served, cpc, quoteN, backlog, mpc, client_fd>>
      /\ ClientInv' /\ BacklogInv' /\ Accepted' = Accepted
  BY WorkerKeeps DEF Pop
<1>2. /\ wpc[w] = "clear"
      /\ client_fds' = [client_fds EXCEPT ![client_idx] = NoFd]
      /\ client_idx' = client_idx - 1
      /\ fdsLock' = Free /\ wpc' = [wpc EXCEPT ![w] = "read"]
  BY DEF Pop
<1>3. /\ client_idx \in 0 .. Slots /\ fd[w] = top /\ fdsLock = w /\ w # Free
  BY <1>2 DEF LockInv, Shapes, Worker, Free
<1>4. top \in Conn /\ top # NoFd
  BY <1>3, NoFdIsNoConn, ServerAssumption DEF Shapes, StackInv
<1>5. Shapes'
  BY <1>1, <1>2, <1>3, ServerAssumption DEF Shapes
<1>6. LockInv'
  BY <1>2, <1>3 DEF LockInv, Shapes, Worker, Free
<1>7. StackInv'
  BY <1>2, <1>3, ServerAssumption DEF StackInv, Shapes
<1>8. HoldInv'
  BY <1>1, <1>2, <1>4 DEF HoldInv, Shapes
<1>9. ASSUME NEW c \in Conn
      PROVE  OnStack(c)' <=> OnStack(c) /\ c # top
  <2>1. ASSUME NEW i \in 0 .. client_idx - 1
        PROVE  client_fds'[i] = client_fds[i] /\ client_fds[i] # top
    BY <1>2, <1>3, ServerAssumption DEF StackInv, Shapes
  <2>2. ASSUME NEW i \in 0 .. client_idx, client_fds[i] # top
        PROVE  i \in 0 .. client_idx - 1
    BY <1>3, <2>2
  <2> HIDE DEF top
  <2> QED
    BY <1>2, <1>3, <2>1, <2>2 DEF OnStack
<1>10. OnStack(top)
  BY <1>3 DEF OnStack
<1>11. /\ \A v \in Worker \ {w} : \A c \in Conn : InService(v, c)' <=> InService(v, c)
       /\ \A c \in Conn : InService(w, c)' <=> c = top
       /\ \A c \in Conn : ~InService(w, c)
  BY <1>1, <1>2, <1>3 DEF InService, Shapes
<1> HIDE DEF top
<1>12. \A c \in Conn : WithWorker(c)' <=> WithWorker(c) \/ c = top
  BY <1>11 DEF WithWorker
<1>13. ~WithWorker(top) /\ ~WithMain(top) /\ top \notin served
  BY <1>4, <1>10 DEF PlaceInv
<1>14. PlaceInv'
  <2>1. \A c \in Conn : WithMain(c)' <=> WithMain(c)
    BY <1>1 DEF WithMain
  <2>2. ASSUME NEW u \in Worker, NEW v \in Worker, NEW c \in Conn,
               InService(u, c)', InService(v, c)'
        PROVE  u = v
    <3>1. CASE c = top
      BY <1>11, <1>13, <2>2, <3>1 DEF WithWorker
    <3>2. CASE c # top
      BY <1>11, <2>2, <3>2 DEF PlaceInv
    <3> QED BY <3>1, <3>2
  <2>3. ASSUME NEW c \in Conn
        PROVE  /\ c \in Accepted' <=> WithMain(c)' \/ OnStack(c)' \/ WithWorker(c)' \/ c \in served'
               /\ WithMain(c)' => ~OnStack(c)' /\ ~WithWorker(c)' /\ c \notin served'
               /\ OnStack(c)' => ~WithWorker(c)' /\ c \notin served'
               /\ WithWorker(c)' => c \notin served'
    BY <1>1, <1>9, <1>10, <1>12, <1>13, <2>1 DEF PlaceInv
  <2> QED BY <2>2, <2>3 DEF PlaceInv
<1> QED
  BY <1>1, <1>5, <1>6, <1>7, <1>8, <1>14

\* Reading, and writing something, leave the worker with its connection.
LEMMA CopyStep ==
  ASSUME ServerInv, NEW w \in Worker, Read(w) \/ (Write(w) /\ buf[w] # <<>>),
         UNCHANGED <<clientVars, listening, backlog, mainVars>>
  PROVE  ServerInv'
<1> USE DEF ServerInv
<1>1. /\ UNCHANGED <<client_fds, client_idx, served, fdsLock, fd>>
      /\ UNCHANGED <<cpc, quoteN, backlog, mpc, client_fd>>
      /\ ClientInv' /\ BacklogInv' /\ Accepted' = Accepted
  BY WorkerKeeps DEF Read, Write, stackVars
<1>2. /\ wpc[w] \in {"read", "write"}
      /\ \E l \in {"read", "write"} : wpc' = [wpc EXCEPT ![w] = l]
  BY DEF Read, Write
<1>3. Shapes'
  BY <1>1, <1>2 DEF Shapes
<1>4. LockInv' /\ StackInv' /\ HoldInv'
  BY <1>1, <1>2 DEF LockInv, StackInv, HoldInv, Shapes
<1>5. \A v \in Worker : \A c \in Conn : InService(v, c)' <=> InService(v, c)
  BY <1>1, <1>2 DEF InService, Shapes
<1>6. PlaceInv'
  BY <1>1, <1>5, PlacesKept DEF OnStack
<1> QED BY <1>1, <1>3, <1>4, <1>6

\* A worker that has read nothing closes its connection.
LEMMA CloseStep ==
  ASSUME ServerInv, NEW w \in Worker, Write(w), buf[w] = <<>>,
         UNCHANGED <<clientVars, listening, backlog, mainVars>>
  PROVE  ServerInv'
<1> USE DEF ServerInv
<1> DEFINE over == fd[w]
<1>1. /\ UNCHANGED <<client_fds, client_idx, fdsLock>>
      /\ UNCHANGED <<cpc, quoteN, backlog, mpc, client_fd>>
      /\ ClientInv' /\ BacklogInv' /\ Accepted' = Accepted
  BY WorkerKeeps DEF Write, stackVars
<1>2. /\ wpc[w] = "write" /\ wpc' = [wpc EXCEPT ![w] = "poll"]
      /\ fd' = [fd EXCEPT ![w] = NoFd]
      /\ served' = served \cup {over}
  BY DEF Write
<1>3. over \in Conn /\ InService(w, over)
  BY <1>2 DEF HoldInv, Shapes, InService
<1>4. Shapes'
  BY <1>1, <1>2, <1>3 DEF Shapes
<1>5. LockInv' /\ StackInv' /\ HoldInv'
  BY <1>1, <1>2 DEF LockInv, StackInv, HoldInv, Shapes
<1>6. /\ \A v \in Worker \ {w} : \A c \in Conn : InService(v, c)' <=> InService(v, c)
      /\ \A c \in Conn : ~InService(w, c)'
      /\ \A c \in Conn : InService(w, c) => c = over
  BY <1>2 DEF InService, Shapes
<1> HIDE DEF over
<1>7. \A v \in Worker \ {w} : ~InService(v, over)
  BY <1>3 DEF PlaceInv
<1>8. \A c \in Conn : WithWorker(c)' <=> WithWorker(c) /\ c # over
  BY <1>3, <1>6, <1>7 DEF WithWorker
<1>9. \A c \in Conn : (WithMain(c)' <=> WithMain(c)) /\ (OnStack(c)' <=> OnStack(c))
  BY <1>1 DEF WithMain, OnStack
<1>10. WithWorker(over)
  BY <1>3 DEF WithWorker
<1>11. \A u, v \in Worker : \A c \in Conn : InService(u, c)' /\ InService(v, c)' => u = v
  BY <1>6 DEF PlaceInv
<1>12. ASSUME NEW c \in Conn
       PROVE  /\ c \in Accepted' <=> WithMain(c)' \/ OnStack(c)' \/ WithWorker(c)' \/ c \in served'
              /\ WithMain(c)' => ~OnStack(c)' /\ ~WithWorker(c)' /\ c \notin served'
              /\ OnStack(c)' => ~WithWorker(c)' /\ c \notin served'
              /\ WithWorker(c)' => c \notin served'
  BY <1>1, <1>2, <1>8, <1>9, <1>10 DEF PlaceInv
<1>13. PlaceInv'
  BY <1>11, <1>12 DEF PlaceInv
<1> QED BY <1>1, <1>4, <1>5, <1>13

LEMMA WorkerStepServerInv ==
  ASSUME ServerInv, NEW w \in Worker, racey_worker(w)
  PROVE  ServerInv'
  BY TakeStep, PopStep, CopyStep, CloseStep DEF racey_worker
-----------------------------------------------------------------------------
\* Creating the workers and listening concern no connection.
LEMMA SetUpStep ==
  ASSUME ServerInv, CreateWorker \/ Listen, UNCHANGED clientVars
  PROVE  ServerInv'
<1> USE DEF ServerInv
<1>1. /\ UNCHANGED <<client_fds, client_idx, served, fdsLock, fd>>
      /\ UNCHANGED <<cpc, quoteN, backlog, client_fd>>
  BY DEF CreateWorker, Listen, stackVars, workerVars, clientVars
<1>2. /\ mpc \in {"create", "listen"}
      /\ mpc' \in {"create", "listen", "accept"}
  BY DEF CreateWorker, Listen
<1>3. \/ UNCHANGED wpc
      \/ \E w \in Worker : wpc[w] = "idle" /\ wpc' = [wpc EXCEPT ![w] = "spin"]
  <2>1. CASE CreateWorker
    <3>1. PICK w \in Worker :
            /\ \A v \in Worker : wpc[v] = "idle" <=> v >= w
            /\ wpc' = [wpc EXCEPT ![w] = "spin"]
      BY <2>1 DEF CreateWorker
    <3>2. w >= w
      BY DEF Worker
    <3> QED BY <3>1, <3>2
  <2>2. CASE Listen
    BY <2>2 DEF Listen, workerVars
  <2> QED BY <2>1, <2>2
<1>4. ClientInv' /\ BacklogInv' /\ Accepted' = Accepted
  BY <1>1 DEF ClientInv, BacklogInv, Accepted, Established
<1>5. Shapes'
  BY <1>1, <1>2, <1>3 DEF Shapes
<1>6. LockInv' /\ StackInv' /\ HoldInv'
  <2>1. \A v \in Worker : wpc'[v] \in {"clear", "read", "write"} \/ wpc[v] \in {"clear", "read", "write"}
                           => wpc'[v] = wpc[v]
    BY <1>3 DEF Shapes
  <2>2. LockInv'
    BY <1>1, <2>1 DEF LockInv
  <2>3. StackInv'
    BY <1>1 DEF StackInv
  <2>4. HoldInv'
    BY <1>1, <1>2, <2>1 DEF HoldInv
  <2> QED BY <2>2, <2>3, <2>4
<1>7. \A v \in Worker : \A c \in Conn : InService(v, c)' <=> InService(v, c)
  BY <1>1, <1>3 DEF InService, Shapes
<1>8. PlaceInv'
  BY <1>1, <1>4, <1>7, PlacesKept DEF OnStack
<1> QED BY <1>4, <1>5, <1>6, <1>8

\* accept() takes the connection that has waited longest.
LEMMA FirstIsAccepted ==
  ASSUME BacklogInv, UNCHANGED <<cpc, quoteN>>, NEW new, 1 \in DOMAIN backlog, new = backlog[1],
         \A i \in DOMAIN backlog' : i + 1 \in DOMAIN backlog /\ i + 1 # 1 /\ backlog'[i] = backlog[i + 1],
         \A i \in DOMAIN backlog : i # 1 => i - 1 \in DOMAIN backlog' /\ backlog'[i - 1] = backlog[i],
         DOMAIN backlog \subseteq Int /\ DOMAIN backlog' \subseteq Int
  PROVE  BacklogInv' /\ Accepted' = Accepted \cup {new} /\ new \notin Accepted
<1>1. Established' = Established
  BY DEF Established
<1>2. BacklogInv'
  <2>1. \A i \in DOMAIN backlog' : backlog'[i] \in Established
    BY DEF BacklogInv
  <2>2. ASSUME NEW i \in DOMAIN backlog', NEW j \in DOMAIN backlog', backlog'[i] = backlog'[j]
        PROVE  i = j
    <3>1. i + 1 = j + 1
      BY <2>2 DEF BacklogInv
    <3> QED BY <3>1
  <2> QED BY <1>1, <2>1, <2>2 DEF BacklogInv
<1>3. Accepted' = Accepted \cup {new} /\ new \notin Accepted
  <2>1. {backlog[i] : i \in DOMAIN backlog} = {backlog'[i] : i \in DOMAIN backlog'} \cup {new}
    OBVIOUS
  <2>2. new \in Established
    BY DEF BacklogInv
  <2>3. new \notin {backlog'[i] : i \in DOMAIN backlog'}
    BY DEF BacklogInv
  <2> QED BY <1>1, <2>1, <2>2, <2>3 DEF Accepted
<1> QED BY <1>2, <1>3

LEMMA AcceptMoves ==
  ASSUME backlog \in Seq(Conn), BacklogInv, backlog # <<>>, backlog' = Tail(backlog),
         UNCHANGED <<cpc, quoteN>>
  PROVE  /\ backlog' \in Seq(Conn) /\ Head(backlog) \in Conn /\ BacklogInv'
         /\ Accepted' = Accepted \cup {Head(backlog)} /\ Head(backlog) \notin Accepted
<1> DEFINE new == Head(backlog)
<1>1. /\ backlog' \in Seq(Conn) /\ new \in Conn
      /\ 1 \in DOMAIN backlog /\ new = backlog[1]
      /\ \A i \in DOMAIN backlog' : i + 1 \in DOMAIN backlog /\ i + 1 # 1 /\ backlog'[i] = backlog[i + 1]
      /\ \A i \in DOMAIN backlog : i # 1 => i - 1 \in DOMAIN backlog' /\ backlog'[i - 1] = backlog[i]
      /\ DOMAIN backlog \subseteq Int /\ DOMAIN backlog' \subseteq Int
  OBVIOUS
<1> HIDE DEF new
<1>2. BacklogInv' /\ Accepted' = Accepted \cup {new} /\ new \notin Accepted
  BY <1>1, FirstIsAccepted, Zenon
<1> QED BY <1>1, <1>2 DEF new

\* It is main()'s then.
LEMMA AcceptStep ==
  ASSUME ServerInv, Accept, UNCHANGED clientVars
  PROVE  ServerInv'
<1> USE DEF ServerInv
<1> DEFINE new == Head(backlog)
<1>1. /\ UNCHANGED <<client_fds, client_idx, served, fdsLock, fd, wpc, cpc, quoteN>>
      /\ mpc = "accept" /\ mpc' = "push"
      /\ client_fd' = new /\ backlog' = Tail(backlog) /\ backlog # <<>>
  BY DEF Accept, stackVars, workerVars, clientVars
<1>2. backlog \in Seq(Conn)
  BY DEF Shapes
<1>3. /\ backlog' \in Seq(Conn) /\ new \in Conn /\ BacklogInv'
      /\ Accepted' = Accepted \cup {new} /\ new \notin Accepted
  BY <1>1, <1>2, AcceptMoves
<1> HIDE DEF new
<1>4. ClientInv'
  BY <1>1 DEF ClientInv
<1>5. BacklogInv'
  BY <1>3
<1>6. Accepted' = Accepted \cup {new} /\ new \notin Accepted
  BY <1>3
<1>7. Shapes'
  BY <1>1, <1>3 DEF Shapes
<1>8. LockInv' /\ StackInv'
  BY <1>1 DEF LockInv, StackInv
<1>9. HoldInv'
  BY <1>1, <1>3, NoFdIsNoConn DEF HoldInv
<1>10. /\ \A w \in Worker : \A c \in Conn : InService(w, c)' <=> InService(w, c)
       /\ \A c \in Conn : OnStack(c)' <=> OnStack(c)
  BY <1>1 DEF InService, OnStack
<1>11. \A c \in Conn : WithWorker(c)' <=> WithWorker(c)
  BY <1>10 DEF WithWorker
<1>12. \A c \in Conn : ~WithMain(c) /\ (WithMain(c)' <=> c = new)
  BY <1>1, NoFdIsNoConn DEF WithMain, HoldInv
<1>13. \A u, v \in Worker : \A c \in Conn : InService(u, c)' /\ InService(v, c)' => u = v
  BY <1>10 DEF PlaceInv
<1>14. ASSUME NEW c \in Conn
       PROVE  /\ c \in Accepted' <=> WithMain(c)' \/ OnStack(c)' \/ WithWorker(c)' \/ c \in served'
              /\ WithMain(c)' => ~OnStack(c)' /\ ~WithWorker(c)' /\ c \notin served'
              /\ OnStack(c)' => ~WithWorker(c)' /\ c \notin served'
              /\ WithWorker(c)' => c \notin served'
  BY <1>1, <1>6, <1>10, <1>11, <1>12 DEF PlaceInv
<1>15. PlaceInv'
  BY <1>13, <1>14 DEF PlaceInv
<1> QED BY <1>4, <1>5, <1>7, <1>8, <1>9, <1>15

\* main() pushes its connection; nobody is in the middle of taking another.
LEMMA PushStep ==
  ASSUME ServerInv, Push, UNCHANGED clientVars
  PROVE  ServerInv'
<1> USE DEF ServerInv
<1>1. /\ UNCHANGED <<served, fdsLock, fd, wpc, cpc, quoteN, backlog>>
      /\ mpc = "push" /\ mpc' = "accept" /\ fdsLock = Free
      /\ client_idx < Slots /\ client_idx' = client_idx + 1
      /\ client_fds' = [client_fds EXCEPT ![client_idx + 1] = client_fd]
      /\ client_fd' = NoFd
  BY DEF Push, workerVars, clientVars
<1>2. client_fd \in Conn /\ client_fd # NoFd
  BY <1>1 DEF HoldInv, Shapes
<1>3. client_idx + 1 \in 0 .. Slots /\ client_idx + 1 \in -1 .. Slots
  BY <1>1, ServerAssumption DEF Shapes
<1>4. ClientInv' /\ BacklogInv' /\ Accepted' = Accepted
  BY <1>1 DEF ClientInv, BacklogInv, Accepted, Established
<1>5. Shapes'
  BY <1>1, <1>2, <1>3 DEF Shapes
<1>6. LockInv'
  <2>1. \A w \in Worker : wpc[w] # "clear"
    BY <1>1 DEF LockInv, Worker, Free
  <2> QED BY <1>1, <2>1 DEF LockInv
<1>7. WithMain(client_fd)
  BY DEF WithMain
<1>8. ~OnStack(client_fd) /\ ~WithWorker(client_fd) /\ client_fd \notin served
  BY <1>2, <1>7 DEF PlaceInv
<1>9. \A i \in -1 .. Slots : i # client_idx + 1 => client_fds'[i] = client_fds[i]
  BY <1>1, <1>3 DEF Shapes
<1>10. client_fds'[client_idx + 1] = client_fd
  BY <1>1, <1>3 DEF Shapes
<1>11. StackInv'
  <2>1. ASSUME NEW i \in -1 .. Slots
        PROVE  client_fds'[i] # NoFd <=> 0 <= i /\ i <= client_idx'
    <3>1. CASE i = client_idx + 1
      BY <1>1, <1>2, <1>3, <1>10, <3>1
    <3>2. CASE i # client_idx + 1
      <4>1. client_fds[i] # NoFd <=> 0 <= i /\ i <= client_idx
        BY DEF StackInv
      <4>2. client_idx \in Int
        BY DEF Shapes
      <4> QED BY <1>1, <1>9, <3>2, <4>1, <4>2
    <3> QED BY <3>1, <3>2
  <2>2. ASSUME NEW i \in 0 .. client_idx', NEW j \in 0 .. client_idx',
               client_fds'[i] = client_fds'[j]
        PROVE  i = j
    <3>1. \A n \in 0 .. client_idx' : n # client_idx + 1 =>
            n \in 0 .. client_idx /\ n \in -1 .. Slots /\ client_fds'[n] = client_fds[n]
      <4>1. \A n \in 0 .. client_idx' : n # client_idx + 1 => n \in 0 .. client_idx /\ n \in -1 .. Slots
        BY <1>1, <1>3, ServerAssumption DEF Shapes
      <4> QED BY <1>9, <4>1
    <3>2. \A n \in 0 .. client_idx : client_fds[n] # client_fd
      BY <1>8 DEF OnStack
    <3>3. CASE i = client_idx + 1 \/ j = client_idx + 1
      BY <1>10, <2>2, <3>1, <3>2, <3>3
    <3>4. CASE i # client_idx + 1 /\ j # client_idx + 1
      BY <2>2, <3>1, <3>4 DEF StackInv
    <3> QED BY <3>3, <3>4
  <2> QED BY <2>1, <2>2 DEF StackInv
<1>12. HoldInv'
  BY <1>1 DEF HoldInv
<1>13. ASSUME NEW c \in Conn
       PROVE  OnStack(c)' <=> OnStack(c) \/ c = client_fd
  <2>1. client_idx \in Int /\ client_idx <= Slots
    BY <1>1, ServerAssumption DEF Shapes
  <2>2. \A n \in 0 .. client_idx : client_fds'[n] = client_fds[n] /\ n \in 0 .. client_idx'
    BY <1>1, <1>9, <2>1, ServerAssumption
  <2>3. \A n \in 0 .. client_idx' : n \in 0 .. client_idx \/ n = client_idx + 1
    BY <1>1, <2>1
  <2>4. client_idx + 1 \in 0 .. client_idx'
    BY <1>1, <1>3
  <2> QED
    BY <1>10, <2>2, <2>3, <2>4 DEF OnStack
<1>14. \A w \in Worker : \A c \in Conn : InService(w, c)' <=> InService(w, c)
  BY <1>1 DEF InService
<1>15. \A c \in Conn : WithWorker(c)' <=> WithWorker(c)
  BY <1>14 DEF WithWorker
<1>16. \A c \in Conn : (WithMain(c) <=> c = client_fd) /\ ~WithMain(c)'
  BY <1>1, NoFdIsNoConn DEF WithMain
<1>17. \A u, v \in Worker : \A c \in Conn : InService(u, c)' /\ InService(v, c)' => u = v
  BY <1>14 DEF PlaceInv
<1>18. ASSUME NEW c \in Conn
       PROVE  /\ c \in Accepted' <=> WithMain(c)' \/ OnStack(c)' \/ WithWorker(c)' \/ c \in served'
              /\ WithMain(c)' => ~OnStack(c)' /\ ~WithWorker(c)' /\ c \notin served'
              /\ OnStack(c)' => ~WithWorker(c)' /\ c \notin served'
              /\ WithWorker(c)' => c \notin served'
  BY <1>1, <1>4, <1>8, <1>13, <1>15, <1>16 DEF PlaceInv
<1>19. PlaceInv'
  BY <1>17, <1>18 DEF PlaceInv
<1> QED BY <1>4, <1>5, <1>6, <1>11, <1>12, <1>19

LEMMA MainStepServerInv ==
  ASSUME ServerInv, main
  PROVE  ServerInv'
  BY SetUpStep, AcceptStep, PushStep DEF main
-----------------------------------------------------------------------------
\* At first no connection is anywhere.
LEMMA InitTcpInv == TcpInit => TcpInv
<1> SUFFICES ASSUME TcpInit PROVE ServerInv /\ mpc = "create"
  BY DEF TcpInit, TcpInv
<1> USE DEF TcpInit, ClientInit, ServerInit
<1>1. Shapes
  BY ClientAssumption, ServerAssumption DEF Shapes
<1>2. Established = {} /\ Accepted = {}
  BY DEF Established, Accepted, Conn
<1>3. ClientInv /\ BacklogInv
  BY ClientAssumption DEF ClientInv, BacklogInv
<1>4. LockInv /\ StackInv /\ HoldInv
  BY ServerAssumption DEF LockInv, StackInv, HoldInv, Worker, Free
<1>5. \A c \in Conn : ~WithMain(c) /\ ~OnStack(c) /\ c \notin served
  BY NoFdIsNoConn DEF WithMain, OnStack
<1>6. \A w \in Worker : \A c \in Conn : ~InService(w, c)
  BY DEF InService
<1>7. PlaceInv
  BY <1>2, <1>5, <1>6 DEF PlaceInv, WithWorker
<1> QED
  BY <1>1, <1>3, <1>4, <1>7 DEF ServerInv

\* A step is one of the threaded server, of the epoll server, of the client, or
\* changes nothing.
LEMMA TcpStepCases ==
  ASSUME [TcpNext]_tcpVars
  PROVE  \/ Threads(main) \/ \E w \in Worker : Threads(racey_worker(w))
         \/ Epoll(EpollServer)
         \/ Client(Lose \/ \E t \in ClientThread : ClientWorker(t, ListenBacklog))
         \/ UNCHANGED tcpVars
<1>1. UNCHANGED vars /\ UNCHANGED <<epollVars, server>> => UNCHANGED tcpVars
  BY DEF vars, tcpVars, networkVars
<1> QED
  BY <1>1 DEF TcpNext, Client, Polling, Corrupted, Idle

\* The inductive invariant of the threaded server: lock, stack, workers, places.
THEOREM TcpInvariant == TcpSpec => []TcpInv
<1>1. ASSUME TcpInv, [TcpNext]_tcpVars
      PROVE  TcpInv'
  <2>1. CASE Threads(main)
    BY <1>1, <2>1, MainStepServerInv DEF Threads, TcpInv
  <2>2. ASSUME NEW w \in Worker, Threads(racey_worker(w))
        PROVE  TcpInv'
    BY <1>1, <2>2, WorkerStepServerInv DEF Threads, TcpInv
  <2>3. CASE Epoll(EpollServer)
    BY <1>1, <2>3 DEF Epoll, TcpInv, serverVars, mainVars
  <2>4. CASE Client(Lose \/ \E t \in ClientThread : ClientWorker(t, ListenBacklog))
    <3>1. UNCHANGED <<server, mpc, corrupt, serverVars>> /\ ~corrupt
      BY <2>4 DEF Client, serverVars, mainVars
    <3>2. ServerInv => ServerInv'
      BY <2>4, <3>1, ClientStepServerInv DEF Client
    <3> QED BY <1>1, <3>1, <3>2 DEF TcpInv
  <2>5. CASE UNCHANGED tcpVars
    <3>1. UNCHANGED <<server, mpc, corrupt, serverVars, cpc, quoteN, backlog>>
      BY <2>5 DEF tcpVars, serverVars, mainVars, clientVars, networkVars
    <3>2. ServerInv => ServerInv'
      BY <3>1 DEF ServerInv, Shapes, ClientInv, BacklogInv, LockInv, StackInv, HoldInv,
         PlaceInv, Accepted, Established, WithMain, OnStack, InService, WithWorker,
         serverVars, stackVars, workerVars, mainVars
    <3> QED BY <1>1, <3>1, <3>2 DEF TcpInv
  <2> QED
    BY <1>1, <2>1, <2>2, <2>3, <2>4, <2>5, TcpStepCases
<1> QED
  BY <1>1, InitTcpInv, PTL DEF TcpSpec

\* The stack of racey-tcp-server.c is what main() and its workers take it for:
\* no accepted connection is lost, waits twice, or is served by two workers
\* (:36-50, :154-161), as long as the store past the end has not overwritten
\* client_idx.
THEOREM StackIsSound == TcpSpec => []EachInOnePlace
  BY TcpInvariant, TcpInvImplies, PTL
-----------------------------------------------------------------------------
\* What is written, for either server.  The first m pieces of a connection, and
\* the k pieces after them.
Upto(m) == [i \in 1 .. m |-> i]
After(m, k) == [i \in 1 .. k |-> m + i]

\* A quote has been written, in some number of pieces, before its connection is
\* closed, and is written once.
QuoteInv ==
  /\ ClientTypeOK /\ backlog \in Seq(Conn)
  /\ \A t \in ClientThread : cpc[t] # "over" => quoteN[t] <= Quotes
  /\ \A t \in ClientThread : cpc[t] = "close" => sent[Current(t)] > 0
  /\ \A c \in Conn : sent[c] > 0 => c[2] < quoteN[c[1]] \/ (c[2] = quoteN[c[1]] /\ cpc[c[1]] = "close")
  /\ \A c \in closed : c[2] < quoteN[c[1]] /\ sent[c] > 0
  /\ \A c \in Conn : received[c] <= sent[c]

\* Worker w has read what it still has to write.
Writing(w, c) == fd[w] = c /\ wpc[w] = "write"

\* The file has the first m pieces of c; the rest of what has been read is what w
\* is about to write, nothing at the end only.
Half(w, c) ==
  \E m \in 0 .. received[c] :
    /\ output[c] = Upto(m) /\ buf[w] = After(m, received[c] - m)
    /\ m = received[c] => AtEnd(c)

\* The file has what has been read, but for what a worker is about to write; a
\* connection is closed at its end.
CopyInv ==
  /\ buf \in [Worker -> Seq(Nat)] /\ output \in [Conn -> Seq(Nat)]
  /\ \A c \in Conn : (\A w \in Worker : ~Writing(w, c)) => output[c] = Upto(received[c])
  /\ \A w \in Worker : \A c \in Conn : Writing(w, c) => Half(w, c)
  /\ \A c \in served : AtEnd(c) /\ \A w \in Worker : ~Writing(w, c)

\* Events are about the listening socket, while a connection waits, or about a
\* connection, and an error is a lost connection; of a connection taken out of
\* the epoll set something has been read.
EventInv ==
  /\ EpollTypeOK /\ output \in [Conn -> Seq(Nat)]
  /\ \A c \in Conn : output[c] = Upto(received[c])
  /\ \A e \in events :
       \/ e = <<ListenSocket, FALSE>> /\ backlog # <<>>
       \/ e[1] \in Conn /\ (e[2] => e[1] \in lost)
  /\ epc \in {"start", "wait"} => events = {}
  /\ \A c \in done \ lost : received[c] > 0

\* The server that does not run stays as it was at the start.
QuotesInv ==
  /\ QuoteInv /\ TypeOK
  /\ \/ server = "threads" /\ CopyInv /\ EpollTypeOK /\ done = {}
     \/ server = "epoll" /\ EventInv /\ served = {} /\ ~corrupt
-----------------------------------------------------------------------------
\* Pieces written one after the other.
LEMMA UptoAndAfter ==
  ASSUME NEW m \in Nat, NEW k \in Nat
  PROVE  /\ Upto(m) \in Seq(Nat) /\ After(m, k) \in Seq(Nat)
         /\ Len(Upto(m)) = m /\ Len(After(m, k)) = k
         /\ Upto(m) \o After(m, k) = Upto(m + k)
         /\ After(m, k) = <<>> <=> k = 0
<1>1. Upto(m) \in Seq(Nat) /\ Len(Upto(m)) = m
  BY DEF Upto
<1>2. After(m, k) \in Seq(Nat) /\ Len(After(m, k)) = k
  BY DEF After
<1> DEFINE s == Upto(m) \o After(m, k)
           t == Upto(m + k)
<1>3. t \in Seq(Nat) /\ Len(t) = m + k
  BY DEF Upto
<1>4. s \in Seq(Nat) /\ Len(s) = m + k
  BY <1>1, <1>2
<1>5. ASSUME NEW j \in 1 .. m + k
      PROVE  s[j] = t[j]
  <2>1. t[j] = j
    BY DEF Upto
  <2>2. s[j] = IF j <= Len(Upto(m)) THEN Upto(m)[j] ELSE After(m, k)[j - Len(Upto(m))]
    BY <1>1, <1>2, ConcatProperties
  <2>3. CASE j <= m
    <3>1. s[j] = Upto(m)[j] /\ j \in 1 .. m
      BY <1>1, <2>2, <2>3
    <3> QED BY <2>1, <3>1 DEF Upto
  <2>4. CASE j > m
    <3>1. s[j] = After(m, k)[j - m]
      BY <1>1, <2>2, <2>4
    <3>2. j - m \in 1 .. k
      BY <2>4
    <3>3. After(m, k)[j - m] = m + (j - m)
      BY <3>2 DEF After
    <3>4. m + (j - m) = j
      OBVIOUS
    <3> QED BY <2>1, <3>1, <3>3, <3>4, Zenon
  <2>5. j <= m \/ j > m
    OBVIOUS
  <2> QED BY <2>3, <2>4, <2>5, Zenon
<1> HIDE DEF s, t
<1>6. Len(s) = Len(t) /\ \A j \in 1 .. Len(s) : s[j] = t[j]
  BY <1>3, <1>4, <1>5
<1>7. s = t
  BY <1>3, <1>4, <1>6, SeqEqual
<1>8. Upto(m) \o After(m, k) = Upto(m + k)
  BY <1>7 DEF s, t
<1>9. After(m, k) = <<>> <=> k = 0
  BY <1>2
<1> QED BY <1>1, <1>2, <1>8, <1>9

LEMMA NextPiecesAre ==
  ASSUME NEW c, NEW pieces \in NextPieces(c), received[c] \in Nat, sent[c] \in Nat
  PROVE  \E k \in 1 .. sent[c] - received[c] :
           pieces = After(received[c], k) /\ Len(pieces) = k
<1>1. PICK k \in 1 .. sent[c] - received[c] : pieces = After(received[c], k)
  BY DEF NextPieces, After
<1>2. k \in Nat
  OBVIOUS
<1>3. Len(After(received[c], k)) = k
  BY <1>2, UptoAndAfter
<1> QED BY <1>1, <1>3
-----------------------------------------------------------------------------
\* What the proofs use of a step of the client: what is at its end stays so, and
\* nothing that waits or is lost is taken back.
Onward ==
  /\ UNCHANGED <<received, output>>
  /\ \A c \in Conn : AtEnd(c) => AtEnd(c)'
  /\ lost \subseteq lost'
  /\ backlog # <<>> => backlog' # <<>>

LEMMA ConnectOnward ==
  ASSUME QuoteInv, NEW t \in ClientThread, NEW Backlog, Connect(t, Backlog)
  PROVE  QuoteInv' /\ Onward
<1> USE DEF QuoteInv
<1>1. /\ cpc[t] = "connect"
      /\ cpc' = [cpc EXCEPT ![t] = "write"] \/ cpc' = [cpc EXCEPT ![t] = "over"]
      /\ backlog' = backlog \/ backlog' = Append(backlog, Current(t))
      /\ UNCHANGED <<quoteN, listening, sent, closed, lost, received, output>>
  BY DEF Connect
<1>2. Current(t) \in Conn
  BY <1>1 DEF ClientTypeOK, Current, Conn
<1>3. backlog' \in Seq(Conn) /\ (backlog # <<>> => backlog' # <<>>)
  BY <1>1, <1>2
<1>4. \A u \in ClientThread :
        /\ cpc'[u] \in {"connect", "write", "close", "over"}
        /\ cpc'[u] # "over" => cpc[u] # "over"
        /\ cpc'[u] = "close" <=> cpc[u] = "close"
        /\ Current(u)' = Current(u)
  BY <1>1 DEF ClientTypeOK, Current
<1>5. cpc' \in [ClientThread -> {"connect", "write", "close", "over"}]
  BY <1>1 DEF ClientTypeOK
<1>6. \A i \in DOMAIN backlog' : backlog'[i] \in Conn
  BY <1>3
<1>7. ClientTypeOK'
  BY <1>1, <1>5, <1>6 DEF ClientTypeOK
<1>8. \A c \in Conn : c[1] \in ClientThread
  BY DEF Conn
<1>9. QuoteInv'
  BY <1>1, <1>3, <1>4, <1>7, <1>8
<1> QED
  BY <1>1, <1>3, <1>9 DEF Onward, AtEnd

LEMMA WriteOnward ==
  ASSUME QuoteInv, NEW t \in ClientThread, WriteQuote(t)
  PROVE  QuoteInv' /\ Onward
<1> USE DEF QuoteInv
<1> DEFINE d == Current(t)
<1>1. /\ cpc[t] = "write" /\ cpc' = [cpc EXCEPT ![t] = "close"]
      /\ UNCHANGED <<quoteN, listening, backlog, closed, lost, received, output>>
  BY DEF WriteQuote
<1>2. PICK k \in 1 .. Pieces : sent' = [sent EXCEPT ![d] = k]
  <2> HIDE DEF d
  <2>1. PICK k \in 1 .. IF t \in SplitThread THEN Pieces ELSE 1 : sent' = [sent EXCEPT ![d] = k]
    BY DEF WriteQuote, d
  <2>2. k \in 1 .. Pieces
    BY ClientAssumption
  <2> QED BY <2>1, <2>2
<1>3. d \in Conn /\ d[1] = t /\ d[2] = quoteN[t] /\ quoteN[t] \in Int
  BY <1>1 DEF ClientTypeOK, Current, Conn
<1>4. \A c \in Conn : c[1] \in ClientThread /\ c[2] \in Int /\ (c[1] = t /\ c[2] = quoteN[t] => c = d)
  BY DEF Conn, Current
<1>5. sent[d] = 0 /\ received[d] = 0
  <2> HIDE DEF d
  <2>1. ~(sent[d] > 0) /\ received[d] <= sent[d] /\ sent[d] \in Nat /\ received[d] \in Nat
    BY <1>1, <1>3 DEF ClientTypeOK
  <2> QED BY <2>1
<1>6. d \notin closed
  BY <1>3
<1>7. \A u \in ClientThread : Current(u)' = Current(u)
  BY <1>1 DEF Current
<1> HIDE DEF d
<1>8. sent' \in [Conn -> 0 .. Pieces] /\ sent'[d] = k /\ \A c \in Conn : c # d => sent'[c] = sent[c]
  BY <1>2, <1>3 DEF ClientTypeOK
<1>9. ClientTypeOK'
  BY <1>1, <1>8 DEF ClientTypeOK
<1>10. \A u \in ClientThread : cpc'[u] = IF u = t THEN "close" ELSE cpc[u]
  BY <1>1 DEF ClientTypeOK
<1>11. \A u \in ClientThread : cpc'[u] # "over" => quoteN'[u] <= Quotes
  BY <1>1, <1>10
<1>12. \A u \in ClientThread : cpc'[u] = "close" => sent'[Current(u)'] > 0
  <2> SUFFICES ASSUME NEW u \in ClientThread, cpc'[u] = "close" PROVE sent'[Current(u)] > 0
    BY <1>7
  <2>1. CASE u = t
    BY <1>2, <1>8, <2>1 DEF d
  <2>2. CASE u # t
    <3>1. sent[Current(u)] > 0
      BY <1>10, <2>2
    <3>2. Current(u) \in Conn /\ Current(u) # d
      BY <1>10, <2>2 DEF ClientTypeOK, Current, Conn, d
    <3> QED BY <1>8, <3>1, <3>2
  <2> QED BY <2>1, <2>2
<1>13. ASSUME NEW c \in Conn
       PROVE  /\ sent'[c] > 0 => c[2] < quoteN'[c[1]] \/ (c[2] = quoteN'[c[1]] /\ cpc'[c[1]] = "close")
              /\ received'[c] <= sent'[c]
  <2>1. CASE c = d
    BY <1>1, <1>2, <1>3, <1>5, <1>8, <1>10, <2>1
  <2>2. CASE c # d
    BY <1>1, <1>4, <1>8, <1>10, <2>2
  <2> QED BY <2>1, <2>2
<1>14. \A c \in closed' : c[2] < quoteN'[c[1]] /\ sent'[c] > 0
  BY <1>1, <1>6, <1>8 DEF ClientTypeOK
<1>15. QuoteInv'
  BY <1>1, <1>9, <1>11, <1>12, <1>13, <1>14
<1>16. \A c \in Conn : AtEnd(c) => AtEnd(c)'
  BY <1>1, <1>6, <1>8 DEF AtEnd
<1> QED BY <1>1, <1>15, <1>16 DEF Onward

LEMMA CloseOnward ==
  ASSUME QuoteInv, NEW t \in ClientThread, CloseConnection(t)
  PROVE  QuoteInv' /\ Onward
<1> USE DEF QuoteInv
<1> DEFINE d == Current(t)
<1>1. /\ cpc[t] = "close" /\ closed' = closed \cup {d}
      /\ quoteN' = [quoteN EXCEPT ![t] = quoteN[t] + 1]
      /\ cpc' = [cpc EXCEPT ![t] = IF quoteN[t] < Quotes THEN "connect" ELSE "over"]
      /\ UNCHANGED <<listening, backlog, sent, lost, received, output>>
  BY DEF CloseConnection, ClientTypeOK
<1>2. /\ d \in Conn /\ d[1] = t /\ d[2] = quoteN[t] /\ sent[d] > 0
      /\ quoteN[t] \in 1 .. Quotes
  BY <1>1 DEF ClientTypeOK, Current, Conn
<1> HIDE DEF d
<1>3. \A c \in Conn : c[1] \in ClientThread /\ c[2] \in Int
  BY DEF Conn
<1>4. \A u \in ClientThread :
        /\ quoteN[u] \in Int /\ quoteN'[u] = IF u = t THEN quoteN[t] + 1 ELSE quoteN[u]
        /\ cpc'[u] = IF u = t THEN IF quoteN[t] < Quotes THEN "connect" ELSE "over" ELSE cpc[u]
  BY <1>1 DEF ClientTypeOK
<1>5. ClientTypeOK'
  <2>1. quoteN' \in [ClientThread -> 1 .. Quotes + 1]
    BY <1>1, <1>2, ClientAssumption DEF ClientTypeOK
  <2>2. cpc' \in [ClientThread -> {"connect", "write", "close", "over"}]
    BY <1>1 DEF ClientTypeOK
  <2> QED BY <1>1, <1>2, <2>1, <2>2 DEF ClientTypeOK
<1>6. \A u \in ClientThread : cpc'[u] # "over" => quoteN'[u] <= Quotes
  BY <1>2, <1>4, ClientAssumption
<1>7. \A u \in ClientThread : cpc'[u] = "close" => sent'[Current(u)'] > 0
  BY <1>1, <1>4 DEF Current
<1>8. \A c \in Conn : sent'[c] > 0 => c[2] < quoteN'[c[1]] \/ (c[2] = quoteN'[c[1]] /\ cpc'[c[1]] = "close")
  <2> SUFFICES ASSUME NEW c \in Conn, sent[c] > 0
               PROVE  c[2] < quoteN'[c[1]] \/ (c[2] = quoteN'[c[1]] /\ cpc'[c[1]] = "close")
    BY <1>1
  <2>1. c[2] < quoteN[c[1]] \/ (c[2] = quoteN[c[1]] /\ cpc[c[1]] = "close")
    OBVIOUS
  <2> QED BY <1>3, <1>4, <2>1
<1>9. \A c \in closed' : c[2] < quoteN'[c[1]] /\ sent'[c] > 0
  <2> SUFFICES ASSUME NEW c \in closed' PROVE c[2] < quoteN'[c[1]] /\ sent[c] > 0
    BY <1>1
  <2>1. c \in Conn /\ c[2] <= quoteN[c[1]] /\ sent[c] > 0 /\ (c[1] = t \/ c[2] < quoteN[c[1]])
    BY <1>1, <1>2, <1>3, <1>4 DEF ClientTypeOK
  <2> QED BY <1>3, <1>4, <2>1
<1>10. QuoteInv'
  BY <1>1, <1>5, <1>6, <1>7, <1>8, <1>9
<1> QED BY <1>1, <1>10 DEF Onward, AtEnd

LEMMA ClientOnward ==
  ASSUME QuoteInv, Lose \/ \E t \in ClientThread : ClientWorker(t, ListenBacklog)
  PROVE  QuoteInv' /\ Onward
<1>1. CASE Lose
  <2>1. /\ UNCHANGED <<cpc, quoteN, listening, backlog, sent, closed, received, output>>
        /\ lost \subseteq lost' /\ lost' \subseteq lost \cup Conn
    BY <1>1 DEF Lose, Established
  <2>2. QuoteInv'
    BY <2>1 DEF QuoteInv, ClientTypeOK, Current
  <2> QED BY <2>1, <2>2 DEF Onward, AtEnd
<1> QED
  BY <1>1, ConnectOnward, WriteOnward, CloseOnward DEF ClientWorker
-----------------------------------------------------------------------------
\* A step that reads and writes nothing and moves no worker to or from a write.
LEMMA CopyKept ==
  ASSUME CopyInv, UNCHANGED <<received, output, buf, served>>,
         \A c \in Conn : AtEnd(c) => AtEnd(c)',
         \A w \in Worker : \A c \in Conn : Writing(w, c)' <=> Writing(w, c),
         served \subseteq Conn
  PROVE  CopyInv'
<1>1. \A w \in Worker : \A c \in Conn : Writing(w, c) => Half(w, c)'
  BY DEF CopyInv, Half
<1>2. \A c \in Conn : (\A w \in Worker : ~Writing(w, c)) => output'[c] = Upto(received'[c])
  BY DEF CopyInv
<1>3. \A c \in served : AtEnd(c)' /\ \A w \in Worker : ~Writing(w, c)'
  BY DEF CopyInv
<1> QED
  BY <1>1, <1>2, <1>3 DEF CopyInv

LEMMA QuoteKept ==
  ASSUME QuoteInv, UNCHANGED <<clientVars, backlog, received>>, listening' \in BOOLEAN
  PROVE  QuoteInv'
  BY DEF QuoteInv, ClientTypeOK, clientVars, Current

LEMMA OthersCopy ==
  ASSUME QuoteInv, CopyInv, NEW w \in Worker, LeaveSpin(w) \/ Take(w) \/ Pop(w), Shapes,
         UNCHANGED <<clientVars, listening, backlog, mainVars>>
  PROVE  QuoteInv' /\ CopyInv'
<1>1. /\ UNCHANGED <<cpc, quoteN, sent, closed, lost, backlog, received, output, buf, served>>
      /\ listening' = listening
  BY DEF LeaveSpin, Take, Pop, clientVars
<1>2. QuoteInv'
  BY <1>1, QuoteKept DEF QuoteInv, ClientTypeOK, clientVars
<1>3. /\ wpc[w] # "write" /\ \E l \in {"poll", "clear", "read"} : wpc' = [wpc EXCEPT ![w] = l]
      /\ fd' = fd \/ \E c : fd' = [fd EXCEPT ![w] = c]
  BY DEF LeaveSpin, Take, Pop
<1>4. \A v \in Worker : \A c \in Conn : Writing(v, c)' <=> Writing(v, c)
  BY <1>3 DEF Writing, Shapes
<1>5. \A c \in Conn : AtEnd(c)' <=> AtEnd(c)
  BY <1>1 DEF AtEnd
<1> QED
  BY <1>1, <1>2, <1>4, <1>5, CopyKept DEF Shapes

\* A worker that reads finds the file up to date for its connection, and what it
\* has read comes next.
LEMMA ReadCopies ==
  ASSUME QuoteInv, CopyInv, ServerInv, NEW w \in Worker, Read(w),
         UNCHANGED <<clientVars, listening, backlog, mainVars>>
  PROVE  QuoteInv' /\ CopyInv'
<1>1. /\ wpc[w] = "read" /\ wpc' = [wpc EXCEPT ![w] = "write"]
      /\ UNCHANGED <<fd, served, output, cpc, quoteN, sent, closed, lost, listening, backlog>>
  BY DEF Read, clientVars
<1>2. PICK c \in Conn : c = fd[w] /\ InService(w, c)
  BY <1>1 DEF ServerInv, HoldInv, Shapes, InService
<1>3. received[c] \in Nat /\ sent[c] \in Nat /\ received[c] <= sent[c]
  BY <1>2 DEF QuoteInv, ClientTypeOK
<1>4. \A v \in Worker : ~Writing(v, c)
  <2>1. \A v \in Worker : InService(v, c) => v = w
    BY <1>2 DEF ServerInv, PlaceInv
  <2> QED BY <1>1, <2>1 DEF Writing, InService
<1>5. c \notin served
  BY <1>2 DEF ServerInv, PlaceInv, WithWorker
<1>6. output[c] = Upto(received[c])
  BY <1>2, <1>4 DEF CopyInv
<1>7. \E k \in 0 .. sent[c] - received[c] :
        /\ received' = [received EXCEPT ![c] = received[c] + k]
        /\ buf' = [buf EXCEPT ![w] = After(received[c], k)]
        /\ k = 0 => AtEnd(c)
  <2>1. CASE \E pieces \in NextPieces(c) :
               /\ buf' = [buf EXCEPT ![w] = pieces]
               /\ received' = [received EXCEPT ![c] = @ + Len(pieces)]
    <3>1. PICK pieces \in NextPieces(c) :
               /\ buf' = [buf EXCEPT ![w] = pieces]
               /\ received' = [received EXCEPT ![c] = received[c] + Len(pieces)]
      BY <1>2, <2>1 DEF QuoteInv, ClientTypeOK
    <3>2. PICK k \in 1 .. sent[c] - received[c] : pieces = After(received[c], k) /\ Len(pieces) = k
      BY <1>3, NextPiecesAre
    <3>3. k \in 0 .. sent[c] - received[c] /\ k # 0
      BY <1>3
    <3> QED BY <3>1, <3>2, <3>3, Zenon
  <2>2. CASE AtEnd(c) /\ buf' = [buf EXCEPT ![w] = <<>>] /\ UNCHANGED received
    <3>1. received[c] + 0 = received[c] /\ 0 \in 0 .. sent[c] - received[c]
      BY <1>3
    <3>2. received' = [received EXCEPT ![c] = received[c]]
      BY <2>2 DEF QuoteInv, ClientTypeOK
    <3>3. After(received[c], 0) = <<>>
      BY <1>3, UptoAndAfter
    <3> QED BY <2>2, <3>1, <3>2, <3>3
  <2> QED BY <1>2, <2>1, <2>2 DEF Read
<1>8. PICK k \in 0 .. sent[c] - received[c] :
        /\ received' = [received EXCEPT ![c] = received[c] + k]
        /\ buf' = [buf EXCEPT ![w] = After(received[c], k)]
        /\ k = 0 => AtEnd(c)
  BY <1>7
<1>9. /\ received'[c] = received[c] + k /\ \A d \in Conn : d # c => received'[d] = received[d]
      /\ received' \in [Conn -> 0 .. Pieces] /\ received'[c] <= sent[c]
      /\ k \in Nat /\ received'[c] \in Nat
  <2>1. sent[c] <= Pieces /\ received \in [Conn -> 0 .. Pieces]
    BY <1>2, ClientAssumption DEF QuoteInv, ClientTypeOK
  <2>2. /\ k \in Nat /\ received[c] + k \in Nat /\ received[c] + k <= sent[c]
        /\ received[c] + k \in 0 .. Pieces
    BY <1>3, <1>8, <2>1, ClientAssumption
  <2> QED BY <1>2, <1>8, <2>1, <2>2
<1>10. QuoteInv'
  <2>1. \A d \in Conn : received'[d] <= sent'[d]
    BY <1>1, <1>9 DEF QuoteInv
  <2> QED BY <1>1, <1>9, <2>1 DEF QuoteInv, ClientTypeOK, Current
<1>11. \A v \in Worker : \A d \in Conn : Writing(v, d)' <=> Writing(v, d) \/ (v = w /\ d = c)
  <2>1. \A v \in Worker : v # w => wpc'[v] = wpc[v]
    BY <1>1 DEF ServerInv, Shapes
  <2>2. wpc'[w] = "write" /\ wpc[w] # "write" /\ fd'[w] = c /\ fd[w] = c
    BY <1>1, <1>2 DEF ServerInv, Shapes
  <2> QED BY <1>1, <2>1, <2>2 DEF Writing
<1>12. Writing(w, c)'
  BY <1>2, <1>11
<1>13. ASSUME NEW d \in Conn, d # c
       PROVE  /\ AtEnd(d)' <=> AtEnd(d)
              /\ \A v \in Worker : Writing(v, d) => Half(v, d)'
              /\ (\A v \in Worker : ~Writing(v, d)) => output'[d] = Upto(received'[d])
  <2>1. /\ received'[d] = received[d] /\ output'[d] = output[d]
        /\ AtEnd(d)' <=> AtEnd(d)
    BY <1>1, <1>9, <1>13 DEF AtEnd
  <2>2. ASSUME NEW v \in Worker, Writing(v, d)
        PROVE  Half(v, d)'
    <3>1. v # w /\ Half(v, d)
      BY <1>1, <2>2 DEF Writing, CopyInv
    <3>2. buf'[v] = buf[v]
      BY <1>8, <3>1 DEF CopyInv
    <3> QED BY <2>1, <3>1, <3>2 DEF Half
  <2> QED BY <2>1, <2>2 DEF CopyInv
<1>14. Half(w, c)'
  <2>1. buf'[w] = After(received[c], k) /\ output'[c] = Upto(received[c])
    BY <1>1, <1>6, <1>8 DEF CopyInv
  <2>2. received'[c] - received[c] = k /\ received[c] \in 0 .. received'[c]
    BY <1>3, <1>9
  <2>3. received[c] = received'[c] => AtEnd(c)'
    <3>1. received[c] = received'[c] => k = 0
      BY <1>3, <1>9
    <3> QED BY <1>1, <1>8, <3>1 DEF AtEnd
  <2> QED BY <2>1, <2>2, <2>3 DEF Half
<1>15. buf' \in [Worker -> Seq(Nat)] /\ output' \in [Conn -> Seq(Nat)]
  <2>1. After(received[c], k) \in Seq(Nat)
    BY <1>3, <1>9, UptoAndAfter
  <2> QED BY <1>1, <1>8, <2>1 DEF CopyInv
<1>16. ASSUME NEW v \in Worker, NEW d \in Conn, Writing(v, d)'
       PROVE  Half(v, d)'
  <2>1. CASE d = c
    <3>1. v = w
      BY <1>4, <1>11, <1>16, <2>1
    <3> QED BY <1>14, <2>1, <3>1
  <2>2. CASE d # c
    BY <1>11, <1>13, <1>16, <2>2
  <2> QED BY <2>1, <2>2
<1>17. ASSUME NEW d \in Conn, \A v \in Worker : ~Writing(v, d)'
       PROVE  output'[d] = Upto(received'[d])
  BY <1>11, <1>12, <1>13, <1>17
<1>18. ASSUME NEW d \in served'
       PROVE  AtEnd(d)' /\ \A v \in Worker : ~Writing(v, d)'
  <2>1. d \in served /\ d # c /\ d \in Conn
    BY <1>1, <1>5, <1>18 DEF ServerInv, Shapes
  <2> QED BY <1>11, <1>13, <2>1 DEF CopyInv
<1>19. CopyInv'
  BY <1>15, <1>16, <1>17, <1>18 DEF CopyInv
<1> QED
  BY <1>10, <1>19
\* What a worker writes makes the file whole for its connection, which it closes
\* if that was nothing.
LEMMA WriteCopies ==
  ASSUME QuoteInv, CopyInv, ServerInv, NEW w \in Worker, Write(w),
         UNCHANGED <<clientVars, listening, backlog, mainVars>>
  PROVE  QuoteInv' /\ CopyInv'
<1>1. /\ wpc[w] = "write"
      /\ buf' = [buf EXCEPT ![w] = <<>>]
      /\ UNCHANGED <<received, cpc, quoteN, sent, closed, lost, listening, backlog>>
  BY DEF Write, clientVars
<1>2. PICK c \in Conn : c = fd[w] /\ InService(w, c) /\ Writing(w, c)
  BY <1>1 DEF ServerInv, HoldInv, Shapes, InService, Writing
<1>3. PICK m \in 0 .. received[c] :
        /\ output[c] = Upto(m) /\ buf[w] = After(m, received[c] - m)
        /\ m = received[c] => AtEnd(c)
  BY <1>2 DEF CopyInv, Half
<1>4. /\ received[c] \in Nat /\ m \in Nat /\ received[c] - m \in Nat
      /\ m + (received[c] - m) = received[c]
  <2>1. received[c] \in Nat
    BY <1>2 DEF QuoteInv, ClientTypeOK
  <2> QED BY <2>1
<1>5. Upto(m) \o After(m, received[c] - m) = Upto(received[c])
  <2>1. Upto(m) \o After(m, received[c] - m) = Upto(m + (received[c] - m))
    BY <1>4, UptoAndAfter
  <2> QED BY <1>4, <2>1
<1>6. output' = [output EXCEPT ![c] = Upto(received[c])]
  <2>1. output' = [output EXCEPT ![c] = output[c] \o buf[w]]
    BY <1>1, <1>2 DEF Write, CopyInv
  <2> QED BY <1>3, <1>5, <2>1
<1>7. /\ output' \in [Conn -> Seq(Nat)] /\ output'[c] = Upto(received[c])
      /\ \A d \in Conn : d # c => output'[d] = output[d]
  <2>1. Upto(received[c]) \in Seq(Nat)
    BY <1>4, UptoAndAfter
  <2> QED BY <1>2, <1>6, <2>1 DEF CopyInv
<1>8. \A v \in Worker : Writing(v, c) => v = w
  <2>1. \A v \in Worker : InService(v, c) => v = w
    BY <1>2 DEF ServerInv, PlaceInv
  <2> QED BY <2>1 DEF Writing, InService
<1>9. /\ \A v \in Worker : v # w => wpc'[v] = wpc[v] /\ fd'[v] = fd[v] /\ buf'[v] = buf[v]
      /\ wpc'[w] # "write"
      /\ buf' \in [Worker -> Seq(Nat)]
  BY <1>1 DEF Write, CopyInv, ServerInv, Shapes
<1>10. \A v \in Worker : \A d \in Conn : Writing(v, d)' <=> Writing(v, d) /\ v # w
  BY <1>9 DEF Writing
<1>11. \A d \in Conn : AtEnd(d)' <=> AtEnd(d)
  BY <1>1 DEF AtEnd
<1>12. QuoteInv'
  BY <1>1, QuoteKept DEF QuoteInv, ClientTypeOK, clientVars
<1>13. ASSUME NEW d \in Conn, \A v \in Worker : ~Writing(v, d)'
       PROVE  output'[d] = Upto(received'[d])
  <2>1. CASE d = c
    BY <1>1, <1>7, <2>1
  <2>2. CASE d # c
    <3>1. \A v \in Worker : ~Writing(v, d)
      BY <1>2, <1>10, <1>13, <2>2 DEF Writing
    <3> QED BY <1>1, <1>7, <2>2, <3>1 DEF CopyInv
  <2> QED BY <2>1, <2>2
<1>14. ASSUME NEW v \in Worker, NEW d \in Conn, Writing(v, d)'
       PROVE  Half(v, d)'
  <2>1. v # w /\ Writing(v, d)
    BY <1>10, <1>14
  <2>2. d # c /\ Half(v, d)
    BY <1>8, <2>1 DEF CopyInv
  <2> QED BY <1>1, <1>7, <1>9, <1>11, <2>1, <2>2 DEF Half
<1>15. ASSUME NEW d \in served'
       PROVE  AtEnd(d)' /\ \A v \in Worker : ~Writing(v, d)'
  <2>1. CASE d \in served
    BY <1>10, <1>11, <2>1 DEF CopyInv, ServerInv, Shapes
  <2>2. CASE d \notin served
    <3>1. d = c /\ buf[w] = <<>>
      BY <1>2, <1>15, <2>2 DEF Write
    <3>2. m = received[c]
      <4>1. After(m, received[c] - m) = <<>> <=> received[c] - m = 0
        BY <1>4, UptoAndAfter
      <4> QED BY <1>3, <1>4, <3>1, <4>1
    <3> QED BY <1>3, <1>8, <1>10, <1>11, <3>1, <3>2
  <2> QED BY <2>1, <2>2
<1>16. CopyInv'
  BY <1>7, <1>9, <1>13, <1>14, <1>15 DEF CopyInv
<1> QED
  BY <1>12, <1>16

\* The threaded server takes QuoteInv and CopyInv on.
LEMMA ThreadsCopy ==
  ASSUME QuoteInv, CopyInv, ServerInv, TypeOK, main \/ \E w \in Worker : racey_worker(w)
  PROVE  QuoteInv' /\ CopyInv' /\ TypeOK'
<1>1. ServerInv'
  BY MainStepServerInv, WorkerStepServerInv
<1>2. CASE \E w \in Worker : racey_worker(w)
  <2>1. QuoteInv' /\ CopyInv'
    BY <1>2, OthersCopy, ReadCopies, WriteCopies DEF racey_worker, ServerInv
  <2>2. UNCHANGED <<barrier, corrupt>>
    BY <1>2 DEF racey_worker, mainVars
  <2> QED BY <1>1, <2>1, <2>2 DEF TypeOK, QuoteInv, ServerInv, Shapes
<1>3. CASE main
  <2>1. /\ UNCHANGED <<cpc, quoteN, sent, closed, lost, received, output, fd, buf, served>>
        /\ UNCHANGED clientVars
        /\ listening' \in BOOLEAN /\ barrier' \in BOOLEAN /\ corrupt' \in BOOLEAN
    BY <1>3 DEF main, clientVars, workerVars, CreateWorker, Listen, Accept, Push, TypeOK, ClientTypeOK
  <2>2. backlog' = backlog \/ (backlog # <<>> /\ backlog' = Tail(backlog))
    BY <1>3 DEF main, CreateWorker, Listen, Accept, Push
  <2>3. QuoteInv'
    <3>1. backlog' \in Seq(Conn) /\ \A i \in DOMAIN backlog' : backlog'[i] \in Conn
      <4>1. backlog \in Seq(Conn)
        BY DEF QuoteInv
      <4>2. backlog' \in Seq(Conn)
        BY <2>2, <4>1
      <4> QED BY <4>2
    <3> QED BY <2>1, <3>1 DEF QuoteInv, ClientTypeOK, Current
  <2>4. \A v \in Worker : wpc'[v] = "write" <=> wpc[v] = "write"
    <3>1. CASE CreateWorker
      <4>1. PICK w \in Worker :
              /\ \A v \in Worker : wpc[v] = "idle" <=> v >= w
              /\ wpc' = [wpc EXCEPT ![w] = "spin"]
        BY <3>1 DEF CreateWorker
      <4>2. wpc[w] = "idle"
        BY <4>1 DEF Worker
      <4> QED BY <4>1, <4>2 DEF ServerInv, Shapes
    <3>2. CASE Listen \/ Accept \/ Push
      BY <3>2 DEF Listen, Accept, Push, workerVars
    <3> QED BY <1>3, <3>1, <3>2 DEF main
  <2>5. \A w \in Worker : \A c \in Conn : Writing(w, c)' <=> Writing(w, c)
    BY <2>1, <2>4 DEF Writing
  <2>6. \A c \in Conn : AtEnd(c)' <=> AtEnd(c)
    BY <2>1 DEF AtEnd
  <2>7. CopyInv'
    BY <2>1, <2>5, <2>6, CopyKept DEF ServerInv, Shapes
  <2> QED BY <1>1, <2>1, <2>3, <2>7 DEF TypeOK, QuoteInv, ServerInv, Shapes
<1> QED BY <1>2, <1>3
-----------------------------------------------------------------------------
\* The descriptor of the listening socket is no connection's.
LEMMA ListenSocketIsNoConn == ListenSocket \notin Conn
<1>1. \A c \in Conn : Len(c) = 2
  BY DEF Conn
<1>2. Len(ListenSocket) = 1
  BY DEF ListenSocket
<1> QED BY <1>1, <1>2

LEMMA WaitEvents ==
  ASSUME QuoteInv, EventInv, EpollListen \/ Wait \/ EventsDone, UNCHANGED clientVars
  PROVE  QuoteInv' /\ EventInv'
<1>1. /\ UNCHANGED <<backlog, received, output, registered, reading, fds, done>>
      /\ UNCHANGED <<cpc, quoteN, sent, closed, lost>>
      /\ listening' \in BOOLEAN
  BY DEF EpollListen, Wait, EventsDone, clientVars, QuoteInv, ClientTypeOK
<1>2. QuoteInv'
  BY <1>1, QuoteKept DEF QuoteInv, ClientTypeOK
<1>3. epc' \in {"start", "wait", "handle", "ended"} /\ (epc' \in {"start", "wait"} => events' = {})
  BY DEF EpollListen, Wait, EventsDone, EventInv
<1>4. ASSUME NEW e \in events'
      PROVE  /\ e \in (Conn \cup {ListenSocket}) \X BOOLEAN
             /\ \/ e = <<ListenSocket, FALSE>> /\ backlog # <<>>
                \/ e[1] \in Conn /\ (e[2] => e[1] \in lost)
  <2>1. CASE e \in events
    BY <2>1 DEF EventInv, EpollTypeOK
  <2>2. CASE e \in Ready
    <3>1. CASE e = <<ListenSocket, FALSE>> /\ backlog # <<>>
      BY <3>1
    <3>2. CASE \E c \in registered : e = <<c, c \in lost>>
      <4>1. PICK c \in registered : e = <<c, c \in lost>>
        BY <3>2
      <4>2. c \in Conn
        BY DEF EventInv, EpollTypeOK
      <4>3. CASE c \in lost
        <5>1. (c \in lost) = TRUE
          BY <4>3
        <5>2. e = <<c, TRUE>>
          BY <4>1, <5>1, Zenon
        <5> QED BY <4>2, <4>3, <5>2
      <4>4. CASE c \notin lost
        <5>1. (c \in lost) = FALSE
          BY <4>4
        <5>2. e = <<c, FALSE>>
          BY <4>1, <5>1, Zenon
        <5> QED BY <4>2, <5>2
      <4> QED BY <4>3, <4>4
    <3> QED BY <2>2, <3>1, <3>2 DEF Ready
  <2> QED BY <1>4, <2>1, <2>2 DEF EpollListen, Wait, EventsDone
<1>5. EventInv'
  BY <1>1, <1>2, <1>3, <1>4 DEF EventInv, EpollTypeOK, QuoteInv
<1> QED BY <1>2, <1>5

LEMMA HandleEvents ==
  ASSUME QuoteInv, EventInv, HandleEvent, UNCHANGED clientVars
  PROVE  QuoteInv' /\ EventInv'
<1>1. /\ epc = "handle"
      /\ UNCHANGED <<received, output, cpc, quoteN, sent, closed, lost>>
  BY DEF HandleEvent, clientVars
<1>2. PICK e \in events : /\ CloseBroken(e) \/ AcceptEvent(e) \/ BeginRead(e)
                          /\ events' = events \ {e}
  BY DEF HandleEvent
<1>3. /\ e \in (Conn \cup {ListenSocket}) \X BOOLEAN
      /\ \/ e = <<ListenSocket, FALSE>> /\ backlog # <<>>
         \/ e[1] \in Conn /\ (e[2] => e[1] \in lost)
  BY <1>2 DEF EventInv, EpollTypeOK
<1>4. /\ backlog' \in Seq(Conn) /\ listening' \in BOOLEAN
      /\ epc' \in {"handle", "ended"}
      /\ registered' \subseteq Conn /\ fds' \subseteq Conn /\ done' \subseteq Conn
      /\ reading' \in Conn \cup {NoEvent}
      /\ \A c \in done' \ lost : c \in done
      /\ backlog' = backlog \/ e = <<ListenSocket, FALSE>>
  <2>1. CASE CloseBroken(e)
    <3>1. e[2]
      BY <2>1 DEF CloseBroken
    <3>2. ASSUME e = <<ListenSocket, FALSE>> PROVE FALSE
      <4>1. e[2] = FALSE
        BY <3>2
      <4> QED BY <3>1, <4>1, Zenon
    <3>3. e[1] \in Conn /\ e[1] \in lost
      BY <1>3, <3>1, <3>2, Zenon
    <3> QED BY <1>1, <2>1, <3>3 DEF CloseBroken, EventInv, EpollTypeOK, QuoteInv, ClientTypeOK
  <2>2. CASE AcceptEvent(e)
    <3>1. e = <<ListenSocket, FALSE>> /\ backlog # <<>>
      BY <1>3, <2>2, ListenSocketIsNoConn DEF AcceptEvent
    <3>2. backlog \in Seq(Conn)
      BY DEF QuoteInv
    <3>3. Head(backlog) \in Conn /\ Tail(backlog) \in Seq(Conn)
      BY <3>1, <3>2
    <3>4. /\ backlog' = Tail(backlog) \/ backlog' = backlog
          /\ UNCHANGED listening \/ listening' = FALSE
          /\ UNCHANGED epc \/ epc' = "ended"
          /\ registered' \subseteq registered \cup {Head(backlog)}
          /\ fds' \subseteq fds \cup {Head(backlog)}
          /\ UNCHANGED <<reading, done>>
      BY <2>2 DEF AcceptEvent
    <3> QED BY <1>1, <3>1, <3>2, <3>3, <3>4 DEF EventInv, EpollTypeOK, QuoteInv, ClientTypeOK
  <2>3. CASE BeginRead(e)
    <3>1. e[1] \in Conn
      BY <1>3, <2>3 DEF BeginRead
    <3> QED BY <1>1, <2>3, <3>1 DEF BeginRead, EventInv, EpollTypeOK, QuoteInv, ClientTypeOK
  <2> QED BY <1>2, <2>1, <2>2, <2>3
<1>5. QuoteInv'
  <2>1. \A i \in DOMAIN backlog' : backlog'[i] \in Conn
    BY <1>4
  <2> QED BY <1>1, <1>4, <2>1 DEF QuoteInv, ClientTypeOK, Current
<1>6. ASSUME NEW f \in events'
      PROVE  \/ f = <<ListenSocket, FALSE>> /\ backlog' # <<>>
             \/ f[1] \in Conn /\ (f[2] => f[1] \in lost')
  <2>1. f \in events /\ f # e
    BY <1>2, <1>6
  <2> QED BY <1>1, <1>4, <2>1 DEF EventInv
<1>7. EpollTypeOK'
  BY <1>2, <1>4, <1>5 DEF EpollTypeOK, EventInv, QuoteInv
<1>8. \A c \in done' \ lost' : received'[c] > 0
  BY <1>1, <1>4 DEF EventInv
<1>9. EventInv'
  BY <1>1, <1>4, <1>6, <1>7, <1>8 DEF EventInv
<1> QED BY <1>5, <1>9

\* What is read is written at once.
LEMMA ReadEvents ==
  ASSUME QuoteInv, EventInv, ReadPieces, UNCHANGED clientVars
  PROVE  QuoteInv' /\ EventInv'
<1>1. UNCHANGED <<listening, backlog, epc, registered, events, reading, fds, done>>
  BY DEF ReadPieces, epollVars
<1>2. UNCHANGED <<cpc, quoteN, sent, closed, lost>>
  BY DEF clientVars
<1>3. PICK c \in Conn : c = reading
  BY DEF ReadPieces, EventInv, EpollTypeOK
<1>4. /\ received[c] \in Nat /\ sent[c] \in Nat /\ sent[c] <= Pieces
      /\ output[c] = Upto(received[c])
  BY <1>3, ClientAssumption DEF QuoteInv, ClientTypeOK, EventInv
<1>5. PICK pieces \in NextPieces(c) :
        /\ received' = [received EXCEPT ![c] = received[c] + Len(pieces)]
        /\ output' = [output EXCEPT ![c] = output[c] \o pieces]
  BY <1>3 DEF ReadPieces, QuoteInv, ClientTypeOK, EventInv
<1>6. PICK k \in 1 .. sent[c] - received[c] : pieces = After(received[c], k) /\ Len(pieces) = k
  BY <1>4, NextPiecesAre
<1>7. /\ k \in Nat /\ received[c] + k \in Nat /\ received[c] + k <= sent[c]
      /\ received[c] + k \in 0 .. Pieces /\ received[c] + k > 0
  BY <1>4, <1>6, ClientAssumption
<1>8. /\ output[c] \o pieces = Upto(received[c] + k)
      /\ Upto(received[c] + k) \in Seq(Nat)
  <2>1. Upto(received[c]) \o After(received[c], k) = Upto(received[c] + k)
    BY <1>4, <1>7, UptoAndAfter
  <2>2. Upto(received[c] + k) \in Seq(Nat)
    BY <1>7, UptoAndAfter
  <2> QED BY <1>4, <1>6, <2>1, <2>2
<1>9. /\ received' \in [Conn -> 0 .. Pieces] /\ received'[c] = received[c] + k
      /\ output' \in [Conn -> Seq(Nat)] /\ output'[c] = Upto(received[c] + k)
      /\ \A d \in Conn : d # c => received'[d] = received[d] /\ output'[d] = output[d]
  BY <1>5, <1>6, <1>7, <1>8 DEF QuoteInv, ClientTypeOK, EventInv
<1>10. ASSUME NEW d \in Conn
       PROVE  /\ received'[d] <= sent[d] /\ output'[d] = Upto(received'[d])
              /\ received[d] > 0 => received'[d] > 0
  BY <1>7, <1>9 DEF QuoteInv, EventInv
<1>11. QuoteInv'
  BY <1>1, <1>2, <1>9, <1>10 DEF QuoteInv, ClientTypeOK, Current
<1>12. \A d \in done \ lost : received'[d] > 0
  BY <1>10 DEF EventInv, EpollTypeOK
<1>13. EventInv'
  BY <1>1, <1>2, <1>9, <1>10, <1>11, <1>12 DEF EventInv, EpollTypeOK, QuoteInv
<1> QED BY <1>11, <1>13

\* A connection leaves the epoll set after something has been read from it, or
\* when it is lost.
LEMMA EndEvents ==
  ASSUME QuoteInv, EventInv, EndRead, UNCHANGED clientVars
  PROVE  QuoteInv' /\ EventInv'
<1>1. /\ UNCHANGED <<listening, backlog, received, output, epc, events, fds>>
      /\ UNCHANGED <<cpc, quoteN, sent, closed, lost>>
      /\ registered' \subseteq registered /\ reading' = NoEvent
      /\ done' = done \cup {reading}
  BY DEF EndRead, clientVars
<1>2. PICK c \in Conn : c = reading /\ (AtEnd(c) \/ received[c] > 0)
  BY DEF EndRead, EventInv, EpollTypeOK
<1>3. c \in lost \/ received[c] > 0
  BY <1>2 DEF AtEnd, QuoteInv
<1>4. QuoteInv'
  BY <1>1, QuoteKept DEF QuoteInv, ClientTypeOK
<1>5. EventInv'
  BY <1>1, <1>2, <1>3, <1>4 DEF EventInv, EpollTypeOK, QuoteInv
<1> QED BY <1>4, <1>5

LEMMA EpollCopies ==
  ASSUME QuoteInv, EventInv, EpollServer
  PROVE  QuoteInv' /\ EventInv'
  BY WaitEvents, HandleEvents, ReadEvents, EndEvents DEF EpollServer
-----------------------------------------------------------------------------
LEMMA InitQuotesInv == TcpInit => QuotesInv
<1> SUFFICES ASSUME TcpInit PROVE QuotesInv
  OBVIOUS
<1> USE DEF TcpInit, ClientInit, ServerInit, EpollInit
<1>1. Upto(0) = <<>>
  <2>1. Upto(0) \in Seq(Nat) /\ Len(Upto(0)) = 0
    BY UptoAndAfter
  <2> QED BY <2>1
<1>2. QuoteInv
  <2>1. ClientTypeOK /\ backlog \in Seq(Conn)
    <3>1. /\ cpc \in [ClientThread -> {"connect", "write", "close", "over"}]
          /\ quoteN \in [ClientThread -> 1 .. Quotes + 1]
          /\ sent \in [Conn -> 0 .. Pieces] /\ received \in [Conn -> 0 .. Pieces]
      BY ClientAssumption
    <3>2. backlog \in Seq(Conn) /\ \A i \in DOMAIN backlog : backlog[i] \in Conn
      OBVIOUS
    <3>3. listening \in BOOLEAN /\ closed \subseteq Conn /\ lost \subseteq Conn
      OBVIOUS
    <3> QED BY <3>1, <3>2, <3>3 DEF ClientTypeOK
  <2>2. \A c \in Conn : ~(sent[c] > 0) /\ received[c] <= sent[c]
    OBVIOUS
  <2>3. \A t \in ClientThread : quoteN[t] <= Quotes /\ cpc[t] # "close"
    BY ClientAssumption
  <2> QED BY <2>1, <2>2, <2>3 DEF QuoteInv
<1>3. TypeOK
  BY <1>2, ServerAssumption DEF TypeOK, QuoteInv
<1>4. EpollTypeOK
  BY <1>2 DEF EpollTypeOK, QuoteInv
<1>5. CopyInv
  BY <1>1 DEF CopyInv, Writing
<1>6. EventInv
  BY <1>1, <1>4 DEF EventInv
<1> QED
  BY <1>2, <1>3, <1>4, <1>5, <1>6 DEF QuotesInv

LEMMA ClientStepQuotes ==
  ASSUME QuotesInv, UNCHANGED <<serverVars, epollVars, server>>,
         Lose \/ \E t \in ClientThread : ClientWorker(t, ListenBacklog)
  PROVE  QuotesInv'
<1>1. QuoteInv' /\ Onward
  BY ClientOnward DEF QuotesInv
<1>2. /\ UNCHANGED <<client_fds, client_idx, fdsLock, wpc, fd, buf, served>>
      /\ UNCHANGED <<mpc, client_fd, corrupt, barrier>>
      /\ UNCHANGED <<epc, registered, events, reading, fds, done>>
  BY DEF serverVars, stackVars, workerVars, mainVars, epollVars
<1>3. TypeOK' /\ (EpollTypeOK => EpollTypeOK')
  BY <1>1, <1>2 DEF TypeOK, QuotesInv, QuoteInv, EpollTypeOK
<1>4. CopyInv => CopyInv'
  <2>1. \A w \in Worker : \A c \in Conn : Writing(w, c)' <=> Writing(w, c)
    BY <1>2 DEF Writing
  <2> QED BY <1>1, <1>2, <2>1, CopyKept DEF QuotesInv, TypeOK, Onward
<1>5. EventInv => EventInv'
  BY <1>1, <1>2, <1>3 DEF EventInv, Onward
<1> QED
  BY <1>1, <1>2, <1>3, <1>4, <1>5 DEF QuotesInv

LEMMA StepQuotesInv ==
  ASSUME QuotesInv, TcpInv, [TcpNext]_tcpVars
  PROVE  QuotesInv'
<1>1. ASSUME server = "threads", ~corrupt, main \/ \E w \in Worker : racey_worker(w),
             UNCHANGED <<epollVars, server>>
      PROVE  QuotesInv'
  <2>1. QuoteInv' /\ CopyInv' /\ TypeOK'
    BY <1>1, ThreadsCopy DEF QuotesInv, TcpInv
  <2>2. UNCHANGED <<epc, registered, events, reading, fds, done>>
    BY <1>1 DEF epollVars
  <2>3. EpollTypeOK'
    BY <1>1, <2>1, <2>2 DEF QuotesInv, QuoteInv, EpollTypeOK
  <2> QED BY <1>1, <2>1, <2>2, <2>3 DEF QuotesInv
<1>2. CASE Epoll(EpollServer)
  <2>1. server = "epoll" /\ EpollServer /\ UNCHANGED <<serverVars, server>>
    BY <1>2 DEF Epoll
  <2>2. QuoteInv' /\ EventInv'
    BY <2>1, EpollCopies DEF QuotesInv
  <2>3. /\ UNCHANGED <<client_fds, client_idx, fdsLock, wpc, fd, served>>
        /\ UNCHANGED <<mpc, client_fd, corrupt, barrier>>
    BY <2>1 DEF serverVars, stackVars, workerVars, mainVars
  <2>4. TypeOK'
    BY <2>2, <2>3 DEF QuotesInv, QuoteInv, TypeOK
  <2> QED BY <2>1, <2>2, <2>3, <2>4 DEF QuotesInv
<1>3. CASE Client(Lose \/ \E t \in ClientThread : ClientWorker(t, ListenBacklog))
  BY <1>3, ClientStepQuotes DEF Client
<1>4. CASE UNCHANGED tcpVars
  <2>1. /\ UNCHANGED <<cpc, quoteN, sent, closed, lost, listening, backlog, received, output>>
        /\ UNCHANGED <<client_fds, client_idx, fdsLock, wpc, fd, buf, served>>
        /\ UNCHANGED <<mpc, client_fd, corrupt, barrier>>
        /\ UNCHANGED <<epc, registered, events, reading, fds, done, server>>
    BY <1>4 DEF tcpVars, networkVars, clientVars, serverVars, stackVars, workerVars, mainVars, epollVars
  <2>2. QuoteInv' /\ TypeOK' /\ (EpollTypeOK => EpollTypeOK')
    BY <2>1 DEF QuotesInv, QuoteInv, TypeOK, EpollTypeOK, ClientTypeOK, Current
  <2>3. \A c \in Conn : AtEnd(c)' <=> AtEnd(c)
    BY <2>1 DEF AtEnd
  <2>4. \A w \in Worker : \A c \in Conn : Writing(w, c)' <=> Writing(w, c)
    BY <2>1 DEF Writing
  <2>5. CopyInv => CopyInv'
    BY <2>1, <2>3, <2>4, CopyKept DEF QuotesInv, TypeOK
  <2>6. EventInv => EventInv'
    BY <2>1, <2>2 DEF EventInv
  <2> QED BY <2>1, <2>2, <2>5, <2>6 DEF QuotesInv
<1>5. ASSUME Threads(main) \/ \E w \in Worker : Threads(racey_worker(w))
      PROVE  QuotesInv'
  BY <1>1, <1>5 DEF Threads
<1> QED
  BY <1>2, <1>3, <1>4, <1>5, TcpStepCases

\* The file is in order because a worker writes what it has read before anybody
\* else reads from the same connection.
LEMMA QuotesInvImplies == QuotesInv => QuotesAreWritten
<1> SUFFICES ASSUME QuotesInv PROVE QuotesAreWritten
  OBVIOUS
<1>1. \A c \in Conn : received[c] \in Nat /\ sent[c] \in Nat /\ received[c] <= sent[c]
  BY DEF QuotesInv, QuoteInv, ClientTypeOK
<1>2. ASSUME NEW c \in Conn, NEW m \in 0 .. received[c], output[c] = Upto(m)
      PROVE  InOrder(c)
  <2>1. m \in Nat /\ m <= sent[c]
    BY <1>1
  <2>2. Len(output[c]) = m
    BY <1>2, <2>1, UptoAndAfter
  <2> QED BY <1>2, <2>1, <2>2 DEF InOrder, Upto
<1>3. ASSUME NEW c \in Conn, output[c] = Upto(received[c])
      PROVE  InOrder(c) /\ Len(output[c]) = received[c]
  <2>1. received[c] \in Nat /\ received[c] \in 0 .. received[c]
    BY <1>1
  <2>2. Len(output[c]) = received[c]
    BY <1>3, <2>1, UptoAndAfter
  <2> QED BY <1>2, <1>3, <2>1, <2>2
<1>4. CASE server = "threads"
  <2>1. CopyInv /\ done = {} /\ served \subseteq Conn
    BY <1>4 DEF QuotesInv, TypeOK
  <2>2. ASSUME NEW c \in Conn PROVE InOrder(c)
    <3>1. CASE \E w \in Worker : Writing(w, c)
      BY <1>2, <2>1, <3>1 DEF CopyInv, Half
    <3>2. CASE ~ \E w \in Worker : Writing(w, c)
      BY <1>3, <2>1, <3>2 DEF CopyInv
    <3> QED BY <3>1, <3>2
  <2>3. ASSUME NEW c \in served \ lost PROVE Len(output[c]) = sent[c]
    <3>1. c \in Conn /\ received[c] = sent[c] /\ output[c] = Upto(received[c])
      BY <2>1 DEF CopyInv, AtEnd
    <3> QED BY <1>3, <3>1
  <2> QED BY <2>1, <2>2, <2>3 DEF QuotesAreWritten, OutputInOrder, WholeQuotesAreWritten
<1>5. CASE server = "epoll"
  <2>1. EventInv /\ served = {} /\ done \subseteq Conn
    BY <1>5 DEF QuotesInv, EventInv, EpollTypeOK
  <2>2. OutputInOrder
    BY <1>3, <2>1 DEF EventInv, OutputInOrder
  <2>3. ASSUME NEW c \in done \ lost, sent[c] = 1 PROVE Len(output[c]) = 1
    <3>1. c \in Conn /\ received[c] > 0
      BY <2>1 DEF EventInv
    <3>2. received[c] = 1
      BY <1>1, <2>3, <3>1
    <3> QED BY <1>3, <2>1, <3>1, <3>2 DEF EventInv
  <2> QED BY <2>2, <2>3 DEF QuotesAreWritten, WholeQuotesAreWritten
<1> QED BY <1>4, <1>5 DEF QuotesInv

\* The inductive invariant of the two servers' copying; the threaded one's rests
\* on its stack, which gives a connection to one worker.
THEOREM QuotesInvariant == TcpSpec => []QuotesInv
<1>1. QuotesInv /\ TcpInv /\ [TcpNext]_tcpVars => QuotesInv'
  BY StepQuotesInv
<1> QED
  BY <1>1, InitQuotesInv, TcpInvariant, PTL DEF TcpSpec

\* The client and both servers keep to the types of their variables.
THEOREM TcpTypeCorrect == TcpSpec => []TcpTypeOK
<1>1. QuotesInv => TcpTypeOK
  BY DEF QuotesInv, TcpTypeOK, EventInv
<1> QED BY <1>1, QuotesInvariant, PTL

\* Whatever the workers write in between, the output file has every connection's
\* pieces once and in order; the threaded server copies a quote whole
\* (racey-tcp-server.c:58-67), the epoll server one that arrives in one piece.
THEOREM QuotesArrive == TcpSpec => []QuotesAreWritten
  BY QuotesInvariant, QuotesInvImplies, PTL
-----------------------------------------------------------------------------
\* Why the servers deal with every connection.

\* A thread has closed its connections but the current one.
ClosedInv == \A c \in Conn : c[2] < quoteN[c[1]] => c \in closed

\* main() of the threaded server creates the workers in turn, lets them start after
\* the last, and only then listens.
StartInv ==
  /\ mpc = "create" => \E w \in Worker : \A v \in Worker : wpc[v] = "idle" <=> v >= w
  /\ mpc # "create" => barrier /\ \A w \in Worker : wpc[w] # "idle"
  /\ listening <=> mpc \in {"accept", "push"}

\* Something has arrived on c that has not been read.
Arrived(c) == c \in lost \/ received[c] < sent[c] \/ c \in closed

\* The epoll server has what it has accepted in its set or is done with it; its
\* events are about connections in the set, one event each, and still to be read.
EpollInv ==
  /\ listening <=> epc \in {"wait", "handle"}
  /\ Accepted = registered \cup done /\ registered \cap done = {}
  /\ \A c \in Conn : c \notin Accepted => received[c] = 0
  /\ reading # NoEvent =>
       /\ epc = "handle" /\ reading \in registered
       /\ Arrived(reading) \/ received[reading] > 0
  /\ \A e \in events : e[1] # ListenSocket =>
       e[1] \in registered /\ e[1] # reading /\ Arrived(e[1])
  /\ \A e, f \in events : e[1] = f[1] => e = f
  /\ epc = "ended" => ~(Cardinality(fds) < MaxFds)

MoveInv ==
  /\ ClosedInv /\ BacklogInv
  /\ server = "threads" => StartInv
  /\ server = "epoll" => EpollInv

\* The steps that each of them can take.
ClientRuns(t) ==
  \/ cpc[t] \in {"write", "close"}
  \/ cpc[t] = "connect" /\ (listening => Len(backlog) < ListenBacklog)

MainRuns ==
  \/ mpc \in {"create", "listen"}
  \/ mpc = "accept" /\ backlog # <<>>
  \/ mpc = "push" /\ fdsLock = Free /\ client_idx < Slots

WorkerRuns(w) ==
  \/ wpc[w] = "spin" /\ barrier
  \/ wpc[w] = "poll" /\ fdsLock = Free /\ client_fds[client_idx] # NoFd
  \/ wpc[w] = "read" /\ (NextPieces(fd[w]) # {} \/ AtEnd(fd[w]))
  \/ wpc[w] \in {"clear", "write"}

EpollRuns ==
  \/ epc = "start"
  \/ epc = "wait" /\ Ready # {}
  \/ /\ epc = "handle" /\ reading = NoEvent
     /\ events = {} \/ \E e \in events : e[2] \/ e[1] # ListenSocket \/ backlog # <<>>
  \/ reading # NoEvent /\ (NextPieces(reading) # {} \/ AtEnd(reading) \/ received[reading] > 0)

\* The clients are over, and every connection that was accepted has been copied,
\* unless the epoll server has run out of descriptors.
AllDealtWith ==
  /\ \A t \in ClientThread : cpc[t] = "over"
  /\ IF server = "threads" THEN backlog = <<>> /\ served = Accepted
     ELSE \/ backlog = <<>> /\ done = Accepted
          \/ epc = "ended" /\ ~(Cardinality(fds) < MaxFds)

ServerRuns == IF server = "threads" THEN MainRuns \/ \E w \in Worker : WorkerRuns(w) ELSE EpollRuns

TcpRuns == corrupt \/ AllDealtWith \/ ServerRuns \/ \E t \in ClientThread : ClientRuns(t)

\* What the invariants above say of the client in either case.
LEMMA ClientShapes == QuotesInv => Shapes /\ ClientInv
  BY DEF QuotesInv, QuoteInv, TypeOK, ClientTypeOK, Shapes, ClientInv

LEMMA ArrivedIsRead ==
  ASSUME QuotesInv, NEW c \in Conn, Arrived(c)
  PROVE  NextPieces(c) # {} \/ AtEnd(c)
<1>1. /\ received[c] \in Nat /\ sent[c] \in Nat /\ received[c] <= sent[c]
  BY DEF QuotesInv, QuoteInv, ClientTypeOK
<1>2. CASE c \notin lost /\ received[c] < sent[c]
  <2>1. 1 \in 1 .. sent[c] - received[c]
    BY <1>1, <1>2
  <2> QED BY <1>2, <2>1 DEF NextPieces
<1>3. CASE c \in lost \/ received[c] = sent[c]
  BY <1>1, <1>3 DEF Arrived, AtEnd
<1> QED BY <1>1, <1>2, <1>3

\* When no client can go on, all that is established is closed and can be read.
LEMMA ClientsAreOver ==
  ASSUME QuotesInv, MoveInv, \A t \in ClientThread : ~ClientRuns(t)
  PROVE  /\ \A c \in Established : c \in Conn /\ (NextPieces(c) # {} \/ AtEnd(c))
         /\ backlog = <<>> \/ ~listening => \A t \in ClientThread : cpc[t] = "over"
<1>1. \A t \in ClientThread : cpc[t] \in {"connect", "over"}
  BY ClientShapes DEF Shapes, ClientRuns
<1>2. ASSUME NEW c \in Established
      PROVE  c \in Conn /\ (NextPieces(c) # {} \/ AtEnd(c))
  <2>1. c \in Conn /\ c[1] \in ClientThread
    BY DEF Established, Conn
  <2>2. c[2] < quoteN[c[1]]
    BY <1>1, <2>1 DEF Established
  <2>3. Arrived(c)
    BY <2>1, <2>2 DEF MoveInv, ClosedInv, Arrived
  <2> QED BY <2>1, <2>3, ArrivedIsRead
<1>3. ASSUME backlog = <<>> \/ ~listening, NEW t \in ClientThread
      PROVE  cpc[t] = "over"
  <2>1. ListenBacklog \in Nat \ {0}
    BY ServerAssumption, EpollAssumption DEF ListenBacklog
  <2>2. backlog = <<>> => Len(backlog) < ListenBacklog
    BY <2>1
  <2> QED BY <1>1, <1>3, <2>2 DEF ClientRuns
<1> QED BY <1>2, <1>3

\* The threaded server: a worker waits for a client only, main() for a worker only
\* when every worker has a connection, and nobody for the lock.
LEMMA ThreadsMove ==
  ASSUME QuotesInv, MoveInv, ServerInv, server = "threads",
         \A t \in ClientThread : ~ClientRuns(t), ~MainRuns, \A w \in Worker : ~WorkerRuns(w)
  PROVE  AllDealtWith
<1>1. /\ \A c \in Established : c \in Conn /\ (NextPieces(c) # {} \/ AtEnd(c))
      /\ backlog = <<>> => \A t \in ClientThread : cpc[t] = "over"
  BY ClientsAreOver
<1>2. mpc \in {"accept", "push"} /\ barrier /\ \A w \in Worker : wpc[w] # "idle"
  BY DEF MoveInv, StartInv, MainRuns, ServerInv, Shapes
<1>3. \A w \in Worker : wpc[w] \in {"poll", "read"}
  BY <1>2 DEF WorkerRuns, ServerInv, Shapes
<1>4. \A w \in Worker : wpc[w] = "poll"
  <2> SUFFICES ASSUME NEW w \in Worker, wpc[w] = "read"
               PROVE  FALSE
    BY <1>3
  <2>1. fd[w] \in Conn
    BY DEF ServerInv, HoldInv, Shapes
  <2>2. fd[w] \in Accepted
    BY <2>1 DEF ServerInv, PlaceInv, WithWorker, InService
  <2>3. fd[w] \in Established
    BY <2>2 DEF Accepted
  <2> QED BY <1>1, <2>3 DEF WorkerRuns
<1>5. fdsLock = Free
  BY <1>4 DEF ServerInv, Shapes, LockInv
<1>6. client_idx = -1
  <2>1. 1 \in Worker
    BY ServerAssumption DEF Worker
  <2>2. client_fds[client_idx] = NoFd
    BY <1>4, <1>5, <2>1 DEF WorkerRuns
  <2> QED BY <2>2, ServerAssumption DEF ServerInv, Shapes, StackInv
<1>7. mpc = "accept"
  BY <1>2, <1>5, <1>6, ServerAssumption DEF MainRuns
<1>8. backlog = <<>>
  BY <1>7 DEF MainRuns
<1>9. ASSUME NEW c \in Conn
      PROVE  c \in Accepted <=> c \in served
  <2>1. ~WithMain(c)
    BY <1>7, NoFdIsNoConn DEF ServerInv, HoldInv, WithMain
  <2>2. ~OnStack(c)
    BY <1>6 DEF OnStack
  <2>3. ~WithWorker(c)
    BY <1>4 DEF WithWorker, InService
  <2> QED BY <2>1, <2>2, <2>3 DEF ServerInv, PlaceInv
<1>10. served \subseteq Conn /\ Accepted \subseteq Conn
  BY DEF ServerInv, Shapes, Accepted, Established
<1>11. served = Accepted
  BY <1>9, <1>10
<1> QED BY <1>1, <1>8, <1>11 DEF AllDealtWith

\* The epoll server waits for a client only, unless it has ended.
LEMMA EpollMoves ==
  ASSUME QuotesInv, MoveInv, server = "epoll",
         \A t \in ClientThread : ~ClientRuns(t), ~EpollRuns
  PROVE  AllDealtWith
<1>1. /\ \A c \in Established : c \in Conn /\ (NextPieces(c) # {} \/ AtEnd(c))
      /\ backlog = <<>> \/ ~listening => \A t \in ClientThread : cpc[t] = "over"
  BY ClientsAreOver
<1>2. EventInv /\ EpollInv
  BY DEF QuotesInv, MoveInv
<1>3. reading = NoEvent
  <2> SUFFICES ASSUME reading # NoEvent
               PROVE  FALSE
    OBVIOUS
  <2>1. reading \in Conn /\ (Arrived(reading) \/ received[reading] > 0)
    BY <1>2 DEF EpollInv, EventInv, EpollTypeOK
  <2> QED BY <2>1, ArrivedIsRead DEF EpollRuns
<1>4. epc # "handle"
  <2> SUFFICES ASSUME epc = "handle"
               PROVE  FALSE
    OBVIOUS
  <2>1. PICK e \in events : ~(e[2] \/ e[1] # ListenSocket \/ backlog # <<>>)
    BY <1>3 DEF EpollRuns
  <2> QED BY <1>2, <2>1, ListenSocketIsNoConn DEF EventInv
<1>5. CASE epc = "ended"
  BY <1>1, <1>2, <1>5 DEF EpollInv, AllDealtWith
<1>6. CASE epc = "wait"
  <2>1. Ready = {}
    BY <1>6 DEF EpollRuns
  <2>2. backlog = <<>>
    BY <2>1 DEF Ready
  <2>3. registered = {}
    <3> SUFFICES ASSUME NEW c \in registered
                 PROVE  FALSE
      OBVIOUS
    <3>1. c \in Established
      BY <1>2 DEF EpollInv, Accepted
    <3>2. c \in {r \in registered : NextPieces(r) # {} \/ AtEnd(r)}
      BY <1>1, <3>1
    <3> QED BY <2>1, <3>2 DEF Ready
  <2>4. done = Accepted
    BY <1>2, <2>3 DEF EpollInv
  <2> QED BY <1>1, <2>2, <2>4, <1>6 DEF AllDealtWith
<1> QED BY <1>2, <1>4, <1>5, <1>6 DEF EpollRuns, EventInv, EpollTypeOK

LEMMA TcpMoves == QuotesInv /\ TcpInv /\ MoveInv => TcpRuns
<1> SUFFICES ASSUME QuotesInv, TcpInv, MoveInv, ~corrupt,
                    ~ServerRuns, \A t \in ClientThread : ~ClientRuns(t)
             PROVE  AllDealtWith
  BY DEF TcpRuns
<1>1. CASE server = "threads"
  BY <1>1, ThreadsMove DEF TcpInv, ServerRuns
<1>2. CASE server = "epoll"
  BY <1>2, EpollMoves DEF ServerRuns
<1> QED BY <1>1, <1>2 DEF TcpInv

LEMMA NoEventIsNoConn == NoEvent \notin Conn
  BY DEF NoEvent, Conn

LEMMA InitMoveInv == TcpInit => MoveInv
<1> SUFFICES ASSUME TcpInit PROVE MoveInv
  OBVIOUS
<1> USE DEF TcpInit, ClientInit, ServerInit, EpollInit
<1>1. ClosedInv /\ BacklogInv
  BY DEF ClosedInv, BacklogInv, Conn
<1>2. StartInv
  <2>1. 1 \in Worker /\ \A v \in Worker : wpc[v] = "idle" <=> v >= 1
    BY ServerAssumption DEF Worker
  <2> QED BY <2>1 DEF StartInv
<1>3. Accepted = {}
  BY DEF Accepted, Established, Conn
<1>4. EpollInv
  BY <1>3 DEF EpollInv
<1> QED BY <1>1, <1>2, <1>4 DEF MoveInv

\* A step of the client closes what it is done with, and takes nothing back.
LEMMA ClientMoves ==
  ASSUME QuotesInv, MoveInv, UNCHANGED <<serverVars, epollVars, server>>,
         Lose \/ \E t \in ClientThread : ClientWorker(t, ListenBacklog)
  PROVE  MoveInv'
<1>1. Shapes /\ ClientInv /\ BacklogInv /\ QuoteInv
  BY ClientShapes DEF MoveInv, QuotesInv
<1>2. BacklogInv' /\ Accepted' = Accepted
  BY <1>1, ClientKeepsAccepted
<1>3. UNCHANGED <<listening, received>> /\ lost \subseteq lost' /\ closed \subseteq closed'
  BY DEF Lose, ClientWorker, Connect, WriteQuote, CloseConnection
<1>4. ClosedInv'
  <2>1. CASE UNCHANGED quoteN
    BY <1>3, <2>1 DEF MoveInv, ClosedInv
  <2>2. ASSUME NEW t \in ClientThread, CloseConnection(t)
        PROVE  ClosedInv'
    <3>1. /\ quoteN' = [quoteN EXCEPT ![t] = quoteN[t] + 1] /\ quoteN[t] \in Nat
          /\ closed' = closed \cup {Current(t)}
      BY <1>1, <2>2 DEF CloseConnection, Shapes
    <3>2. ASSUME NEW c \in Conn, c[2] < quoteN'[c[1]]
          PROVE  c \in closed'
      <4>1. c[1] \in ClientThread /\ c[2] \in Nat /\ c = <<c[1], c[2]>>
        BY DEF Conn
      <4>2. CASE c[1] # t
        BY <1>1, <3>1, <3>2, <4>1, <4>2 DEF MoveInv, ClosedInv, Shapes
      <4>3. CASE c[1] = t
        <5>1. c[2] < quoteN[t] \/ c[2] = quoteN[t]
          BY <1>1, <3>1, <3>2, <4>1, <4>3 DEF Shapes
        <5>2. CASE c[2] < quoteN[t]
          BY <3>1, <4>3, <5>2 DEF MoveInv, ClosedInv
        <5>3. CASE c[2] = quoteN[t]
          BY <3>1, <4>1, <4>3, <5>3 DEF Current
        <5> QED BY <5>1, <5>2, <5>3
      <4> QED BY <4>2, <4>3
    <3> QED BY <3>2 DEF ClosedInv
  <2> QED BY <2>1, <2>2 DEF Lose, ClientWorker, Connect, WriteQuote
<1>5. ASSUME NEW c \in Conn, Arrived(c)
      PROVE  Arrived(c)'
  <2>1. CASE sent'[c] = sent[c]
    BY <1>3, <1>5, <2>1 DEF Arrived
  <2>2. ASSUME NEW t \in ClientThread, WriteQuote(t)
        PROVE  Arrived(c)'
    <3>1. CASE c = Current(t)
      <4>1. ~(sent[c] > 0)
        <5>1. c[1] = t /\ c[2] = quoteN[t]
          BY <3>1 DEF Current
        <5>2. quoteN[t] \in Int /\ cpc[t] = "write"
          BY <1>1, <2>2 DEF WriteQuote, Shapes
        <5>3. ~(quoteN[t] < quoteN[t])
          BY <5>2
        <5> QED BY <1>1, <5>1, <5>2, <5>3 DEF QuoteInv
      <4>2. ~(received[c] < sent[c])
        BY <1>1, <4>1, ClientAssumption DEF QuoteInv, ClientTypeOK
      <4> QED BY <1>3, <1>5, <4>2 DEF Arrived
    <3>2. CASE c # Current(t)
      <4>1. sent'[c] = sent[c]
        BY <1>1, <2>2, <3>2 DEF WriteQuote, QuoteInv, ClientTypeOK
      <4> QED BY <2>1, <4>1
    <3> QED BY <3>1, <3>2
  <2> QED BY <2>1, <2>2 DEF Lose, ClientWorker, Connect, CloseConnection
<1>6. StartInv => StartInv'
  BY <1>3 DEF StartInv, serverVars, workerVars, mainVars
<1>7. EpollInv /\ EventInv => EpollInv'
  <2> SUFFICES ASSUME EpollInv, EventInv PROVE EpollInv'
    OBVIOUS
  <2>1. UNCHANGED <<epc, registered, events, reading, fds, done>>
    BY DEF epollVars
  <2>2. reading # NoEvent => reading \in Conn
    BY DEF EventInv, EpollTypeOK
  <2>3. \A e \in events : e[1] # ListenSocket => e[1] \in Conn
    BY DEF EventInv, EpollTypeOK
  <2> QED BY <1>2, <1>3, <1>5, <2>1, <2>2, <2>3 DEF EpollInv
<1> QED BY <1>2, <1>4, <1>6, <1>7 DEF MoveInv, QuotesInv

\* A step of the threaded server.
LEMMA ThreadsKeepMoving ==
  ASSUME QuotesInv, MoveInv, server = "threads", UNCHANGED <<epollVars, server>>,
         main \/ \E w \in Worker : racey_worker(w)
  PROVE  MoveInv'
<1>1. Shapes /\ ClientInv /\ BacklogInv /\ StartInv
  BY ClientShapes DEF MoveInv
<1>2. UNCHANGED <<cpc, quoteN, sent, closed, lost>>
  BY DEF main, racey_worker, clientVars
<1>3. ClosedInv'
  BY <1>2 DEF MoveInv, ClosedInv
<1>4. CASE CreateWorker
  <2>1. PICK w \in Worker :
          /\ \A v \in Worker : wpc[v] = "idle" <=> v >= w
          /\ wpc' = [wpc EXCEPT ![w] = "spin"]
          /\ barrier' = (w = WorkerNum)
          /\ mpc' = IF w = WorkerNum THEN "listen" ELSE "create"
    BY <1>4 DEF CreateWorker
  <2>2. UNCHANGED <<listening, backlog>> /\ mpc = "create"
    BY <1>4 DEF CreateWorker
  <2>3. \A v \in Worker : wpc'[v] = "idle" <=> v >= w + 1
    BY <1>1, <2>1 DEF Shapes, Worker
  <2>4. CASE w = WorkerNum
    <3>1. \A v \in Worker : wpc'[v] # "idle"
      BY <2>3, <2>4, ServerAssumption DEF Worker
    <3> QED BY <1>1, <1>2, <1>3, <2>1, <2>2, <2>4, <3>1 DEF MoveInv, StartInv, BacklogInv, Established
  <2>5. CASE w # WorkerNum
    <3>1. w + 1 \in Worker
      BY <2>5, ServerAssumption DEF Worker
    <3>2. StartInv'
      BY <1>1, <2>1, <2>2, <2>3, <2>5, <3>1 DEF StartInv
    <3> QED BY <1>1, <1>2, <1>3, <2>2, <3>2 DEF MoveInv, BacklogInv, Established
  <2> QED BY <2>4, <2>5
<1>5. CASE Listen \/ Push
  <2>1. UNCHANGED <<backlog, barrier, wpc>>
    BY <1>5 DEF Listen, Push, workerVars
  <2>2. BacklogInv'
    BY <1>1, <1>2, <2>1 DEF BacklogInv, Established
  <2>3. StartInv'
    BY <1>1, <1>5, <2>1 DEF StartInv, Listen, Push
  <2> QED BY <1>3, <2>2, <2>3 DEF MoveInv
<1>6. CASE Accept
  <2>1. BacklogInv'
    BY <1>1, <1>2, <1>6, AcceptMoves DEF Accept, Shapes
  <2>2. StartInv'
    BY <1>1, <1>6 DEF StartInv, Accept, workerVars
  <2> QED BY <1>3, <2>1, <2>2 DEF MoveInv
<1>7. ASSUME NEW w \in Worker, racey_worker(w)
      PROVE  MoveInv'
  <2>1. UNCHANGED <<listening, backlog, mpc, barrier>>
    BY <1>7 DEF racey_worker, mainVars
  <2>2. \A v \in Worker : wpc'[v] = "idle" <=> wpc[v] = "idle"
    <3>1. /\ wpc[w] # "idle"
          /\ \E l \in {"poll", "clear", "read", "write"} : wpc' = [wpc EXCEPT ![w] = l]
      BY <1>7 DEF racey_worker, LeaveSpin, Take, Pop, Read, Write
    <3>2. wpc \in [Worker -> {"idle", "spin", "poll", "clear", "read", "write"}]
      BY <1>1 DEF Shapes
    <3> QED BY <3>1, <3>2
  <2>3. StartInv'
    BY <1>1, <2>1, <2>2 DEF StartInv
  <2> QED BY <1>1, <1>2, <1>3, <2>1, <2>3 DEF MoveInv, BacklogInv, Established
<1> QED BY <1>4, <1>5, <1>6, <1>7 DEF main

\* The epoll server starts listening.
LEMMA EpollListenMoves ==
  ASSUME EpollInv, EventInv, EpollListen, UNCHANGED clientVars
  PROVE  EpollInv' /\ Accepted' = Accepted
<1>1. /\ epc = "start" /\ epc' = "wait" /\ listening'
      /\ UNCHANGED <<registered, events, reading, fds, done, backlog, received>>
      /\ UNCHANGED <<cpc, quoteN, sent, closed, lost>>
  BY DEF EpollListen, clientVars
<1>2. reading = NoEvent /\ events = {}
  BY <1>1 DEF EpollInv, EventInv
<1> QED BY <1>1, <1>2 DEF EpollInv, Accepted, Established

\* There is one event of each descriptor, and something to read for it.
LEMMA ReadyEvents ==
  ASSUME EventInv, NEW e \in Ready
  PROVE  /\ e[1] # ListenSocket => e[1] \in registered /\ Arrived(e[1])
         /\ \A f \in Ready : e[1] = f[1] => e = f
<1>1. \A c \in registered : c # ListenSocket
  BY ListenSocketIsNoConn DEF EventInv, EpollTypeOK
<1>2. ASSUME NEW f \in Ready
      PROVE  \/ f = <<ListenSocket, FALSE>>
             \/ f[1] \in registered /\ Arrived(f[1]) /\ f = <<f[1], f[1] \in lost>>
  <2>1. CASE f = <<ListenSocket, FALSE>>
    BY <2>1
  <2>2. CASE f # <<ListenSocket, FALSE>>
    <3>1. PICK c \in {r \in registered : NextPieces(r) # {} \/ AtEnd(r)} : f = <<c, c \in lost>>
      BY <2>2 DEF Ready
    <3>2. f[1] = c
      BY <3>1
    <3>3. Arrived(c)
      <4>1. c \in Conn
        BY <3>1 DEF EventInv, EpollTypeOK
      <4>2. received[c] \in Nat /\ sent[c] \in Nat
        BY <4>1, ClientAssumption DEF EventInv, EpollTypeOK, ClientTypeOK
      <4>3. CASE AtEnd(c)
        BY <4>3 DEF AtEnd, Arrived
      <4>4. CASE NextPieces(c) # {}
        <5>1. CASE c \in lost
          BY <5>1 DEF Arrived
        <5>2. CASE c \notin lost
          <6>1. PICK k \in 1 .. sent[c] - received[c] : TRUE
            BY <4>4, <5>2 DEF NextPieces
          <6> QED BY <4>2, <6>1 DEF Arrived
        <5> QED BY <5>1, <5>2
      <4> QED BY <3>1, <4>3, <4>4
    <3> QED BY <3>1, <3>2, <3>3, Zenon
  <2> QED BY <2>1, <2>2
<1>3. <<ListenSocket, FALSE>>[1] = ListenSocket
  OBVIOUS
<1>4. ASSUME NEW f \in Ready, e[1] = f[1]
      PROVE  e = f
  <2>1. CASE e[1] = ListenSocket
    <3>1. e = <<ListenSocket, FALSE>>
      BY <1>1, <1>2, <2>1, Zenon
    <3>2. f = <<ListenSocket, FALSE>>
      BY <1>1, <1>2, <1>4, <2>1, Zenon
    <3> QED BY <3>1, <3>2
  <2>2. CASE e[1] # ListenSocket
    <3>1. e = <<e[1], e[1] \in lost>>
      BY <1>2, <1>3, <2>2, Zenon
    <3>2. f = <<f[1], f[1] \in lost>>
      BY <1>2, <1>3, <1>4, <2>2, Zenon
    <3>3. f = <<e[1], e[1] \in lost>>
      BY <1>4, <3>2
    <3> QED BY <3>1, <3>3
  <2> QED BY <2>1, <2>2
<1>5. e[1] # ListenSocket => e[1] \in registered /\ Arrived(e[1])
  BY <1>2, <1>3
<1> QED BY <1>4, <1>5

LEMMA WaitMoves ==
  ASSUME EpollInv, EventInv, Wait, UNCHANGED clientVars
  PROVE  EpollInv' /\ Accepted' = Accepted
<1>1. /\ epc = "wait" /\ epc' = "handle" /\ events' \subseteq Ready
      /\ UNCHANGED <<listening, registered, reading, fds, done, backlog, received>>
      /\ UNCHANGED <<cpc, quoteN, sent, closed, lost>>
  BY DEF Wait, clientVars
<1>2. reading = NoEvent
  BY <1>1 DEF EpollInv
<1>3. ASSUME NEW e \in events'
      PROVE  /\ e[1] # ListenSocket => e[1] \in registered /\ e[1] # NoEvent /\ Arrived(e[1])
             /\ \A f \in events' : e[1] = f[1] => e = f
  <2>1. \A c \in registered : c # NoEvent
    BY NoEventIsNoConn DEF EventInv, EpollTypeOK
  <2> QED BY <1>1, <1>3, <2>1, ReadyEvents
<1>4. \A c : Arrived(c)' <=> Arrived(c)
  BY <1>1 DEF Arrived
<1> QED BY <1>1, <1>2, <1>3, <1>4 DEF EpollInv, Accepted, Established

\* An event is handled: what it is about leaves the set, enters it, or is read.
LEMMA HandleMoves ==
  ASSUME QuoteInv, BacklogInv, EpollInv, EventInv, HandleEvent, UNCHANGED clientVars
  PROVE  EpollInv' /\ BacklogInv'
<1>1. /\ epc = "handle" /\ reading = NoEvent
      /\ UNCHANGED <<received, cpc, quoteN, sent, closed, lost>>
  BY DEF HandleEvent, clientVars
<1>2. PICK e \in events : /\ CloseBroken(e) \/ AcceptEvent(e) \/ BeginRead(e)
                          /\ events' = events \ {e}
  BY DEF HandleEvent
<1>3. \A c : Arrived(c)' <=> Arrived(c)
  BY <1>1 DEF Arrived
<1>4. \A f \in events : f[1] # ListenSocket => f[1] \in Conn /\ f[1] \in registered /\ Arrived(f[1])
  BY DEF EpollInv, EventInv, EpollTypeOK
<1>5. \A f \in events' : f \in events /\ f[1] # e[1]
  BY <1>2 DEF EpollInv
<1>6. \A f, g \in events' : f[1] = g[1] => f = g
  BY <1>5 DEF EpollInv
<1>7. CASE CloseBroken(e)
  <2>1. e[1] # ListenSocket
    <3>1. e[2]
      BY <1>7 DEF CloseBroken
    <3>2. e # <<ListenSocket, FALSE>>
      <4>1. e = <<ListenSocket, FALSE>> => e[2] = FALSE
        OBVIOUS
      <4> QED BY <3>1, <4>1, Zenon
    <3>3. e[1] \in Conn
      BY <1>2, <3>2 DEF EventInv
    <3> QED BY <3>3, ListenSocketIsNoConn
  <2>2. e[1] \in registered
    BY <1>2, <1>4, <2>1
  <2>3. /\ registered' = registered \ {e[1]} /\ done' = done \cup {e[1]}
        /\ UNCHANGED <<listening, epc, reading, backlog>>
    BY <1>7 DEF CloseBroken
  <2>4. registered' \cup done' = registered \cup done /\ registered' \cap done' = {}
    BY <2>2, <2>3 DEF EpollInv
  <2>5. UNCHANGED <<Accepted, Established>>
    BY <1>1, <2>3 DEF Accepted, Established
  <2>6. BacklogInv'
    BY <2>3, <2>5 DEF BacklogInv
  <2>7. \A f \in events' : f[1] # ListenSocket =>
          f[1] \in registered' /\ f[1] # NoEvent /\ Arrived(f[1])'
    BY <1>3, <1>4, <1>5, <2>3, NoEventIsNoConn
  <2> QED BY <1>1, <1>6, <2>3, <2>4, <2>5, <2>6, <2>7 DEF EpollInv
<1>8. CASE AcceptEvent(e)
  <2>1. e[1] = ListenSocket /\ UNCHANGED <<reading, done>>
    BY <1>8 DEF AcceptEvent
  <2>2. backlog # <<>>
    BY <1>2, <2>1, ListenSocketIsNoConn DEF EventInv
  <2>3. CASE Cardinality(fds) < MaxFds
    <3>1. /\ registered' = registered \cup {Head(backlog)}
          /\ backlog' = Tail(backlog) /\ UNCHANGED <<listening, epc>>
      BY <1>8, <2>3 DEF AcceptEvent
    <3>2. /\ BacklogInv'
          /\ Accepted' = Accepted \cup {Head(backlog)} /\ Head(backlog) \notin Accepted
      BY <1>1, <2>2, <3>1, AcceptMoves DEF QuoteInv
    <3>3. Accepted' = registered' \cup done' /\ registered' \cap done' = {}
      BY <2>1, <3>1, <3>2 DEF EpollInv
    <3>4. \A c \in Conn : c \notin Accepted' => received'[c] = 0
      BY <1>1, <3>2 DEF EpollInv
    <3>5. \A f \in events' : f[1] # ListenSocket =>
            f[1] \in registered' /\ f[1] # NoEvent /\ Arrived(f[1])'
      BY <1>3, <1>4, <1>5, <3>1, NoEventIsNoConn
    <3> QED BY <1>1, <1>6, <2>1, <3>1, <3>2, <3>3, <3>4, <3>5 DEF EpollInv
  <2>4. CASE ~(Cardinality(fds) < MaxFds)
    <3>1. ~listening' /\ epc' = "ended" /\ UNCHANGED <<fds, registered, backlog>>
      BY <1>8, <2>4 DEF AcceptEvent
    <3>2. UNCHANGED <<Accepted, Established>>
      BY <1>1, <3>1 DEF Accepted, Established
    <3>3. BacklogInv'
      BY <3>1, <3>2 DEF BacklogInv
    <3>4. \A f \in events' : f[1] # ListenSocket =>
            f[1] \in registered' /\ f[1] # NoEvent /\ Arrived(f[1])'
      BY <1>3, <1>4, <1>5, <3>1, NoEventIsNoConn
    <3> QED BY <1>1, <1>6, <2>1, <2>4, <3>1, <3>2, <3>3, <3>4 DEF EpollInv
  <2> QED BY <2>3, <2>4
<1>9. CASE BeginRead(e)
  <2>1. /\ e[1] # ListenSocket /\ reading' = e[1]
        /\ UNCHANGED <<listening, epc, registered, fds, done, backlog>>
    BY <1>9 DEF BeginRead
  <2>2. UNCHANGED <<Accepted, Established>>
    BY <1>1, <2>1 DEF Accepted, Established
  <2>3. BacklogInv'
    BY <2>1, <2>2 DEF BacklogInv
  <2>4. \A f \in events' : f[1] # ListenSocket =>
          f[1] \in registered' /\ f[1] # reading' /\ Arrived(f[1])'
    BY <1>3, <1>4, <1>5, <2>1
  <2>5. reading' \in registered' /\ Arrived(reading)'
    BY <1>2, <1>3, <1>4, <2>1
  <2> QED BY <1>1, <1>6, <2>1, <2>2, <2>3, <2>4, <2>5 DEF EpollInv
<1> QED BY <1>2, <1>7, <1>8, <1>9

\* What is read is of the connection that is being read.
LEMMA ReadMoves ==
  ASSUME QuoteInv, EpollInv, EventInv, ReadPieces, UNCHANGED clientVars
  PROVE  EpollInv' /\ Accepted' = Accepted
<1>1. UNCHANGED <<listening, backlog, epc, registered, events, reading, fds, done>>
  BY DEF ReadPieces, epollVars
<1>2. UNCHANGED <<cpc, quoteN, sent, closed, lost>>
  BY DEF clientVars
<1>3. reading \in registered /\ reading \in Conn /\ reading # NoEvent /\ epc = "handle"
  BY DEF EpollInv, EventInv, EpollTypeOK, ReadPieces
<1>4. received[reading] \in Nat /\ sent[reading] \in Nat
  BY <1>3, ClientAssumption DEF QuoteInv, ClientTypeOK
<1>5. PICK pieces \in NextPieces(reading) :
        received' = [received EXCEPT ![reading] = received[reading] + Len(pieces)]
  BY DEF ReadPieces
<1>6. PICK k \in 1 .. sent[reading] - received[reading] : Len(pieces) = k
  BY <1>3, <1>4, <1>5, NextPiecesAre
<1>7. /\ received'[reading] > 0
      /\ \A c \in Conn : c # reading => received'[c] = received[c]
  BY <1>3, <1>4, <1>5, <1>6 DEF QuoteInv, ClientTypeOK
<1>8. Accepted' = Accepted
  BY <1>1, <1>2 DEF Accepted, Established
<1>9. \A c \in Conn : c \notin Accepted => c # reading /\ received[c] = 0
  BY <1>3 DEF EpollInv
<1>10. \A e \in events : e[1] # ListenSocket => e[1] \in Conn
  BY DEF EventInv, EpollTypeOK
<1>11. \A e \in events : e[1] # ListenSocket =>
         e[1] \in registered /\ e[1] # reading /\ Arrived(e[1])'
  BY <1>1, <1>2, <1>7, <1>10 DEF EpollInv, Arrived
<1>12. \A c \in Conn : c \notin Accepted' => received'[c] = 0
  BY <1>7, <1>8, <1>9
<1> QED BY <1>1, <1>3, <1>7, <1>8, <1>11, <1>12 DEF EpollInv

\* The connection that has been read leaves the set.
LEMMA EndMoves ==
  ASSUME EpollInv, EventInv, EndRead, UNCHANGED clientVars
  PROVE  EpollInv' /\ Accepted' = Accepted
<1>1. /\ UNCHANGED <<listening, backlog, received, epc, events, fds>>
      /\ UNCHANGED <<cpc, quoteN, sent, closed, lost>>
      /\ registered' = registered \ {reading} /\ done' = done \cup {reading}
      /\ reading # NoEvent /\ reading' = NoEvent
  BY DEF EndRead, clientVars
<1>2. reading \in registered
  BY <1>1 DEF EpollInv
<1>3. registered' \cup done' = registered \cup done /\ registered' \cap done' = {}
  BY <1>1, <1>2 DEF EpollInv
<1>4. Accepted' = Accepted
  BY <1>1 DEF Accepted, Established
<1>5. \A e \in events : e[1] # ListenSocket =>
        e[1] \in registered' /\ e[1] # NoEvent /\ Arrived(e[1])'
  BY <1>1, NoEventIsNoConn DEF EpollInv, Arrived, EventInv, EpollTypeOK
<1> QED BY <1>1, <1>3, <1>4, <1>5 DEF EpollInv

LEMMA EventsDoneMoves ==
  ASSUME EpollInv, EventsDone, UNCHANGED clientVars
  PROVE  EpollInv' /\ Accepted' = Accepted
<1>1. /\ epc = "handle" /\ epc' = "wait" /\ reading = NoEvent /\ events = {}
      /\ UNCHANGED <<listening, registered, events, reading, fds, done, backlog, received>>
      /\ UNCHANGED <<cpc, quoteN, sent, closed, lost>>
  BY DEF EventsDone, clientVars
<1> QED BY <1>1 DEF EpollInv, Accepted, Established

\* A step of the epoll server.
LEMMA EpollKeepsMoving ==
  ASSUME QuotesInv, MoveInv, server = "epoll", EpollServer, UNCHANGED <<serverVars, server>>
  PROVE  MoveInv'
<1>1. QuoteInv /\ EventInv /\ EpollInv /\ BacklogInv /\ ClosedInv
  BY DEF QuotesInv, MoveInv
<1>2. UNCHANGED clientVars /\ UNCHANGED <<cpc, quoteN, sent, closed, lost>>
  BY DEF EpollServer, clientVars
<1>3. ClosedInv'
  BY <1>1, <1>2 DEF ClosedInv
<1>4. EpollInv' /\ BacklogInv'
  <2>1. CASE HandleEvent
    BY <1>1, <1>2, <2>1, HandleMoves
  <2>2. CASE ~HandleEvent
    <3>1. UNCHANGED backlog
      BY <2>2 DEF EpollServer, EpollListen, Wait, ReadPieces, EndRead, EventsDone
    <3>2. BacklogInv'
      BY <1>1, <1>2, <3>1 DEF BacklogInv, Established
    <3>3. EpollInv'
      BY <1>1, <1>2, <2>2, EpollListenMoves, WaitMoves, ReadMoves, EndMoves, EventsDoneMoves
      DEF EpollServer
    <3> QED BY <3>2, <3>3
  <2> QED BY <2>1, <2>2
<1> QED BY <1>3, <1>4 DEF MoveInv

LEMMA StepMoveInv == QuotesInv /\ MoveInv /\ [TcpNext]_tcpVars => MoveInv'
<1> SUFFICES ASSUME QuotesInv, MoveInv, [TcpNext]_tcpVars
             PROVE  MoveInv'
  OBVIOUS
<1>1. CASE Threads(main) \/ \E w \in Worker : Threads(racey_worker(w))
  BY <1>1, ThreadsKeepMoving DEF Threads
<1>2. CASE Epoll(EpollServer)
  BY <1>2, EpollKeepsMoving DEF Epoll
<1>3. CASE Client(Lose \/ \E t \in ClientThread : ClientWorker(t, ListenBacklog))
  BY <1>3, ClientMoves DEF Client
<1>4. CASE UNCHANGED tcpVars
  <2>1. /\ UNCHANGED <<cpc, quoteN, sent, closed, lost, listening, backlog, received, server>>
        /\ UNCHANGED <<wpc, mpc, barrier, epc, registered, events, reading, fds, done>>
    BY <1>4 DEF tcpVars, clientVars, networkVars, serverVars, workerVars, mainVars, epollVars
  <2>2. UNCHANGED <<Accepted, Established>> /\ \A c : Arrived(c)' <=> Arrived(c)
    BY <2>1 DEF Accepted, Established, Arrived
  <2> QED BY <2>1, <2>2 DEF MoveInv, ClosedInv, BacklogInv, StartInv, EpollInv
<1> QED BY <1>1, <1>2, <1>3, <1>4, TcpStepCases

\* Neither server and none of their clients is ever stuck: until every connection
\* that was accepted has been dealt with, or the descriptors or the array are used
\* up, a client, main(), a worker or the epoll server can go on.
THEOREM TcpNeverStuck == TcpSpec => []TcpRuns
<1>1. QuotesInv /\ MoveInv /\ [TcpNext]_tcpVars => MoveInv'
  BY StepMoveInv
<1> QED BY <1>1, InitMoveInv, TcpMoves, QuotesInvariant, TcpInvariant, PTL DEF TcpSpec
-----------------------------------------------------------------------------
\* How far the clients, the servers and the connections have come.  A quote can be
\* read in as many pieces as there are, and each read is followed by a write.
ClientRank(t) ==
  IF cpc[t] = "over" THEN 3 * Quotes
  ELSE 3 * (quoteN[t] - 1) +
       CASE cpc[t] = "connect" -> 0 [] cpc[t] = "write" -> 1 [] cpc[t] = "close" -> 2

MainRank == CASE mpc = "create" -> 0 [] mpc = "listen" -> 1 [] OTHER -> 2
WorkerRank(w) == CASE wpc[w] = "idle" -> 0 [] wpc[w] = "spin" -> 1 [] OTHER -> 2
EpollRank == CASE epc = "start" -> 0 [] epc = "ended" -> 2 [] OTHER -> 1

Taking(w, c) == fd[w] = c /\ wpc[w] = "clear"
Reading(w, c) == fd[w] = c /\ wpc[w] = "read"

ServedRank(c) ==
  IF c \in served THEN 2 * Pieces + 6
  ELSE IF \E w \in Worker : Reading(w, c) THEN 2 * received[c] + 4
  ELSE IF \E w \in Worker : Writing(w, c) /\ buf[w] = <<>> THEN 2 * received[c] + 5
  ELSE IF \E w \in Worker : Writing(w, c) THEN 2 * received[c] + 3
  ELSE IF \E w \in Worker : Taking(w, c) THEN 3
  ELSE IF OnStack(c) THEN 2
  ELSE IF WithMain(c) THEN 1 ELSE 0

EpollServedRank(c) ==
  IF c \in done THEN Pieces + 3
  ELSE IF c = reading THEN received[c] + 2
  ELSE IF c \in registered THEN 1 ELSE 0

ConnRank(c) == IF server = "threads" THEN ServedRank(c) ELSE EpollServedRank(c)

\* The epoll server's way round its loop, from the last event to the next.
LoopRank ==
  CASE epc = "wait" -> 1 [] epc = "handle" /\ events # {} -> 2 [] OTHER -> 0

TcpRanksEnd ==
  /\ \A t \in ClientThread : ClientRank(t) \in 0 .. 3 * Quotes
  /\ \A c \in Conn : ConnRank(c) \in 0 .. 2 * Pieces + 6
  /\ \A w \in Worker : WorkerRank(w) \in 0 .. 2
  /\ MainRank \in 0 .. 2 /\ EpollRank \in 0 .. 2 /\ LoopRank \in 0 .. 2

\* No step takes anything back but the epoll server's way round its loop, and each
\* brings something on.
TcpAdvance ==
  /\ \A t \in ClientThread : ClientRank(t)' >= ClientRank(t)
  /\ \A c \in Conn : ConnRank(c)' >= ConnRank(c)
  /\ \A w \in Worker : WorkerRank(w)' >= WorkerRank(w)
  /\ MainRank' >= MainRank /\ EpollRank' >= EpollRank /\ lost \subseteq lost'
  /\ \/ \E t \in ClientThread : ClientRank(t)' > ClientRank(t)
     \/ \E c \in Conn : ConnRank(c)' > ConnRank(c)
     \/ \E w \in Worker : WorkerRank(w)' > WorkerRank(w)
     \/ MainRank' > MainRank \/ EpollRank' > EpollRank \/ lost' # lost
     \/ LoopRank' > LoopRank

LEMMA RanksAreBounded == QuotesInv => TcpRanksEnd
<1> SUFFICES ASSUME QuotesInv PROVE TcpRanksEnd
  OBVIOUS
<1>1. Shapes /\ ClientInv
  BY ClientShapes
<1>2. ASSUME NEW t \in ClientThread
      PROVE  ClientRank(t) \in 0 .. 3 * Quotes
  <2>1. /\ cpc[t] \in {"connect", "write", "close", "over"}
        /\ cpc[t] # "over" => quoteN[t] \in 1 .. Quotes
    BY <1>1, ClientAssumption DEF Shapes, ClientInv
  <2> QED BY <2>1, ClientAssumption DEF ClientRank
<1>3. ASSUME NEW c \in Conn
      PROVE  ConnRank(c) \in 0 .. 2 * Pieces + 6
  <2>1. received[c] \in 0 .. Pieces /\ Pieces \in Nat
    BY ClientAssumption DEF QuotesInv, QuoteInv, ClientTypeOK
  <2>2. ServedRank(c) \in 0 .. 2 * Pieces + 6
    <3> DEFINE r == received[c]
    <3>1. ServedRank(c) \in {2 * Pieces + 6, 2 * r + 4, 2 * r + 5, 2 * r + 3, 3, 2, 1, 0}
      BY Zenon DEF ServedRank
    <3>2. r \in 0 .. Pieces
      BY <2>1
    <3> HIDE DEF r
    <3> QED BY <2>1, <3>1, <3>2
  <2>3. EpollServedRank(c) \in 0 .. 2 * Pieces + 6
    BY <2>1 DEF EpollServedRank
  <2> QED BY <2>2, <2>3 DEF ConnRank
<1>4. MainRank \in 0 .. 2 /\ EpollRank \in 0 .. 2 /\ LoopRank \in 0 .. 2
  BY DEF MainRank, EpollRank, LoopRank
<1>5. \A w \in Worker : WorkerRank(w) \in 0 .. 2
  BY DEF WorkerRank
<1> QED BY <1>2, <1>3, <1>4, <1>5 DEF TcpRanksEnd

\* A step of a client brings that client on, and concerns no server.
LEMMA ClientRises ==
  ASSUME QuotesInv, TcpRanksEnd, TcpRanksEnd', NEW t \in ClientThread,
         ClientWorker(t, ListenBacklog), UNCHANGED <<serverVars, epollVars, server>>
  PROVE  TcpAdvance
<1>1. Shapes /\ ClientInv
  BY ClientShapes
<1>2. UNCHANGED <<received, lost>>
  BY DEF ClientWorker, Connect, WriteQuote, CloseConnection
<1>3. /\ UNCHANGED <<client_fds, client_idx, wpc, fd, buf, served, mpc, client_fd>>
      /\ UNCHANGED <<epc, registered, events, reading, done, server>>
  BY DEF serverVars, stackVars, workerVars, mainVars, epollVars
<1>4. \A c \in Conn : ConnRank(c)' = ConnRank(c)
  BY <1>2, <1>3 DEF ConnRank, ServedRank, EpollServedRank, Reading, Writing, Taking, OnStack, WithMain
<1>5. UNCHANGED <<MainRank, EpollRank, LoopRank>> /\ \A w \in Worker : WorkerRank(w)' = WorkerRank(w)
  BY <1>3 DEF MainRank, EpollRank, LoopRank, WorkerRank
<1>6. ASSUME NEW u \in ClientThread, u # t
      PROVE  ClientRank(u)' = ClientRank(u)
  <2>1. cpc'[u] = cpc[u] /\ quoteN'[u] = quoteN[u]
    BY <1>1, <1>6 DEF Shapes, ClientWorker, Connect, WriteQuote, CloseConnection
  <2> QED BY <2>1 DEF ClientRank
<1>7. ClientRank(t)' > ClientRank(t)
  <2>1. quoteN[t] \in 1 .. Quotes
    BY <1>1, ClientAssumption DEF Shapes, ClientInv, ClientWorker, Connect, WriteQuote, CloseConnection
  <2>2. \/ /\ cpc[t] = "connect" /\ cpc'[t] \in {"write", "over"}
           /\ quoteN'[t] = quoteN[t]
        \/ cpc[t] = "write" /\ cpc'[t] = "close" /\ quoteN'[t] = quoteN[t]
        \/ /\ cpc[t] = "close" /\ cpc'[t] \in {"connect", "over"}
           /\ quoteN'[t] = quoteN[t] + 1
    BY <1>1 DEF Shapes, ClientWorker, Connect, WriteQuote, CloseConnection
  <2> QED BY <2>1, <2>2, ClientAssumption DEF ClientRank
<1>8. \A u \in ClientThread : ClientRank(u)' >= ClientRank(u)
  BY <1>6, <1>7 DEF TcpRanksEnd
<1>9. /\ \A c \in Conn : ConnRank(c)' >= ConnRank(c)
      /\ \A w \in Worker : WorkerRank(w)' >= WorkerRank(w)
      /\ MainRank' >= MainRank /\ EpollRank' >= EpollRank
  BY <1>4, <1>5 DEF TcpRanksEnd
<1> QED BY <1>2, <1>7, <1>8, <1>9 DEF TcpAdvance

LEMMA LoseRises ==
  ASSUME TcpRanksEnd, Lose, UNCHANGED <<serverVars, epollVars, server>>
  PROVE  TcpAdvance
<1>1. UNCHANGED <<received, cpc, quoteN>> /\ lost \subseteq lost' /\ lost' # lost
  BY DEF Lose
<1>2. /\ UNCHANGED <<client_fds, client_idx, wpc, fd, buf, served, mpc, client_fd>>
      /\ UNCHANGED <<epc, registered, events, reading, done, server>>
  BY DEF serverVars, stackVars, workerVars, mainVars, epollVars
<1>3. \A c \in Conn : ConnRank(c)' = ConnRank(c)
  BY <1>1, <1>2 DEF ConnRank, ServedRank, EpollServedRank, Reading, Writing, Taking, OnStack, WithMain
<1>4. /\ UNCHANGED <<MainRank, EpollRank>>
      /\ \A w \in Worker : WorkerRank(w)' = WorkerRank(w)
      /\ \A t \in ClientThread : ClientRank(t)' = ClientRank(t)
  BY <1>1, <1>2 DEF MainRank, EpollRank, WorkerRank, ClientRank
<1> QED BY <1>1, <1>3, <1>4 DEF TcpAdvance, TcpRanksEnd

\* Where a connection of the threaded server is says how far it has come.
ThreadRanks ==
  \A c \in Conn :
    /\ c \in served => ServedRank(c) = 2 * Pieces + 6
    /\ \A w \in Worker :
         /\ Taking(w, c) => ServedRank(c) = 3
         /\ Reading(w, c) => ServedRank(c) = 2 * received[c] + 4
         /\ Writing(w, c) /\ buf[w] = <<>> => ServedRank(c) = 2 * received[c] + 5
         /\ Writing(w, c) /\ buf[w] # <<>> => ServedRank(c) = 2 * received[c] + 3
    /\ OnStack(c) /\ (\A w \in Worker : ~Taking(w, c)) => ServedRank(c) = 2
    /\ WithMain(c) => ServedRank(c) = 1
    /\ c \notin Accepted => ServedRank(c) = 0

LEMMA ServerHasRanks == ServerInv => ThreadRanks
<1> SUFFICES ASSUME ServerInv, NEW c \in Conn
             PROVE  /\ c \in served => ServedRank(c) = 2 * Pieces + 6
                    /\ \A w \in Worker :
                         /\ Taking(w, c) => ServedRank(c) = 3
                         /\ Reading(w, c) => ServedRank(c) = 2 * received[c] + 4
                         /\ Writing(w, c) /\ buf[w] = <<>> => ServedRank(c) = 2 * received[c] + 5
                         /\ Writing(w, c) /\ buf[w] # <<>> => ServedRank(c) = 2 * received[c] + 3
                    /\ OnStack(c) /\ (\A w \in Worker : ~Taking(w, c)) => ServedRank(c) = 2
                    /\ WithMain(c) => ServedRank(c) = 1
                    /\ c \notin Accepted => ServedRank(c) = 0
  BY DEF ThreadRanks
<1>1. /\ c \in Accepted <=> WithMain(c) \/ OnStack(c) \/ WithWorker(c) \/ c \in served
      /\ WithMain(c) => ~OnStack(c) /\ ~WithWorker(c) /\ c \notin served
      /\ OnStack(c) => ~WithWorker(c) /\ c \notin served
      /\ WithWorker(c) => c \notin served
  BY DEF ServerInv, PlaceInv
<1>2. ASSUME NEW w \in Worker, Taking(w, c)
      PROVE  OnStack(c)
  <2>1. client_idx >= 0 /\ client_fds[client_idx] = c
    BY <1>2 DEF Taking, ServerInv, LockInv
  <2>2. client_idx \in 0 .. client_idx
    BY <2>1 DEF ServerInv, Shapes
  <2> QED BY <2>1, <2>2 DEF OnStack
<1>3. \A w \in Worker : Reading(w, c) \/ Writing(w, c) <=> InService(w, c)
  BY DEF Reading, Writing, InService
<1>4. \A v, w \in Worker : InService(v, c) /\ InService(w, c) => v = w
  BY DEF ServerInv, PlaceInv
<1>5. \A w \in Worker : ~(Reading(w, c) /\ Writing(w, c))
  BY DEF Reading, Writing
<1>6. \A w \in Worker : InService(w, c) => WithWorker(c)
  BY DEF WithWorker
<1>7. c \in served => ServedRank(c) = 2 * Pieces + 6
  BY DEF ServedRank
<1>8. ASSUME NEW w \in Worker
      PROVE  /\ Reading(w, c) => ServedRank(c) = 2 * received[c] + 4
             /\ Writing(w, c) /\ buf[w] = <<>> => ServedRank(c) = 2 * received[c] + 5
             /\ Writing(w, c) /\ buf[w] # <<>> => ServedRank(c) = 2 * received[c] + 3
  BY <1>1, <1>3, <1>4, <1>5, <1>6 DEF ServedRank
<1>9. OnStack(c) => c \notin served /\ \A w \in Worker : ~Reading(w, c) /\ ~Writing(w, c)
  BY <1>1, <1>3, <1>6
<1>10. ASSUME NEW w \in Worker
       PROVE  Taking(w, c) => ServedRank(c) = 3
  BY <1>2, <1>9 DEF ServedRank
<1>11. OnStack(c) /\ (\A w \in Worker : ~Taking(w, c)) => ServedRank(c) = 2
  BY <1>9 DEF ServedRank
<1>12. ~OnStack(c) /\ ~WithWorker(c) /\ c \notin served => ServedRank(c) = IF WithMain(c) THEN 1 ELSE 0
  BY <1>2, <1>3, <1>6 DEF ServedRank
<1> QED BY <1>1, <1>7, <1>8, <1>10, <1>11, <1>12

\* A connection that nobody moves comes no further.
LEMMA RankKept ==
  ASSUME NEW c \in Conn, received'[c] = received[c],
         c \in served' <=> c \in served, OnStack(c)' <=> OnStack(c), WithMain(c)' <=> WithMain(c),
         \A v \in Worker : fd[v] = c \/ fd'[v] = c =>
           fd'[v] = fd[v] /\ wpc'[v] = wpc[v] /\ buf'[v] = buf[v]
  PROVE  ServedRank(c)' = ServedRank(c)
<1>1. \A v \in Worker : /\ Taking(v, c)' <=> Taking(v, c)
                        /\ Reading(v, c)' <=> Reading(v, c)
                        /\ Writing(v, c)' <=> Writing(v, c)
                        /\ Writing(v, c)' /\ buf'[v] = <<>> <=> Writing(v, c) /\ buf[v] = <<>>
  BY DEF Taking, Reading, Writing
<1> QED BY <1>1 DEF ServedRank

\* What is common to the steps of the threaded server: one connection at most
\* comes on, and no worker and not main() goes back.
LEMMA OneRises ==
  ASSUME TcpRanksEnd, TcpRanksEnd', server = "threads", UNCHANGED <<cpc, quoteN, lost, epc, server>>,
         NEW moved, \A c \in Conn : c # moved => ServedRank(c)' = ServedRank(c),
         moved \in Conn => ServedRank(moved)' > ServedRank(moved),
         \A w \in Worker : WorkerRank(w)' >= WorkerRank(w), MainRank' >= MainRank,
         \/ moved \in Conn \/ MainRank' > MainRank
         \/ \E w \in Worker : WorkerRank(w)' > WorkerRank(w)
  PROVE  TcpAdvance
<1>1. \A c \in Conn : ConnRank(c) = ServedRank(c) /\ ConnRank(c)' = ServedRank(c)'
  BY DEF ConnRank
<1>2. \A c \in Conn : ConnRank(c) \in Int /\ ConnRank(c)' \in Int
  BY DEF TcpRanksEnd
<1>3. \A c \in Conn : ConnRank(c)' >= ConnRank(c) /\ (c = moved => ConnRank(c)' > ConnRank(c))
  BY <1>1, <1>2
<1>4. \A t \in ClientThread : ClientRank(t)' = ClientRank(t)
  BY DEF ClientRank
<1>5. EpollRank' = EpollRank /\ EpollRank \in Int
  BY DEF EpollRank, TcpRanksEnd
<1>6. \A t \in ClientThread : ClientRank(t)' >= ClientRank(t)
  BY <1>4, ClientAssumption DEF TcpRanksEnd
<1>7. EpollRank' >= EpollRank
  BY <1>5
<1> QED BY <1>3, <1>6, <1>7 DEF TcpAdvance

\* main() creates a worker or starts to listen: that concerns no connection.
LEMMA SetUpRises ==
  ASSUME ServerInv, TcpRanksEnd, TcpRanksEnd', server = "threads", CreateWorker \/ Listen,
         UNCHANGED <<clientVars, received, epollVars, server>>
  PROVE  TcpAdvance
<1>1. UNCHANGED <<cpc, quoteN, lost, epc, received, client_fds, client_idx, fd, buf, served, client_fd>>
  BY DEF clientVars, epollVars, CreateWorker, Listen, workerVars, stackVars
<1>2. Shapes /\ HoldInv
  BY DEF ServerInv
<1>3. CASE CreateWorker
  <2>1. PICK w \in Worker :
          /\ \A v \in Worker : wpc[v] = "idle" <=> v >= w
          /\ wpc' = [wpc EXCEPT ![w] = "spin"]
    BY <1>3 DEF CreateWorker
  <2>2. wpc[w] = "idle"
    BY <2>1 DEF Worker
  <2>3. wpc'[w] = "spin" /\ \A v \in Worker : v # w => wpc'[v] = wpc[v]
    BY <1>2, <2>1 DEF Shapes
  <2>4. WorkerRank(w)' > WorkerRank(w) /\ \A v \in Worker : WorkerRank(v)' >= WorkerRank(v)
    BY <2>2, <2>3 DEF WorkerRank
  <2>5. MainRank' >= MainRank
    BY <1>3 DEF CreateWorker, MainRank
  <2>6. \A c \in Conn : fd[w] # c
    BY <1>2, <2>2, NoFdIsNoConn DEF HoldInv
  <2>7. \A c \in Conn : ServedRank(c)' = ServedRank(c)
    BY <1>1, <2>3, <2>6, RankKept DEF OnStack, WithMain
  <2>8. NoFd \notin Conn
    BY NoFdIsNoConn
  <2> QED BY <1>1, <2>4, <2>5, <2>7, <2>8, OneRises
<1>4. CASE Listen
  <2>1. UNCHANGED wpc
    BY <1>4 DEF Listen, workerVars
  <2>2. \A v \in Worker : WorkerRank(v)' >= WorkerRank(v)
    BY <2>1 DEF WorkerRank
  <2>3. MainRank' > MainRank /\ MainRank' >= MainRank
    BY <1>4 DEF Listen, MainRank
  <2>4. \A c \in Conn : ServedRank(c)' = ServedRank(c)
    BY <1>1, <2>1, RankKept DEF OnStack, WithMain
  <2>5. NoFd \notin Conn
    BY NoFdIsNoConn
  <2> QED BY <1>1, <2>2, <2>3, <2>4, <2>5, OneRises
<1> QED BY <1>3, <1>4

\* main() takes a connection from the backlog, or puts it on the stack.
LEMMA AcceptRises ==
  ASSUME ServerInv, ServerInv', ThreadRanks, ThreadRanks', TcpRanksEnd, TcpRanksEnd',
         server = "threads", Accept \/ Push,
         UNCHANGED <<clientVars, received, epollVars, server>>
  PROVE  TcpAdvance
<1>1. UNCHANGED <<cpc, quoteN, lost, epc, received, fd, buf, wpc, served>>
  BY DEF clientVars, epollVars, Accept, Push, workerVars
<1>2. Shapes /\ HoldInv /\ StackInv
  BY DEF ServerInv
<1>3. (\A v \in Worker : WorkerRank(v)' >= WorkerRank(v)) /\ MainRank' >= MainRank
  <2>1. \A v \in Worker : WorkerRank(v)' >= WorkerRank(v)
    BY <1>1 DEF WorkerRank
  <2>2. MainRank = 2 /\ MainRank' = 2
    BY DEF Accept, Push, MainRank
  <2> QED BY <2>1, <2>2
<1>4. CASE Accept
  <2>1. /\ client_fd' = Head(backlog) /\ UNCHANGED <<client_fds, client_idx>>
        /\ backlog # <<>> /\ backlog' = Tail(backlog) /\ mpc = "accept"
    BY <1>4 DEF Accept, stackVars
  <2>2. PICK new \in Conn : new \notin Accepted /\ client_fd' = new
    BY <1>1, <1>2, <2>1, AcceptMoves DEF ServerInv, Shapes
  <2>3. \A c \in Conn : ~WithMain(c) /\ (WithMain(c)' <=> c = new)
    BY <1>2, <2>1, <2>2, NoFdIsNoConn DEF WithMain, HoldInv
  <2>4. ServedRank(new) = 0 /\ ServedRank(new)' = 1
    BY <2>2, <2>3 DEF ThreadRanks
  <2>5. \A c \in Conn : c # new => ServedRank(c)' = ServedRank(c)
    BY <1>1, <2>1, <2>3, RankKept DEF OnStack
  <2>6. ServedRank(new)' > ServedRank(new)
    BY <2>4
  <2> QED BY <1>1, <1>3, <2>2, <2>5, <2>6, OneRises
<1>5. CASE Push
  <2>1. /\ mpc = "push" /\ fdsLock = Free /\ client_fd' = NoFd
        /\ client_idx < Slots /\ client_idx' = client_idx + 1
        /\ client_fds' = [client_fds EXCEPT ![client_idx + 1] = client_fd]
    BY <1>5 DEF Push
  <2>2. PICK moved \in Conn : moved = client_fd
    BY <1>2, <2>1 DEF HoldInv, Shapes
  <2>3. client_idx + 1 \in -1 .. Slots /\ client_idx \in Int /\ client_idx + 1 >= 0
    BY <1>2, <2>1, ServerAssumption DEF Shapes
  <2>4. /\ client_fds'[client_idx + 1] = moved
        /\ \A i \in 0 .. client_idx : client_fds'[i] = client_fds[i]
    BY <1>2, <2>1, <2>2, <2>3, ServerAssumption DEF Shapes
  <2>5. \A i : i \in 0 .. client_idx' <=> i \in 0 .. client_idx \/ i = client_idx + 1
    BY <2>1, <2>3
  <2>6. \A c \in Conn : OnStack(c)' <=> OnStack(c) \/ c = moved
    BY <2>4, <2>5 DEF OnStack
  <2>7. \A w \in Worker : wpc'[w] # "clear"
    BY <1>1, <2>1 DEF ServerInv, LockInv, Worker, Free
  <2>8. \A w \in Worker : ~Taking(w, moved)'
    BY <2>7 DEF Taking
  <2>9. \A c \in Conn : (WithMain(c) <=> c = moved) /\ ~WithMain(c)'
    BY <2>1, <2>2, NoFdIsNoConn DEF WithMain
  <2>10. ServedRank(moved) = 1 /\ ServedRank(moved)' = 2
    BY <2>6, <2>8, <2>9 DEF ThreadRanks
  <2>11. \A c \in Conn : c # moved => ServedRank(c)' = ServedRank(c)
    BY <1>1, <2>6, <2>9, RankKept
  <2>12. ServedRank(moved)' > ServedRank(moved)
    BY <2>10
  <2> QED BY <1>1, <1>3, <2>11, <2>12, OneRises
<1> QED BY <1>4, <1>5

\* A worker takes the top of the stack, which no other is taking, and clears it.
LEMMA TakeRises ==
  ASSUME ServerInv, ServerInv', ThreadRanks, ThreadRanks', TcpRanksEnd, TcpRanksEnd', QuotesInv,
         server = "threads", NEW w \in Worker, LeaveSpin(w) \/ Take(w) \/ Pop(w),
         UNCHANGED <<clientVars, listening, backlog, mainVars, epollVars, server>>
  PROVE  TcpAdvance
<1>1. UNCHANGED <<cpc, quoteN, lost, epc, received, buf, mpc, client_fd, served>>
  BY DEF clientVars, epollVars, mainVars, LeaveSpin, Take, Pop
<1>2. Shapes /\ HoldInv /\ StackInv /\ LockInv
  BY DEF ServerInv
<1>3. /\ \A v \in Worker : v # w => wpc'[v] = wpc[v] /\ fd'[v] = fd[v]
      /\ wpc[w] \in {"spin", "poll", "clear"} /\ wpc'[w] \in {"poll", "clear", "read"}
      /\ MainRank' >= MainRank
  BY <1>1, <1>2 DEF LeaveSpin, Take, Pop, Shapes, MainRank
<1>4. \A v \in Worker : WorkerRank(v)' >= WorkerRank(v)
  BY <1>3 DEF WorkerRank
<1>5. \A c \in Conn : WithMain(c)' <=> WithMain(c)
  BY <1>1 DEF WithMain
<1>6. CASE LeaveSpin(w)
  <2>1. wpc[w] = "spin" /\ UNCHANGED <<fd, client_fds, client_idx>>
    BY <1>6 DEF LeaveSpin, stackVars
  <2>2. WorkerRank(w)' > WorkerRank(w)
    BY <1>3, <2>1 DEF WorkerRank
  <2>3. \A c \in Conn : fd[w] # c
    BY <1>2, <2>1, NoFdIsNoConn DEF HoldInv
  <2>4. \A c \in Conn : ServedRank(c)' = ServedRank(c)
    BY <1>1, <1>3, <1>5, <2>1, <2>3, RankKept DEF OnStack
  <2>5. NoFd \notin Conn
    BY NoFdIsNoConn
  <2> QED BY <1>1, <1>3, <1>4, <2>2, <2>4, <2>5, OneRises
<1>7. CASE Take(w)
  <2>1. /\ wpc[w] = "poll" /\ fdsLock = Free /\ UNCHANGED <<client_fds, client_idx>>
        /\ client_fds[client_idx] # NoFd
        /\ fd' = [fd EXCEPT ![w] = client_fds[client_idx]] /\ wpc'[w] = "clear"
    BY <1>2, <1>7 DEF Take, stackVars, Shapes
  <2>2. PICK top \in Conn : OnStack(top) /\ fd'[w] = top
    BY <1>2, <2>1 DEF Shapes, StackInv, OnStack
  <2>3. \A v \in Worker : \A c : ~Taking(v, c)
    BY <1>2, <2>1 DEF Taking, LockInv, Worker, Free
  <2>4. Taking(w, top)'
    BY <2>1, <2>2 DEF Taking
  <2>5. ServedRank(top) = 2
    BY <2>2, <2>3 DEF ThreadRanks
  <2>6. ServedRank(top)' = 3
    BY <2>2, <2>4 DEF ThreadRanks
  <2>7. \A c \in Conn : fd[w] # c
    BY <1>2, <2>1, NoFdIsNoConn DEF HoldInv
  <2>8. \A c \in Conn : c # top => ServedRank(c)' = ServedRank(c)
    BY <1>1, <1>3, <1>5, <2>1, <2>2, <2>7, RankKept DEF OnStack
  <2>9. ServedRank(top)' > ServedRank(top)
    BY <2>5, <2>6
  <2> QED BY <1>1, <1>3, <1>4, <2>2, <2>8, <2>9, OneRises
<1>8. CASE Pop(w)
  <2>1. /\ wpc[w] = "clear" /\ wpc'[w] = "read" /\ UNCHANGED fd
        /\ client_fds' = [client_fds EXCEPT ![client_idx] = NoFd] /\ client_idx' = client_idx - 1
    BY <1>2, <1>8 DEF Pop, Shapes
  <2>2. PICK top \in Conn : fd[w] = top /\ client_fds[client_idx] = top
    BY <1>2, <2>1 DEF Shapes, HoldInv, LockInv
  <2>3. client_idx >= 0 /\ client_idx \in -1 .. Slots
    BY <1>2, <2>1 DEF Shapes, LockInv
  <2>4. Taking(w, top) /\ Reading(w, top)'
    BY <2>1, <2>2 DEF Taking, Reading
  <2>5. ServedRank(top) = 3 /\ ServedRank(top)' = 2 * received[top] + 4
    BY <1>1, <2>2, <2>4 DEF ThreadRanks
  <2>6. received[top] \in Nat
    BY <2>2, ClientAssumption DEF QuotesInv, QuoteInv, ClientTypeOK
  <2>7. ServedRank(top)' > ServedRank(top)
    BY <2>5, <2>6
  <2>8. ASSUME NEW c \in Conn, c # top
        PROVE  OnStack(c)' <=> OnStack(c)
    <3>1. \A i \in 0 .. client_idx' : i \in 0 .. client_idx /\ i \in -1 .. Slots /\ i # client_idx
      BY <2>1, <2>3, ServerAssumption
    <3>2. \A i \in 0 .. client_idx : i # client_idx => i \in 0 .. client_idx'
      BY <2>1, <2>3
    <3>3. \A i \in 0 .. client_idx' : client_fds'[i] = client_fds[i]
      BY <1>2, <2>1, <3>1 DEF Shapes
    <3> QED BY <2>2, <2>8, <3>1, <3>2, <3>3 DEF OnStack
  <2>9. \A c \in Conn : c # top => fd[w] # c /\ fd'[w] # c
    BY <2>1, <2>2
  <2>10. \A c \in Conn : c # top => ServedRank(c)' = ServedRank(c)
    BY <1>1, <1>3, <1>5, <2>8, <2>9, RankKept
  <2> QED BY <1>1, <1>3, <1>4, <2>2, <2>7, <2>10, OneRises
<1> QED BY <1>6, <1>7, <1>8

\* A worker reads some of its connection's pieces or the end, and writes them.
LEMMA CopyRises ==
  ASSUME ServerInv, ServerInv', ThreadRanks, ThreadRanks', TcpRanksEnd, TcpRanksEnd', QuotesInv,
         server = "threads", NEW w \in Worker, Read(w) \/ Write(w),
         UNCHANGED <<clientVars, listening, backlog, mainVars, epollVars, server>>
  PROVE  TcpAdvance
<1>1. UNCHANGED <<cpc, quoteN, lost, epc, mpc, client_fd, client_fds, client_idx>>
  BY DEF clientVars, epollVars, mainVars, Read, Write, stackVars
<1>2. Shapes /\ HoldInv
  BY DEF ServerInv
<1>3. /\ \A v \in Worker : v # w => wpc'[v] = wpc[v] /\ fd'[v] = fd[v]
      /\ wpc[w] \in {"read", "write"} /\ wpc'[w] \in {"read", "write", "poll"}
  BY <1>2 DEF Read, Write, Shapes
<1>4. (\A v \in Worker : WorkerRank(v)' >= WorkerRank(v)) /\ MainRank' >= MainRank
  <2>1. \A v \in Worker : WorkerRank(v)' >= WorkerRank(v)
    BY <1>3 DEF WorkerRank
  <2>2. MainRank' >= MainRank
    BY <1>1 DEF MainRank
  <2> QED BY <2>1, <2>2
<1>5. \A d \in Conn : (WithMain(d)' <=> WithMain(d)) /\ (OnStack(d)' <=> OnStack(d))
  BY <1>1 DEF WithMain, OnStack
<1>6. /\ \A v \in Worker : v # w => buf'[v] = buf[v]
      /\ buf \in [Worker -> Seq(Nat)]
  BY DEF Read, Write, QuotesInv, CopyInv
<1>7. PICK c \in Conn : fd[w] = c /\ (fd'[w] = c \/ fd'[w] = NoFd)
  BY <1>2, <1>3 DEF HoldInv, Shapes, Read, Write
<1>8. received[c] \in 0 .. Pieces /\ sent[c] \in Nat /\ Pieces \in Nat /\ received \in [Conn -> 0 .. Pieces]
  BY <1>7, ClientAssumption DEF QuotesInv, QuoteInv, ClientTypeOK
<1>9. \A d \in Conn : d # c => received'[d] = received[d] /\ (d \in served' <=> d \in served)
  BY <1>7, <1>8 DEF Read, Write
<1>10. \A d \in Conn : d # c => fd[w] # d /\ fd'[w] # d
  BY <1>7, NoFdIsNoConn
<1>11. ASSUME NEW d \in Conn, d # c
       PROVE  ServedRank(d)' = ServedRank(d)
  <2>1. \A v \in Worker : fd[v] = d \/ fd'[v] = d =>
          fd'[v] = fd[v] /\ wpc'[v] = wpc[v] /\ buf'[v] = buf[v]
    BY <1>3, <1>6, <1>10, <1>11
  <2> QED BY <1>5, <1>9, <1>11, <2>1, RankKept
<1>12. ServedRank(c)' > ServedRank(c)
  <2>1. CASE Read(w)
    <3>1. wpc[w] = "read" /\ wpc'[w] = "write" /\ UNCHANGED fd
      BY <1>2, <2>1 DEF Read, Shapes
    <3>2. Reading(w, c) /\ Writing(w, c)'
      BY <1>7, <3>1 DEF Reading, Writing
    <3>3. ServedRank(c) = 2 * received[c] + 4
      BY <1>7, <3>2 DEF ThreadRanks
    <3>4. CASE \E pieces \in NextPieces(c) :
                 /\ buf' = [buf EXCEPT ![w] = pieces]
                 /\ received' = [received EXCEPT ![c] = received[c] + Len(pieces)]
      <4>1. PICK pieces \in NextPieces(c) :
                 /\ buf' = [buf EXCEPT ![w] = pieces]
                 /\ received' = [received EXCEPT ![c] = received[c] + Len(pieces)]
        BY <3>4
      <4>2. PICK k \in 1 .. sent[c] - received[c] : pieces = After(received[c], k) /\ Len(pieces) = k
        BY <1>7, <1>8, <4>1, NextPiecesAre
      <4>3. k >= 1 /\ k \in Nat /\ pieces # <<>>
        BY <4>2, <1>8
      <4>4. buf'[w] = pieces /\ received'[c] = received[c] + k
        BY <1>6, <1>7, <1>8, <4>1, <4>2
      <4>5. ServedRank(c)' = 2 * received'[c] + 3
        BY <1>7, <3>2, <4>3, <4>4 DEF ThreadRanks
      <4> QED BY <1>8, <3>3, <4>3, <4>4, <4>5
    <3>5. CASE buf' = [buf EXCEPT ![w] = <<>>] /\ UNCHANGED received
      <4>1. buf'[w] = <<>>
        BY <1>6, <3>5
      <4>2. ServedRank(c)' = 2 * received[c] + 5
        BY <1>7, <3>2, <3>5, <4>1 DEF ThreadRanks
      <4> QED BY <1>8, <3>3, <4>2
    <3> QED BY <1>7, <2>1, <3>4, <3>5 DEF Read
  <2>2. CASE Write(w)
    <3>1. wpc[w] = "write" /\ UNCHANGED received /\ Writing(w, c)
      BY <1>7, <2>2 DEF Write, Writing
    <3>2. CASE buf[w] # <<>>
      <4>1. wpc'[w] = "read" /\ UNCHANGED fd
        BY <1>2, <2>2, <3>2 DEF Write, Shapes
      <4>2. Reading(w, c)'
        BY <1>7, <4>1 DEF Reading
      <4>3. ServedRank(c) = 2 * received[c] + 3 /\ ServedRank(c)' = 2 * received[c] + 4
        BY <1>7, <3>1, <3>2, <4>2 DEF ThreadRanks
      <4> QED BY <1>8, <4>3
    <3>3. CASE buf[w] = <<>>
      <4>1. c \in served'
        BY <1>7, <2>2, <3>3 DEF Write
      <4>2. ServedRank(c) = 2 * received[c] + 5 /\ ServedRank(c)' = 2 * Pieces + 6
        BY <1>7, <3>1, <3>3, <4>1 DEF ThreadRanks
      <4> QED BY <1>8, <4>2
    <3> QED BY <3>2, <3>3
  <2> QED BY <2>1, <2>2
<1> QED BY <1>1, <1>3, <1>4, <1>7, <1>11, <1>12, OneRises

\* A step of the threaded server.
LEMMA ThreadsRise ==
  ASSUME ServerInv, ServerInv', ThreadRanks, ThreadRanks', TcpRanksEnd, TcpRanksEnd', QuotesInv,
         server = "threads", main \/ \E w \in Worker : racey_worker(w), UNCHANGED <<epollVars, server>>
  PROVE  TcpAdvance
<1>1. CASE main
  BY <1>1, SetUpRises, AcceptRises DEF main
<1>2. ASSUME NEW w \in Worker, racey_worker(w)
      PROVE  TcpAdvance
  BY <1>2, TakeRises, CopyRises DEF racey_worker
<1> QED BY <1>1, <1>2

\* What is common to the steps of the epoll server: a connection comes on, or the
\* server does.
LEMMA EpollOneRises ==
  ASSUME TcpRanksEnd, TcpRanksEnd', server = "epoll",
         UNCHANGED <<cpc, quoteN, lost, wpc, mpc, server>>,
         \A c \in Conn : EpollServedRank(c)' >= EpollServedRank(c),
         EpollRank' >= EpollRank,
         \/ \E c \in Conn : EpollServedRank(c)' > EpollServedRank(c)
         \/ EpollRank' > EpollRank \/ LoopRank' > LoopRank
  PROVE  TcpAdvance
<1>1. \A c \in Conn : ConnRank(c) = EpollServedRank(c) /\ ConnRank(c)' = EpollServedRank(c)'
  BY DEF ConnRank
<1>2. UNCHANGED MainRank /\ \A w \in Worker : WorkerRank(w)' = WorkerRank(w)
  BY DEF MainRank, WorkerRank
<1>3. \A t \in ClientThread : ClientRank(t)' = ClientRank(t)
  BY DEF ClientRank
<1>4. \A t \in ClientThread : ClientRank(t)' >= ClientRank(t)
  BY <1>3, ClientAssumption DEF TcpRanksEnd
<1>5. MainRank' >= MainRank /\ \A w \in Worker : WorkerRank(w)' >= WorkerRank(w)
  BY <1>2 DEF TcpRanksEnd
<1> QED BY <1>1, <1>4, <1>5 DEF TcpAdvance

\* Handling the events of a round, and waiting for the next, concern no connection.
LEMMA EpollLoopRises ==
  ASSUME EventInv, EpollInv, TcpRanksEnd, TcpRanksEnd', server = "epoll",
         EpollListen \/ Wait \/ EventsDone, UNCHANGED <<clientVars, serverVars, server>>
  PROVE  TcpAdvance
<1>1. /\ UNCHANGED <<cpc, quoteN, lost, wpc, mpc>>
      /\ UNCHANGED <<done, reading, registered, received>>
  BY DEF clientVars, serverVars, workerVars, mainVars, EpollListen, Wait, EventsDone
<1>2. \A c \in Conn : EpollServedRank(c)' >= EpollServedRank(c)
  <2>1. \A c \in Conn : EpollServedRank(c)' = EpollServedRank(c)
    BY <1>1 DEF EpollServedRank
  <2>2. \A c \in Conn : EpollServedRank(c) \in Int
    BY DEF TcpRanksEnd, ConnRank
  <2> QED BY <2>1, <2>2
<1>3. EpollRank' >= EpollRank /\ (EpollRank' > EpollRank \/ LoopRank' > LoopRank)
  <2>1. CASE EpollListen
    BY <2>1 DEF EpollListen, EpollRank
  <2>2. CASE Wait
    <3>1. epc = "wait" /\ epc' = "handle" /\ events' # {}
      BY <2>2 DEF Wait
    <3> QED BY <3>1 DEF EpollRank, LoopRank
  <2>3. CASE EventsDone
    BY <2>3 DEF EventsDone, EpollRank, LoopRank
  <2> QED BY <2>1, <2>2, <2>3
<1> QED BY <1>1, <1>2, <1>3, EpollOneRises

\* An event that is handled brings the connection on that it is about.
LEMMA HandleRises ==
  ASSUME QuoteInv, BacklogInv, EventInv, EpollInv, TcpRanksEnd, TcpRanksEnd', server = "epoll",
         HandleEvent, UNCHANGED <<clientVars, serverVars, server>>
  PROVE  TcpAdvance
<1>1. /\ UNCHANGED <<cpc, quoteN, lost, wpc, mpc, received>>
      /\ epc = "handle" /\ reading = NoEvent
  BY DEF clientVars, serverVars, workerVars, mainVars, HandleEvent
<1>2. PICK e \in events : /\ CloseBroken(e) \/ AcceptEvent(e) \/ BeginRead(e)
                          /\ events' = events \ {e}
  BY DEF HandleEvent
<1>3. \A c \in Conn : received[c] \in 0 .. Pieces /\ Pieces \in Nat /\ c # NoEvent
  BY ClientAssumption, NoEventIsNoConn DEF QuoteInv, ClientTypeOK
<1>4. EpollRank = 1
  BY <1>1 DEF EpollRank
<1>5. ASSUME NEW c \in Conn, EpollServedRank(c)' > EpollServedRank(c), epc' = epc,
             \A d \in Conn : d # c => EpollServedRank(d)' = EpollServedRank(d)
      PROVE  TcpAdvance
  <2>1. \A d \in Conn : EpollServedRank(d) \in Int /\ EpollServedRank(d)' \in Int
    BY DEF TcpRanksEnd, ConnRank
  <2>2. \A d \in Conn : EpollServedRank(d)' >= EpollServedRank(d)
    BY <1>5, <2>1
  <2>3. EpollRank' >= EpollRank
    BY <1>4, <1>5 DEF EpollRank
  <2> QED BY <1>1, <1>5, <2>2, <2>3, EpollOneRises
<1>6. \A c \in registered : c \in Conn /\ c \notin done
  BY DEF EpollInv, EventInv, EpollTypeOK
<1>7. CASE CloseBroken(e)
  <2>1. e # <<ListenSocket, FALSE>>
    <3>1. e = <<ListenSocket, FALSE>> => e[2] = FALSE
      OBVIOUS
    <3>2. e[2]
      BY <1>7 DEF CloseBroken
    <3> QED BY <3>1, <3>2, Zenon
  <2>2. PICK c \in Conn : e[1] = c
    BY <1>2, <2>1 DEF EventInv
  <2>3. c \in registered
    BY <1>2, <2>2, ListenSocketIsNoConn DEF EpollInv
  <2>4. /\ registered' = registered \ {c} /\ done' = done \cup {c}
        /\ UNCHANGED <<epc, reading>>
    BY <1>7, <2>2 DEF CloseBroken
  <2>5. EpollServedRank(c) = 1 /\ EpollServedRank(c)' = Pieces + 3
    BY <1>1, <1>3, <1>6, <2>3, <2>4 DEF EpollServedRank
  <2>6. \A d \in Conn : d # c => EpollServedRank(d)' = EpollServedRank(d)
    BY <1>1, <2>4 DEF EpollServedRank
  <2>7. EpollServedRank(c)' > EpollServedRank(c)
    BY <1>3, <2>5
  <2> QED BY <1>5, <2>4, <2>6, <2>7
<1>8. CASE AcceptEvent(e)
  <2>1. e[1] = ListenSocket /\ UNCHANGED <<reading, done>>
    BY <1>8 DEF AcceptEvent
  <2>2. backlog # <<>>
    BY <1>2, <2>1, ListenSocketIsNoConn DEF EventInv
  <2>3. CASE Cardinality(fds) < MaxFds
    <3>1. /\ registered' = registered \cup {Head(backlog)}
          /\ backlog' = Tail(backlog) /\ UNCHANGED epc
      BY <1>8, <2>3 DEF AcceptEvent
    <3>2. PICK c \in Conn : c = Head(backlog) /\ c \notin Accepted
      BY <1>1, <2>2, <3>1, AcceptMoves DEF QuoteInv
    <3>3. c \notin registered /\ c \notin done
      BY <3>2 DEF EpollInv
    <3>4. EpollServedRank(c) = 0 /\ EpollServedRank(c)' = 1
      BY <1>1, <1>3, <2>1, <3>1, <3>2, <3>3 DEF EpollServedRank
    <3>5. \A d \in Conn : d # c => EpollServedRank(d)' = EpollServedRank(d)
      BY <1>1, <2>1, <3>1, <3>2 DEF EpollServedRank
    <3>6. EpollServedRank(c)' > EpollServedRank(c)
      BY <3>4
    <3> QED BY <1>5, <3>1, <3>5, <3>6
  <2>4. CASE ~(Cardinality(fds) < MaxFds)
    <3>1. epc' = "ended" /\ UNCHANGED registered
      BY <1>8, <2>4 DEF AcceptEvent
    <3>2. EpollRank' = 2
      BY <3>1 DEF EpollRank
    <3>3. EpollRank' > EpollRank
      BY <1>4, <3>2
    <3>4. \A c \in Conn : EpollServedRank(c)' = EpollServedRank(c)
      BY <1>1, <2>1, <3>1 DEF EpollServedRank
    <3>5. \A c \in Conn : EpollServedRank(c) \in Int
      BY DEF TcpRanksEnd, ConnRank
    <3>6. \A c \in Conn : EpollServedRank(c)' >= EpollServedRank(c)
      BY <3>4, <3>5
    <3>7. EpollRank' >= EpollRank
      BY <1>4, <3>2
    <3> QED BY <1>1, <3>3, <3>6, <3>7, EpollOneRises
  <2> QED BY <2>3, <2>4
<1>9. CASE BeginRead(e)
  <2>1. /\ e[1] # ListenSocket /\ reading' = e[1]
        /\ UNCHANGED <<epc, registered, done>>
    BY <1>9 DEF BeginRead
  <2>2. PICK c \in Conn : e[1] = c /\ c \in registered
    BY <1>2, <1>6, <2>1 DEF EpollInv
  <2>3. EpollServedRank(c) = 1 /\ EpollServedRank(c)' = received[c] + 2
    BY <1>1, <1>3, <1>6, <2>1, <2>2 DEF EpollServedRank
  <2>4. \A d \in Conn : d # c => EpollServedRank(d)' = EpollServedRank(d)
    BY <1>1, <1>3, <2>1, <2>2 DEF EpollServedRank
  <2>5. EpollServedRank(c)' > EpollServedRank(c)
    BY <1>3, <2>3
  <2> QED BY <1>5, <2>1, <2>4, <2>5
<1> QED BY <1>2, <1>7, <1>8, <1>9

\* A read that finds pieces brings the connection on, and so does the last.
LEMMA ReadRises ==
  ASSUME QuoteInv, EventInv, EpollInv, TcpRanksEnd, TcpRanksEnd', server = "epoll",
         ReadPieces \/ EndRead, UNCHANGED <<clientVars, serverVars, server>>
  PROVE  TcpAdvance
<1>1. UNCHANGED <<cpc, quoteN, lost, wpc, mpc, epc>>
  BY DEF clientVars, serverVars, workerVars, mainVars, epollVars, ReadPieces, EndRead
<1>2. PICK c \in Conn : reading = c /\ c \in registered
  BY DEF EpollInv, EventInv, EpollTypeOK, ReadPieces, EndRead
<1>3. received \in [Conn -> 0 .. Pieces] /\ received[c] \in 0 .. Pieces /\ sent[c] \in Nat /\ Pieces \in Nat
  BY ClientAssumption DEF QuoteInv, ClientTypeOK
<1>4. c \notin done /\ c # NoEvent
  BY <1>2, NoEventIsNoConn DEF EpollInv
<1>5. EpollServedRank(c) = received[c] + 2
  BY <1>2, <1>4 DEF EpollServedRank
<1>6. /\ EpollServedRank(c)' > EpollServedRank(c)
      /\ \A d \in Conn : d # c => EpollServedRank(d)' = EpollServedRank(d)
  <2>1. CASE ReadPieces
    <3>1. UNCHANGED <<done, reading, registered>>
      BY <2>1 DEF ReadPieces, epollVars
    <3>2. PICK pieces \in NextPieces(c) :
            received' = [received EXCEPT ![c] = received[c] + Len(pieces)]
      BY <1>2, <2>1 DEF ReadPieces
    <3>3. PICK k \in 1 .. sent[c] - received[c] : Len(pieces) = k
      BY <1>3, <3>2, NextPiecesAre
    <3>4. received'[c] = received[c] + k /\ \A d \in Conn : d # c => received'[d] = received[d]
      BY <1>3, <3>2, <3>3
    <3>5. EpollServedRank(c)' = received'[c] + 2
      BY <1>2, <1>4, <3>1 DEF EpollServedRank
    <3>6. EpollServedRank(c)' > EpollServedRank(c)
      BY <1>3, <1>5, <3>3, <3>4, <3>5
    <3>7. \A d \in Conn : d # c => EpollServedRank(d)' = EpollServedRank(d)
      BY <3>1, <3>4 DEF EpollServedRank
    <3> QED BY <3>6, <3>7
  <2>2. CASE EndRead
    <3>1. /\ registered' = registered \ {c} /\ done' = done \cup {c} /\ reading' = NoEvent
          /\ UNCHANGED received
      BY <1>2, <2>2 DEF EndRead
    <3>2. EpollServedRank(c)' = Pieces + 3
      BY <3>1 DEF EpollServedRank
    <3>3. EpollServedRank(c)' > EpollServedRank(c)
      BY <1>3, <1>5, <3>2
    <3>4. \A d \in Conn : d # c => EpollServedRank(d)' = EpollServedRank(d)
      BY <1>2, <3>1, NoEventIsNoConn DEF EpollServedRank
    <3> QED BY <3>3, <3>4
  <2> QED BY <2>1, <2>2
<1>7. \A d \in Conn : EpollServedRank(d) \in Int /\ EpollServedRank(d)' \in Int
  <2>1. server' = "epoll"
    OBVIOUS
  <2> QED BY <2>1 DEF TcpRanksEnd, ConnRank
<1>8. \A d \in Conn : EpollServedRank(d)' >= EpollServedRank(d)
  BY <1>6, <1>7
<1>9. EpollRank' >= EpollRank
  BY <1>1 DEF EpollRank
<1> QED BY <1>1, <1>6, <1>8, <1>9, EpollOneRises

LEMMA EpollRises ==
  ASSUME QuotesInv, MoveInv, TcpRanksEnd, TcpRanksEnd', server = "epoll",
         EpollServer, UNCHANGED <<serverVars, server>>
  PROVE  TcpAdvance
<1>1. QuoteInv /\ EventInv /\ EpollInv /\ BacklogInv
  BY DEF QuotesInv, MoveInv
<1> QED BY <1>1, EpollLoopRises, HandleRises, ReadRises DEF EpollServer

LEMMA StepRises ==
  ASSUME QuotesInv, QuotesInv', TcpInv, TcpInv', MoveInv, TcpRanksEnd, TcpRanksEnd',
         ServerInv => ThreadRanks, ServerInv' => ThreadRanks', [TcpNext]_tcpVars
  PROVE  TcpAdvance \/ UNCHANGED tcpVars
<1>1. ASSUME Threads(main) \/ \E w \in Worker : Threads(racey_worker(w))
      PROVE  TcpAdvance
  <2>1. /\ server = "threads" /\ ~corrupt /\ UNCHANGED <<epollVars, server>>
        /\ main \/ \E w \in Worker : racey_worker(w)
    BY <1>1 DEF Threads
  <2>2. ServerInv
    BY <2>1 DEF TcpInv
  <2>3. ServerInv'
    BY <2>1, <2>2, MainStepServerInv, WorkerStepServerInv
  <2> QED BY <2>1, <2>2, <2>3, ThreadsRise
<1>2. ASSUME Epoll(EpollServer)
      PROVE  TcpAdvance
  BY <1>2, EpollRises DEF Epoll
<1>3. ASSUME Client(Lose \/ \E t \in ClientThread : ClientWorker(t, ListenBacklog))
      PROVE  TcpAdvance
  BY <1>3, ClientRises, LoseRises DEF Client
<1> QED BY <1>1, <1>2, <1>3, TcpStepCases

\* However the threads, the clients and the network take turns, what they do comes
\* to an end: each step brings a client, main(), a worker, the epoll server or a
\* connection on, or loses a connection, and takes none of them back; only the way
\* round the epoll loop begins again, when one of the others has come on.  With
\* TcpNeverStuck the connections are dealt with under every scheduler.
THEOREM TcpAdvances == TcpSpec => []TcpRanksEnd /\ [][TcpAdvance]_tcpVars
<1>1. QuotesInv /\ MoveInv /\ [TcpNext]_tcpVars => MoveInv'
  BY StepMoveInv
<1>2. /\ QuotesInv /\ QuotesInv' /\ TcpInv /\ TcpInv' /\ MoveInv /\ TcpRanksEnd /\ TcpRanksEnd'
      /\ (ServerInv => ThreadRanks) /\ (ServerInv => ThreadRanks)' /\ [TcpNext]_tcpVars
      => [TcpAdvance]_tcpVars
  <2> SUFFICES ASSUME QuotesInv, QuotesInv', TcpInv, TcpInv', MoveInv, TcpRanksEnd, TcpRanksEnd',
                      ServerInv => ThreadRanks, (ServerInv => ThreadRanks)', [TcpNext]_tcpVars
               PROVE  TcpAdvance \/ UNCHANGED tcpVars
    OBVIOUS
  <2>1. ServerInv' => ThreadRanks'
    OBVIOUS
  <2> QED BY <2>1, StepRises
<1> QED
  BY <1>1, <1>2, InitMoveInv, QuotesInvariant, TcpInvariant, RanksAreBounded, ServerHasRanks, PTL
  DEF TcpSpec
=============================================================================
