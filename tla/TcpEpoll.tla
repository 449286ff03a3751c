------------------------------ MODULE TcpEpoll ------------------------------
(***************************************************************************)
(* racey-tcp-server-epoll.c, the server with one thread.  It waits for     *)
(* events, accepts one connection per event of the listening socket, and   *)
(* copies a connection that is ready to the output file until a read gives *)
(* nothing more.  It then takes the connection out of the epoll set, for   *)
(* good and without closing it: data still on their way are never read,    *)
(* and the descriptor stays open until the process ends.                   *)
(***************************************************************************)
EXTENDS TcpClient

CONSTANTS
  EpollBacklog,  \* 30, the second argument of listen()
  MaxFds         \* connections that the process may have open (RLIMIT_NOFILE)

ASSUME EpollAssumption == EpollBacklog \in Nat \ {0}

NoEvent == <<>>
ListenSocket == <<"server_fd">>   \* server_fd in events[]

VARIABLES
  epc,         \* "start", "wait" in epoll_wait, "handle" the events, "ended"
  registered,  \* the connections in the epoll set
  events,      \* the events still to be handled, with their error flag
  reading,     \* the connection being read, NoEvent when none is
  fds,         \* the connections that have a descriptor
  done         \* the connections taken out of the epoll set

epollVars == <<epc, registered, events, reading, fds, done>>

EpollTypeOK ==
  /\ ClientTypeOK
  /\ epc \in {"start", "wait", "handle", "ended"}
  /\ registered \subseteq Conn /\ fds \subseteq Conn /\ done \subseteq Conn
  /\ events \subseteq (Conn \cup {ListenSocket}) \X BOOLEAN
  /\ reading \in Conn \cup {NoEvent}

EpollInit ==
  /\ epc = "start"
  /\ registered = {}
  /\ events = {}
  /\ reading = NoEvent
  /\ fds = {}
  /\ done = {}

\* listen(server_fd, 30); epoll_ctl(efd, EPOLL_CTL_ADD, server_fd, &e)
EpollListen ==
  /\ epc = "start"
  /\ listening' = TRUE
  /\ epc' = "wait"
  /\ UNCHANGED <<registered, events, reading, fds, done, backlog, received, output>>

\* What may be ready: the listening socket while a connection waits, and every
\* connection on which data, the end or an error have arrived.
Ready ==
  (IF backlog # <<>> THEN {<<ListenSocket, FALSE>>} ELSE {}) \cup
  {<<c, c \in lost>> : c \in {r \in registered : NextPieces(r) # {} \/ AtEnd(r)}}

\* n = epoll_wait(efd, events, MAX_EVENTS, -1): some of it has arrived by now.
Wait ==
  /\ epc = "wait"
  /\ events' \in (SUBSET Ready) \ {{}}
  /\ epc' = "handle"
  /\ UNCHANGED <<listening, registered, reading, fds, done, backlog, received, output>>

\* EPOLLERR or EPOLLHUP: close(events[i].data.fd)
CloseBroken(e) ==
  /\ e[2]
  /\ fds' = fds \ {e[1]}
  /\ registered' = registered \ {e[1]}
  /\ done' = done \cup {e[1]}
  /\ UNCHANGED <<listening, epc, reading, backlog>>

\* accept(), O_NONBLOCK, EPOLL_CTL_ADD; without a descriptor left, return 1.
AcceptEvent(e) ==
  /\ e[1] = ListenSocket
  /\ IF Cardinality(fds) < MaxFds
       THEN /\ fds' = fds \cup {Head(backlog)}
            /\ registered' = registered \cup {Head(backlog)}
            /\ backlog' = Tail(backlog)
            /\ UNCHANGED <<listening, epc>>
       ELSE /\ listening' = FALSE
            /\ epc' = "ended"
            /\ UNCHANGED <<fds, registered, backlog>>
  /\ UNCHANGED <<reading, done>>

\* fd = events[i].data.fd, and the loop of reads begins.
BeginRead(e) ==
  /\ e[1] # ListenSocket /\ ~e[2]
  /\ reading' = e[1]
  /\ UNCHANGED <<listening, epc, registered, fds, done, backlog>>

\* for (i = 0; i < n; i++)
HandleEvent ==
  /\ epc = "handle" /\ reading = NoEvent
  /\ \E e \in events :
       /\ CloseBroken(e) \/ AcceptEvent(e) \/ BeginRead(e)
       /\ events' = events \ {e}
  /\ UNCHANGED <<received, output>>

\* nr = read(fd, buf, sizeof(buf)); write(output_fd, buf, nr); nr > 0
ReadPieces ==
  /\ reading # NoEvent
  /\ \E pieces \in NextPieces(reading) :
       /\ received' = [received EXCEPT ![reading] = @ + Len(pieces)]
       /\ output' = [output EXCEPT ![reading] = @ \o pieces]
  /\ UNCHANGED <<listening, backlog, epollVars>>

\* nr <= 0, at the end of the quote, on a lost connection, or because the rest
\* has not arrived yet (EAGAIN), which the first read of an event does not meet:
\* epoll_ctl(efd, EPOLL_CTL_DEL, fd, &events[i])
EndRead ==
  /\ reading # NoEvent
  /\ AtEnd(reading) \/ received[reading] > 0
  /\ registered' = registered \ {reading}
  /\ done' = done \cup {reading}
  /\ reading' = NoEvent
  /\ UNCHANGED <<listening, backlog, received, output, epc, events, fds>>

\* The events are handled.
EventsDone ==
  /\ epc = "handle" /\ reading = NoEvent /\ events = {}
  /\ epc' = "wait"
  /\ UNCHANGED <<listening, registered, events, reading, fds, done, backlog, received, output>>

EpollServer ==
  /\ EpollListen \/ Wait \/ HandleEvent \/ ReadPieces \/ EndRead \/ EventsDone
  /\ UNCHANGED clientVars
-----------------------------------------------------------------------------
\* A quote that arrives in one piece over a connection that stays is in the file
\* once the server has taken the connection out of its set (:143-147).
WholeQuotesAreWritten ==
  \A c \in done \ lost : sent[c] = 1 => Len(output[c]) = 1
=============================================================================
