------------------------------ MODULE RaceyTcp ------------------------------
(***************************************************************************)
(* The client of racey-tcp against either of the two servers: which one    *)
(* runs is chosen at the start.                                            *)
(***************************************************************************)
EXTENDS TcpServer, TcpEpoll

VARIABLE server   \* "threads" or "epoll"

networkVars == <<listening, backlog, received, output>>
tcpVars == <<clientVars, networkVars, serverVars, epollVars, server>>

TcpInit == ClientInit /\ ServerInit /\ EpollInit /\ server \in {"threads", "epoll"}

\* A step of the threaded server, of the epoll server, of the client.
Threads(A) == server = "threads" /\ ~corrupt /\ A /\ UNCHANGED <<epollVars, server>>
Epoll(A) == server = "epoll" /\ A /\ UNCHANGED <<serverVars, server>>
Client(A) == ~corrupt /\ A /\ UNCHANGED <<serverVars, epollVars, server>>
ListenBacklog == IF server = "threads" THEN ServerBacklog ELSE EpollBacklog

\* Every client has returned and the epoll server has nothing to wait for.
Idle ==
  /\ server = "epoll" /\ epc \in {"wait", "ended"}
  /\ \A t \in ClientThread : cpc[t] = "over"
  /\ epc = "wait" => Ready = {}
  /\ UNCHANGED tcpVars

TcpNext ==
  \/ Threads(main) \/ \E w \in Worker : Threads(racey_worker(w))
  \/ Epoll(EpollServer)
  \/ \E t \in ClientThread : Client(ClientWorker(t, ListenBacklog))
  \/ Client(Lose)
  \/ (Polling \/ Corrupted) /\ UNCHANGED <<epollVars, server>>
  \/ Idle

\* Every thread runs again and again; the lock is taken and released many times
\* by those who find nothing to do, but a thread that keeps asking for it gets it.
TcpFairness ==
  /\ WF_tcpVars(Threads(main)) /\ WF_tcpVars(Epoll(EpollServer))
  /\ \A w \in Worker : WF_tcpVars(Threads(racey_worker(w)))
  /\ \A t \in ClientThread : WF_tcpVars(Client(ClientWorker(t, ListenBacklog)))

TcpSpec == TcpInit /\ [][TcpNext]_tcpVars /\ TcpFairness
-----------------------------------------------------------------------------
TcpTypeOK == TypeOK /\ EpollTypeOK

\* The file has every connection's pieces once and in order, whatever is written
\* in between; the threaded server copies a quote whole, the epoll server does
\* if it arrives whole.
QuotesAreWritten == OutputInOrder /\ WholeQuotesAreWritten

\* Both servers deal with every connection they accept, the threaded one although
\* its stack serves the latest first and its workers poll under one lock, unless
\* client_idx has been overwritten; the epoll one until its descriptors, of which
\* it closes none that is not broken, are used up.  The clients are never stuck.
EveryConnectionIsDealtWith ==
  <>[](\/ corrupt
       \/ /\ \A t \in ClientThread : cpc[t] = "over"
          /\ IF server = "threads" THEN served = Accepted
             ELSE IF epc = "ended" THEN Cardinality(Accepted \ lost) <= MaxFds /\ Cardinality(fds) = MaxFds
             ELSE done = Accepted
          /\ epc # "ended" => backlog = <<>>)
=============================================================================
