----------------------------- MODULE TcpClient ------------------------------
(***************************************************************************)
(* racey-tcp-client.c and the network between it and a racey server.  Each *)
(* client thread opens one connection per quote, writes the quote, closes  *)
(* the connection and goes on, without waiting for an answer.              *)
(*                                                                         *)
(* The network delivers a quote in one or more pieces, in order, at any    *)
(* time after the write: a server may read what has arrived so far.  It    *)
(* may lose a connection, after which what the server has not read is gone.*)
(***************************************************************************)
EXTENDS Integers, Sequences, FiniteSets

CONSTANTS
  ClientThread,  \* the threads of the client: WORKER_NUM, 110
  Quotes,        \* quotes that a thread sends, 17
  Pieces,        \* bound: the pieces that a quote arrives in
  SplitThread,   \* bound: the threads whose quotes may arrive in several pieces
  LossyThread    \* bound: the threads whose connections the network may lose

ASSUME ClientAssumption == Quotes \in Nat \ {0} /\ Pieces \in Nat \ {0}

Conn == ClientThread \X (1 .. Quotes)   \* one connection per thread and quote

VARIABLES
  cpc,       \* where each client thread stands
  quoteN,    \* the local n of each client thread, from 1
  listening, \* the server has called listen() and has not returned
  backlog,   \* connections established and not yet accepted, in order
  sent,      \* sent[c]: the pieces of c's quote, 0 before it is written
  closed,    \* connections that the client has closed
  lost,      \* connections that the network has lost
  received,  \* received[c]: the number of pieces that the server has read
  output     \* output[c]: the pieces of c in the output file, in their order

clientVars == <<cpc, quoteN, sent, closed, lost>>

ClientTypeOK ==
  /\ cpc \in [ClientThread -> {"connect", "write", "close", "over"}]
  /\ quoteN \in [ClientThread -> 1 .. Quotes + 1]
  /\ listening \in BOOLEAN
  /\ sent \in [Conn -> 0 .. Pieces]
  /\ closed \subseteq Conn /\ lost \subseteq Conn
  /\ received \in [Conn -> 0 .. Pieces]
  /\ \A i \in DOMAIN backlog : backlog[i] \in Conn

ClientInit ==
  /\ cpc = [t \in ClientThread |-> "connect"]
  /\ quoteN = [t \in ClientThread |-> 1]
  /\ listening = FALSE
  /\ backlog = <<>>
  /\ sent = [c \in Conn |-> 0]
  /\ closed = {}
  /\ lost = {}
  /\ received = [c \in Conn |-> 0]
  /\ output = [c \in Conn |-> <<>>]

\* The connection that thread t works on.
Current(t) == <<t, quoteN[t]>>

\* The connections that connect() has established.
Established ==
  {c \in Conn : c[2] < quoteN[c[1]] \/ (c[2] = quoteN[c[1]] /\ cpc[c[1]] \in {"write", "close"})}

\* The connections that the server has accepted.
Accepted == Established \ {backlog[i] : i \in DOMAIN backlog}

\* connect(): refused before listen() and after the server has ended, which
\* ends the thread; it blocks while the server's backlog is full.
Connect(t, Backlog) ==
  /\ cpc[t] = "connect"
  /\ IF listening
       THEN /\ Len(backlog) < Backlog
            /\ backlog' = Append(backlog, Current(t))
            /\ cpc' = [cpc EXCEPT ![t] = "write"]
       ELSE cpc' = [cpc EXCEPT ![t] = "over"] /\ UNCHANGED backlog
  /\ UNCHANGED <<quoteN, listening, sent, closed, lost, received, output>>

\* write(fd, quote[n], strlen(quote[n]) + 1), whose result is not looked at
WriteQuote(t) ==
  /\ cpc[t] = "write"
  /\ \E k \in 1 .. IF t \in SplitThread THEN Pieces ELSE 1 : sent' = [sent EXCEPT ![Current(t)] = k]
  /\ cpc' = [cpc EXCEPT ![t] = "close"]
  /\ UNCHANGED <<quoteN, listening, backlog, closed, lost, received, output>>

\* n++; close(fd); and the thread returns after its last quote
CloseConnection(t) ==
  /\ cpc[t] = "close"
  /\ closed' = closed \cup {Current(t)}
  /\ quoteN' = [quoteN EXCEPT ![t] = @ + 1]
  /\ cpc' = [cpc EXCEPT ![t] = IF quoteN[t] < Quotes THEN "connect" ELSE "over"]
  /\ UNCHANGED <<listening, backlog, sent, lost, received, output>>

ClientWorker(t, Backlog) == Connect(t, Backlog) \/ WriteQuote(t) \/ CloseConnection(t)

\* The network loses a connection on which something is still to come.
Lose ==
  /\ \E c \in Established \ lost :
       /\ c[1] \in LossyThread /\ ~(c \in closed /\ received[c] = sent[c])
       /\ lost' = lost \cup {c}
  /\ UNCHANGED <<cpc, quoteN, listening, backlog, sent, closed, received, output>>
-----------------------------------------------------------------------------
\* What the server's read() on c may find: the next pieces, or the end.
NextPieces(c) ==
  IF c \in lost THEN {} ELSE {[i \in 1 .. k |-> received[c] + i] : k \in 1 .. sent[c] - received[c]}
AtEnd(c) == c \in lost \/ (c \in closed /\ received[c] = sent[c])

\* The file has each connection's pieces once and in the order they were sent.
InOrder(c) == output[c] = [i \in 1 .. Len(output[c]) |-> i] /\ Len(output[c]) <= sent[c]
=============================================================================
