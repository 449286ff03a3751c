---------------------------- MODULE PipeExchange ----------------------------
(***************************************************************************)
(* What the pipe programs promise, whatever creates and closes their       *)
(* pipes: each writer sends MaxLoop messages, each to a reader of its      *)
(* choice; a reader receives what is sent to it, in order, and finishes    *)
(* when nothing is left and nobody can send any more; the main program     *)
(* folds the readers' results when all have finished.                      *)
(***************************************************************************)
EXTENDS Integers, Sequences, FiniteSets

CONSTANTS
  NumProcs,   \* number of readers, and of writers
  MaxLoop,    \* messages each writer sends
  Batch       \* messages a reader can receive at a time

Id == 1 .. NumProcs

VARIABLES
  channel,    \* channel[r]: the messages on their way to reader r
  received,   \* received[r]: the messages reader r has received
  sent,       \* sent[w]: the number of messages writer w has sent
  over,       \* the writers that will send no more
  finished,   \* the readers that have finished
  folded      \* the results have been folded

vars == <<channel, received, sent, over, finished, folded>>

Init ==
  /\ channel = [r \in Id |-> <<>>]
  /\ received = [r \in Id |-> <<>>]
  /\ sent = [w \in Id |-> 0]
  /\ over = {}
  /\ finished = {}
  /\ folded = FALSE

\* The k-th message of writer w is <<w, k>>.
Send(w, r) ==
  /\ w \notin over
  /\ sent[w] < MaxLoop
  /\ sent' = [sent EXCEPT ![w] = @ + 1]
  /\ channel' = [channel EXCEPT ![r] = Append(@, <<w, sent[w] + 1>>)]
  /\ UNCHANGED <<received, over, finished, folded>>

Receive(r) ==
  \E n \in 1 .. Batch :
    /\ n <= Len(channel[r])
    /\ received' = [received EXCEPT ![r] = @ \o SubSeq(channel[r], 1, n)]
    /\ channel' = [channel EXCEPT ![r] = SubSeq(@, n + 1, Len(@))]
    /\ UNCHANGED <<sent, over, finished, folded>>

\* Writers stop: one that has sent everything, or some that never started.
Stop(W) ==
  /\ \A w \in W : sent[w] \in {0, MaxLoop}
  /\ over' = over \cup W
  /\ UNCHANGED <<channel, received, sent, finished, folded>>

Finish(r) ==
  /\ channel[r] = <<>>
  /\ over = Id
  /\ finished' = finished \cup {r}
  /\ UNCHANGED <<channel, received, sent, over, folded>>

\* The results count when no writer is missing.
Fold ==
  /\ finished = Id
  /\ \A w \in Id : sent[w] = MaxLoop
  /\ folded' = TRUE
  /\ UNCHANGED <<channel, received, sent, over, finished>>

Next ==
  \/ \E w, r \in Id : Send(w, r)
  \/ \E r \in Id : Receive(r) \/ Finish(r)
  \/ \E W \in SUBSET Id : Stop(W)
  \/ Fold

Spec == Init /\ [][Next]_vars
-----------------------------------------------------------------------------
\* The places where message k of writer w arrived.
Arrivals(w, k) ==
  {p \in UNION {{r} \X DOMAIN received[r] : r \in Id} : received[p[1]][p[2]] = <<w, k>>}

\* When the results are folded, each message has been received once, by one
\* reader, and a reader has received a writer's messages in the order they were
\* sent.
Delivered ==
  folded =>
    /\ \A w \in Id, k \in 1 .. MaxLoop : Cardinality(Arrivals(w, k)) = 1
    /\ \A r \in Id : \A p, q \in DOMAIN received[r] :
         p < q /\ received[r][p][1] = received[r][q][1]
           => received[r][p][2] < received[r][q][2]
=============================================================================
