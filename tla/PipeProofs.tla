----------------------------- MODULE PipeProofs -----------------------------
(***************************************************************************)
(* Proofs about the pipe programs, for every number of thread ids, of      *)
(* messages and every capacity of the pipes: racey-forkpipe.c with its     *)
(* processes, and racey-clonepipe.c with its threads, implement the same   *)
(* exchange of messages, and that exchange delivers everything.            *)
(***************************************************************************)
EXTENDS ForkPipe, ClonePipe, TLAPS, FiniteSetTheorems, SequenceTheorems

Message == Id \X (1 .. MaxLoop)

\* all[r] is what has been sent to reader r, the received messages first, and
\* count[w] the number of messages writer w has sent: each of them is somewhere,
\* once, and those of one writer to one reader are in order.
AllSent(all, count) ==
  \A w \in Id : \A k \in 1 .. count[w] : \E r \in Id : \E p \in DOMAIN all[r] : all[r][p] = <<w, k>>

NoneSentTwice(all) ==
  \A r, s \in Id : \A p \in DOMAIN all[r], q \in DOMAIN all[s] :
    all[r][p] = all[s][q] => r = s /\ p = q

InOrder(all) ==
  \A r \in Id : \A p, q \in DOMAIN all[r] :
    p < q /\ all[r][p][1] = all[r][q][1] => all[r][p][2] < all[r][q][2]

OnlySent(all, count) ==
  \A r \in Id : \A p \in DOMAIN all[r] : all[r][p][2] <= count[all[r][p][1]]

Delivery(all, count) ==
  /\ all \in [Id -> Seq(Message)] /\ count \in [Id -> 0 .. MaxLoop]
  /\ AllSent(all, count) /\ NoneSentTwice(all) /\ InOrder(all) /\ OnlySent(all, count)

\* One more message, the next one of its writer, at the end of what its reader
\* is sent.
LEMMA SendDelivers ==
  ASSUME NEW all, NEW count, Delivery(all, count), MaxLoop \in Nat,
         NEW w \in Id, NEW r \in Id, count[w] < MaxLoop
  PROVE  Delivery([all EXCEPT ![r] = Append(@, <<w, count[w] + 1>>)],
                  [count EXCEPT ![w] = @ + 1])
<1> DEFINE msg == <<w, count[w] + 1>>
           all2 == [all EXCEPT ![r] = Append(@, msg)]
           sent2 == [count EXCEPT ![w] = @ + 1]
           last == Len(all[r]) + 1
<1>1. /\ all \in [Id -> Seq(Message)] /\ count \in [Id -> 0 .. MaxLoop]
      /\ \A s \in Id : all[s] \in Seq(Message) /\ count[s] \in Nat
  BY DEF Delivery
<1>2. msg \in Message
  BY <1>1 DEF Message
<1>3. all2 \in [Id -> Seq(Message)] /\ sent2 \in [Id -> 0 .. MaxLoop]
  BY <1>1, <1>2
<1>4. /\ \A s \in Id : s # r => all2[s] = all[s]
      /\ DOMAIN all2[r] = DOMAIN all[r] \cup {last} /\ last \notin DOMAIN all[r]
      /\ last \in Nat /\ \A p \in DOMAIN all[r] : p \in Nat /\ p < last
      /\ \A p \in DOMAIN all[r] : all2[r][p] = all[r][p]
      /\ all2[r][last] = msg
  BY <1>1, <1>2
<1>5. /\ \A v \in Id : v # w => sent2[v] = count[v]
      /\ sent2[w] = count[w] + 1
  BY <1>1
<1>6. \A s \in Id : \A p \in DOMAIN all[s] :
        /\ all[s][p] \in Message
        /\ all[s][p][1] \in Id /\ all[s][p][2] \in Nat
        /\ all[s][p][2] <= count[all[s][p][1]]
        /\ p \in DOMAIN all2[s] /\ all2[s][p] = all[s][p]
  <2> SUFFICES ASSUME NEW s \in Id, NEW p \in DOMAIN all[s]
               PROVE  /\ all[s][p] \in Message
                      /\ all[s][p][1] \in Id /\ all[s][p][2] \in Nat
                      /\ all[s][p][2] <= count[all[s][p][1]]
                      /\ p \in DOMAIN all2[s] /\ all2[s][p] = all[s][p]
    OBVIOUS
  <2>1. all[s][p] \in Message
    BY <1>1, ElementOfSeq, LenProperties
  <2>2. all[s][p][2] <= count[all[s][p][1]]
    BY DEF Delivery, OnlySent
  <2>3. p \in DOMAIN all2[s] /\ all2[s][p] = all[s][p]
    BY <1>4
  <2> QED BY <2>1, <2>2, <2>3 DEF Message
<1>7. \A s \in Id : \A p \in DOMAIN all2[s] :
        \/ s = r /\ p = last
        \/ p \in DOMAIN all[s] /\ all2[s][p] = all[s][p]
  BY <1>4
<1>8. \A s \in Id : \A p \in DOMAIN all[s] : all[s][p] # msg
  BY <1>1, <1>6
<1> HIDE DEF all2, sent2, last
<1>9. AllSent(all2, sent2)
  <2> SUFFICES ASSUME NEW v \in Id, NEW k \in 1 .. sent2[v]
               PROVE  \E s \in Id : \E p \in DOMAIN all2[s] : all2[s][p] = <<v, k>>
    BY DEF AllSent
  <2>1. CASE v = w /\ k = count[w] + 1
    BY <1>4, <2>1
  <2>2. CASE ~(v = w /\ k = count[w] + 1)
    <3>1. k \in 1 .. count[v]
      BY <1>1, <1>5, <2>2
    <3>2. PICK s \in Id : \E p \in DOMAIN all[s] : all[s][p] = <<v, k>>
      BY <3>1 DEF Delivery, AllSent
    <3>3. PICK p \in DOMAIN all[s] : all[s][p] = <<v, k>>
      BY <3>2
    <3>4. p \in DOMAIN all2[s] /\ all2[s][p] = <<v, k>>
      BY <1>6, <3>3
    <3> QED BY <3>4
  <2> QED BY <2>1, <2>2
<1>10. NoneSentTwice(all2)
  <2> SUFFICES ASSUME NEW s \in Id, NEW v \in Id, NEW p \in DOMAIN all2[s], NEW q \in DOMAIN all2[v],
                      all2[s][p] = all2[v][q]
               PROVE  s = v /\ p = q
    BY DEF NoneSentTwice
  <2>1. CASE (s = r /\ p = last) /\ (v = r /\ q = last)
    BY <2>1
  <2>2. CASE (s = r /\ p = last) /\ ~(v = r /\ q = last)
    BY <1>4, <1>7, <1>8, <2>2
  <2>3. CASE ~(s = r /\ p = last) /\ (v = r /\ q = last)
    BY <1>4, <1>7, <1>8, <2>3
  <2>4. CASE ~(s = r /\ p = last) /\ ~(v = r /\ q = last)
    BY <1>7, <2>4 DEF Delivery, NoneSentTwice
  <2> QED BY <2>1, <2>2, <2>3, <2>4
<1>11. InOrder(all2)
  <2> SUFFICES ASSUME NEW s \in Id, NEW p \in DOMAIN all2[s], NEW q \in DOMAIN all2[s],
                      p < q, all2[s][p][1] = all2[s][q][1]
               PROVE  all2[s][p][2] < all2[s][q][2]
    BY DEF InOrder
  <2>1. CASE s = r /\ q = last
    <3>1. p \in DOMAIN all[s] /\ all2[s][p] = all[s][p]
      BY <1>4, <1>7, <2>1
    <3>2. all[s][p][1] = w
      BY <1>4, <2>1, <3>1
    <3>3. all[s][p][2] <= count[w] /\ all[s][p][2] \in Nat
      BY <1>6, <3>1, <3>2
    <3> QED BY <1>1, <1>4, <2>1, <3>1, <3>3
  <2>2. CASE ~(s = r /\ q = last)
    <3>1. q \in DOMAIN all[s] /\ all2[s][q] = all[s][q]
      BY <1>7, <2>2
    <3>2. ~(s = r /\ p = last)
      BY <1>4, <2>2, <3>1
    <3>3. p \in DOMAIN all[s] /\ all2[s][p] = all[s][p]
      BY <1>7, <3>2
    <3> QED BY <3>1, <3>3 DEF Delivery, InOrder
  <2> QED BY <2>1, <2>2
<1>12. OnlySent(all2, sent2)
  <2> SUFFICES ASSUME NEW s \in Id, NEW p \in DOMAIN all2[s]
               PROVE  all2[s][p][2] <= sent2[all2[s][p][1]]
    BY DEF OnlySent
  <2>1. CASE s = r /\ p = last
    BY <1>1, <1>4, <1>5, <2>1
  <2>2. CASE ~(s = r /\ p = last)
    <3>1. p \in DOMAIN all[s] /\ all2[s][p] = all[s][p]
      BY <1>7, <2>2
    <3>2. all[s][p][1] \in Id /\ all[s][p][2] \in Nat /\ all[s][p][2] <= count[all[s][p][1]]
      BY <1>6, <3>1
    <3> DEFINE u == all[s][p][1]
    <3>3. u \in Id /\ sent2[u] \in {count[u], count[u] + 1} /\ count[u] \in Nat
      BY <1>1, <1>5, <3>2
    <3> HIDE DEF u
    <3>4. all[s][p][2] <= count[u] /\ all[s][p][2] \in Nat
      BY <3>2 DEF u
    <3>5. all[s][p][2] <= sent2[u]
      BY <3>3, <3>4
    <3> QED BY <3>1, <3>5 DEF u
  <2> QED BY <2>1, <2>2
<1> QED
  BY <1>3, <1>9, <1>10, <1>11, <1>12 DEF Delivery, all2, sent2

\* What has been received and what is on its way, after a read of n messages.
LEMMA ReadMoves ==
  ASSUME NEW S, NEW got \in Seq(S), NEW way \in Seq(S), NEW n \in 0 .. Len(way)
  PROVE  /\ (got \o SubSeq(way, 1, n)) \o SubSeq(way, n + 1, Len(way)) = got \o way
         /\ got \o SubSeq(way, 1, n) \in Seq(S)
         /\ SubSeq(way, n + 1, Len(way)) \in Seq(S)
         /\ Len(SubSeq(way, n + 1, Len(way))) = Len(way) - n
<1>1. Len(way) \in Nat /\ \A j \in 1 .. Len(way) : way[j] \in S
  BY ElementOfSeq, LenProperties
<1>2. SubSeq(way, 1, n) \in Seq(S)
  BY <1>1, SubSeqProperties
<1>3. /\ SubSeq(way, n + 1, Len(way)) \in Seq(S)
      /\ Len(SubSeq(way, n + 1, Len(way))) = Len(way) - n
  BY <1>1, SubSeqProperties
<1>4. SubSeq(way, 1, n) \o SubSeq(way, n + 1, Len(way)) = way
  <2>1. 1 \in 1 .. Len(way) + 1 /\ n \in 1 - 1 .. Len(way) /\ Len(way) \in n .. Len(way)
    BY <1>1
  <2>2. SubSeq(way, 1, n) \o SubSeq(way, n + 1, Len(way)) = SubSeq(way, 1, Len(way))
    BY <2>1, ConcatAdjacentSubSeq
  <2> QED BY <2>2, SubSeqFull
<1>5. got \o SubSeq(way, 1, n) \in Seq(S)
  BY <1>2, ConcatProperties
<1>6. \A a, b \in Seq(S) : (got \o a) \o b = got \o (a \o b)
  <2> SUFFICES ASSUME NEW a \in Seq(S), NEW b \in Seq(S)
               PROVE  (got \o a) \o b = got \o (a \o b)
    OBVIOUS
  <2> QED BY ConcatAssociative, SMTT(30)
<1>7. (got \o SubSeq(way, 1, n)) \o SubSeq(way, n + 1, Len(way)) = got \o way
  <2>1. (got \o SubSeq(way, 1, n)) \o SubSeq(way, n + 1, Len(way))
          = got \o (SubSeq(way, 1, n) \o SubSeq(way, n + 1, Len(way)))
    BY <1>2, <1>3, <1>6, Zenon
  <2> QED BY <1>4, <2>1, Zenon
<1> QED BY <1>3, <1>5, <1>7

\* A message sent comes after everything sent before.
LEMMA SendAppends ==
  ASSUME NEW S, NEW got \in Seq(S), NEW way \in Seq(S), NEW x \in S
  PROVE  /\ got \o Append(way, x) = Append(got \o way, x)
         /\ Append(way, x) \in Seq(S) /\ Len(Append(way, x)) = Len(way) + 1
<1>1. Append(way, x) = way \o <<x>> /\ <<x>> \in Seq(S)
  BY AppendIsConcat
<1>2. got \o way \in Seq(S)
  BY ConcatProperties
<1>3. (got \o way) \o <<x>> = got \o (way \o <<x>>)
  BY <1>1, ConcatAssociative
<1>4. Append(got \o way, x) = (got \o way) \o <<x>>
  BY <1>2, AppendIsConcat
<1> QED BY <1>1, <1>3, <1>4, AppendProperties

\* The places where message k of writer w is in got.
Places(got, w, k) ==
  {p \in UNION {{r} \X DOMAIN got[r] : r \in Id} : got[p[1]][p[2]] = <<w, k>>}

\* When every writer has sent all its messages, each is in one place.
LEMMA EachOnce ==
  ASSUME NEW got, NEW count, Delivery(got, count), \A w \in Id : count[w] = MaxLoop,
         NEW w \in Id, NEW k \in 1 .. MaxLoop
  PROVE  Cardinality(Places(got, w, k)) = 1
<1>1. PICK r \in Id : \E p \in DOMAIN got[r] : got[r][p] = <<w, k>>
  BY DEF Delivery, AllSent
<1>2. PICK p \in DOMAIN got[r] : got[r][p] = <<w, k>>
  BY <1>1
<1>3. <<r, p>> \in Places(got, w, k)
  BY <1>2 DEF Places
<1>4. ASSUME NEW x \in Places(got, w, k)
      PROVE  x = <<r, p>>
  <2>1. PICK s \in Id : x \in {s} \X DOMAIN got[s]
    BY DEF Places
  <2>2. PICK q \in DOMAIN got[s] : x = <<s, q>>
    BY <2>1
  <2>3. got[s][q] = got[r][p]
    BY <1>2, <2>2 DEF Places
  <2>4. s = r /\ q = p
    BY <2>3 DEF Delivery, NoneSentTwice
  <2> QED BY <2>2, <2>4
<1>5. Places(got, w, k) = {<<r, p>>}
  BY <1>3, <1>4
<1> QED BY <1>5, FS_Singleton
-----------------------------------------------------------------------------
\* What each reader has been sent: received, or on its way.
SentTo == [r \in Id |-> received[r] \o data[r]]

\* What a write does to the buffers, and what a read does.
LEMMA BuffersWritten ==
  ASSUME data \in [Id -> Seq(Message)], received \in [Id -> Seq(Message)],
         \A t \in Id : Len(data[t]) <= Capacity,
         NEW target \in Id, NEW msg \in Message, Len(data[target]) < Capacity,
         data' = [data EXCEPT ![target] = Append(@, msg)], received' = received
  PROVE  /\ data' \in [Id -> Seq(Message)] /\ received' \in [Id -> Seq(Message)]
         /\ \A t \in Id : Len(data'[t]) <= Capacity
         /\ SentTo' = [SentTo EXCEPT ![target] = Append(@, msg)]
<1>1. /\ received[target] \o Append(data[target], msg) = Append(received[target] \o data[target], msg)
      /\ Append(data[target], msg) \in Seq(Message)
      /\ Len(Append(data[target], msg)) = Len(data[target]) + 1
      /\ Len(data[target]) \in Nat
  BY SendAppends, LenProperties
<1>2. data' \in [Id -> Seq(Message)] /\ received' \in [Id -> Seq(Message)]
  BY <1>1
<1>3. \A t \in Id : data'[t] = IF t = target THEN Append(data[t], msg) ELSE data[t]
  OBVIOUS
<1>4. \A t \in Id : Len(data'[t]) <= Capacity
  BY <1>1, <1>3, PipeAssumption
<1>5. \A t \in Id : SentTo'[t] = IF t = target THEN Append(SentTo[t], msg) ELSE SentTo[t]
  <2> SUFFICES ASSUME NEW t \in Id
               PROVE  SentTo'[t] = IF t = target THEN Append(SentTo[t], msg) ELSE SentTo[t]
    OBVIOUS
  <2>1. SentTo'[t] = received[t] \o data'[t] /\ SentTo[t] = received[t] \o data[t]
    BY DEF SentTo
  <2> QED BY <1>1, <1>3, <2>1
<1>6. SentTo' = [t \in Id |-> SentTo'[t]] /\ SentTo = [t \in Id |-> SentTo[t]]
  BY DEF SentTo
<1>7. SentTo' = [SentTo EXCEPT ![target] = Append(@, msg)]
  BY <1>5, <1>6
<1> QED BY <1>2, <1>4, <1>7

LEMMA BuffersRead ==
  ASSUME data \in [Id -> Seq(Message)], received \in [Id -> Seq(Message)],
         \A t \in Id : Len(data[t]) <= Capacity,
         NEW u \in Id, NEW n \in 1 .. 2, n <= Len(data[u]),
         received' = [received EXCEPT ![u] = @ \o SubSeq(data[u], 1, n)],
         data' = [data EXCEPT ![u] = SubSeq(@, n + 1, Len(@))]
  PROVE  /\ data' \in [Id -> Seq(Message)] /\ received' \in [Id -> Seq(Message)]
         /\ \A t \in Id : Len(data'[t]) <= Capacity
         /\ SentTo' = SentTo
<1> DEFINE got == received[u]
           way == data[u]
           got2 == received'[u]
           way2 == data'[u]
<1>1. got \in Seq(Message) /\ way \in Seq(Message) /\ Len(way) \in Nat /\ n \in 0 .. Len(way)
  BY LenProperties
<1>2. got2 = got \o SubSeq(way, 1, n) /\ way2 = SubSeq(way, n + 1, Len(way))
  OBVIOUS
<1>3. /\ (got \o SubSeq(way, 1, n)) \o SubSeq(way, n + 1, Len(way)) = got \o way
      /\ got \o SubSeq(way, 1, n) \in Seq(Message)
      /\ SubSeq(way, n + 1, Len(way)) \in Seq(Message)
      /\ Len(SubSeq(way, n + 1, Len(way))) = Len(way) - n
  <2>1. \A x, y \in Seq(Message) : \A m \in 0 .. Len(y) :
          /\ (x \o SubSeq(y, 1, m)) \o SubSeq(y, m + 1, Len(y)) = x \o y
          /\ x \o SubSeq(y, 1, m) \in Seq(Message)
          /\ SubSeq(y, m + 1, Len(y)) \in Seq(Message)
          /\ Len(SubSeq(y, m + 1, Len(y))) = Len(y) - m
    BY ReadMoves, Zenon
  <2> HIDE DEF got, way
  <2> QED BY <1>1, <2>1, Zenon
<1>4. got2 \o way2 = got \o way /\ got2 \in Seq(Message) /\ way2 \in Seq(Message)
      /\ Len(way2) <= Len(way)
  <2> HIDE DEF got, way, got2, way2
  <2>1. got2 \o way2 = got \o way /\ got2 \in Seq(Message) /\ way2 \in Seq(Message)
    BY <1>2, <1>3, Zenon
  <2>2. Len(way2) = Len(way) - n
    BY <1>2, <1>3, Zenon
  <2> QED BY <1>1, <2>1, <2>2
<1>5. \A t \in Id : t # u => data'[t] = data[t] /\ received'[t] = received[t]
  OBVIOUS
<1>6. data' \in [Id -> Seq(Message)] /\ received' \in [Id -> Seq(Message)]
  <2>1. \A t \in Id : data'[t] \in Seq(Message) /\ received'[t] \in Seq(Message)
    BY <1>4, <1>5
  <2>2. data' = [t \in Id |-> data'[t]] /\ received' = [t \in Id |-> received'[t]]
    OBVIOUS
  <2> QED BY <2>1, <2>2
<1>7. \A t \in Id : Len(data'[t]) <= Capacity
  <2>1. Len(way2) <= Capacity
    <3>1. Len(way) <= Capacity /\ Len(way2) \in Nat
      BY <1>4, LenProperties
    <3> HIDE DEF way, way2
    <3> QED BY <1>1, <1>4, <3>1, PipeAssumption
  <2> QED BY <1>5, <2>1
<1>8. \A t \in Id : SentTo'[t] = SentTo[t]
  BY <1>4, <1>5 DEF SentTo
<1>9. SentTo' = SentTo
  BY <1>8 DEF SentTo
<1> QED BY <1>6, <1>7, <1>9

\* When everything sent is received, each message is in one place, in order.
LEMMA AllReceived ==
  ASSUME NEW count, Delivery(SentTo, count), \A w \in Id : count[w] = MaxLoop,
         received \in [Id -> Seq(Message)], \A r \in Id : data[r] = <<>>
  PROVE  /\ \A w \in Id, k \in 1 .. MaxLoop : Cardinality(Places(received, w, k)) = 1
         /\ InOrder(received)
<1>1. \A r \in Id : SentTo[r] = received[r]
  BY ConcatEmptySeq DEF SentTo
<1>2. SentTo = received
  BY <1>1 DEF SentTo
<1>3. Delivery(received, count)
  BY <1>2
<1> QED BY <1>3, EachOnce DEF Delivery
-----------------------------------------------------------------------------
\* What ThreadId, WriterOf and ReaderOf have to do with each other.
LEMMA Ids ==
  /\ Child = Reader \cup Writer /\ Reader \cap Writer = {} /\ main \notin Child
  /\ \A w \in Id : WriterOf(w) \in Writer /\ ThreadId(WriterOf(w)) = w
  /\ \A r \in Id : ReaderOf(r) \in Reader /\ ThreadId(ReaderOf(r)) = r
  /\ \A c \in Writer : ThreadId(c) \in Id /\ WriterOf(ThreadId(c)) = c
  /\ \A c \in Reader : ThreadId(c) \in Id /\ ReaderOf(ThreadId(c)) = c
<1>1. NumProcs \in Nat
  BY PipeAssumption
<1>2. Child = Reader \cup Writer /\ Reader \cap Writer = {} /\ main \notin Child
  BY <1>1 DEF Child, Reader, Writer, main
<1>3. \A w \in Id : WriterOf(w) \in Writer /\ ThreadId(WriterOf(w)) = w
  BY <1>1 DEF Id, Child, Reader, Writer, WriterOf, ThreadId
<1>4. \A r \in Id : ReaderOf(r) \in Reader /\ ThreadId(ReaderOf(r)) = r
  BY <1>1 DEF Id, Child, Reader, Writer, ReaderOf, ThreadId
<1>5. \A c \in Writer : ThreadId(c) \in Id /\ WriterOf(ThreadId(c)) = c
  BY <1>1 DEF Id, Child, Reader, Writer, WriterOf, ThreadId
<1>6. \A c \in Reader : ThreadId(c) \in Id /\ ReaderOf(ThreadId(c)) = c
  BY <1>1 DEF Id, Child, Reader, Writer, ReaderOf, ThreadId
<1> QED BY <1>2, <1>3, <1>4, <1>5, <1>6

\* Where main() stands, and whom it has created and waited for.
MainInv ==
  /\ mainPc = "fork" =>
       /\ mainI <= 2 * NumProcs
       /\ open[main] = Fd
       /\ \A c \in Child : pc[c] = "unborn" <=> c >= mainI
  /\ mainPc \notin {"fork", "failed"} => \A c \in Child : pc[c] # "unborn"
  /\ mainPc = "wait" => mainI <= 2 * NumProcs
  /\ mainPc \in {"close", "read", "done"} => mainI <= NumProcs
  /\ mainPc \in {"read", "done"} => \A c \in Child : pc[c] = "exit"
  /\ mainPc # "noOutput"

\* A writer has both ends of every input open until it has sent everything.
WriterInv(c) ==
  /\ pc[c] \in {"unborn", "unused", "loop", "close", "exit"}
  /\ pc[c] \in {"unused", "close"} => i[c] \in 1 .. NumProcs
  /\ pc[c] = "loop" => i[c] \in 0 .. MaxLoop
  /\ pc[c] \in {"unused", "loop"} =>
       \A k \in Id : inputs(k, "RD") \in open[c] /\ inputs(k, "WR") \in open[c]

ReaderInv(c) ==
  /\ pc[c] \in {"unborn", "unused", "loop", "return", "close", "exit"}
  /\ pc[c] = "unused" => i[c] \in 1 .. NumProcs

ChildInv ==
  /\ \A c \in Writer : WriterInv(c)
  /\ \A c \in Reader : ReaderInv(c)
  /\ \A c \in Child : pc[c] = "unborn" => i[c] = 1

\* The number in an output: there from the reader's write to main()'s read.
ResultInv ==
  \A t \in Id :
    result[t] = IF /\ pc[ReaderOf(t)] \in {"close", "exit"}
                   /\ ~(mainPc \in {"read", "done"} /\ t < mainI)
                THEN 1 ELSE 0

\* No reader finishes before the last writer.
FinishInv ==
  \A r \in Id :
    pc[ReaderOf(r)] \in {"return", "close", "exit"} =>
      /\ data[r] = <<>>
      /\ \A w \in Id : pc[WriterOf(w)] \in {"close", "exit"} \/ NeverBorn(WriterOf(w))

\* What each writer has sent.
Sent ==
  [w \in Id |-> CASE pc[WriterOf(w)] \in {"unborn", "unused"} -> 0
                  [] pc[WriterOf(w)] \in {"close", "exit"} -> MaxLoop
                  [] OTHER -> i[WriterOf(w)]]

DataInv ==
  /\ data \in [Id -> Seq(Message)] /\ received \in [Id -> Seq(Message)]
  /\ Delivery(SentTo, Sent)

PipeInv ==
  TypeOK /\ MainInv /\ ChildInv /\ ResultInv /\ FinishInv /\ DataInv

LEMMA PipeInit == Init => PipeInv
<1> SUFFICES ASSUME Init
             PROVE  PipeInv
  OBVIOUS
<1> USE PipeAssumption
<1>1. TypeOK
  <2>1. \A t \in Id : <<>> \in Seq(Id \X (1 .. MaxLoop)) /\ Len(<<>>) = 0
    BY EmptySeq
  <2>2. open \in [Proc -> SUBSET Fd]
    BY DEF Init
  <2>3. \A t \in Id : data[t] \in Seq(Id \X (1 .. MaxLoop)) /\ Len(data[t]) <= Capacity
    BY <2>1 DEF Init
  <2> QED BY <2>2, <2>3 DEF Init, TypeOK
<1>2. MainInv
  BY DEF Init, MainInv, Proc, main, Child
<1>3. ChildInv
  BY Ids DEF Init, ChildInv, WriterInv, ReaderInv
<1>4. ResultInv /\ FinishInv
  BY Ids DEF Init, ResultInv, FinishInv
<1>5. DataInv
  <2>1. data \in [Id -> Seq(Message)] /\ received \in [Id -> Seq(Message)]
    BY EmptySeq DEF Init
  <2>2. \A r \in Id : SentTo[r] = <<>>
    <3>1. <<>> \o <<>> = <<>>
      BY EmptySeq, ConcatEmptySeq
    <3> QED BY <3>1 DEF Init, SentTo
  <2>3. SentTo \in [Id -> Seq(Message)] /\ \A r \in Id : DOMAIN SentTo[r] = {}
    <3>1. <<>> \in Seq(Message) /\ DOMAIN <<>> = {}
      BY EmptySeq
    <3>2. SentTo = [r \in Id |-> <<>>]
      BY <2>2 DEF SentTo
    <3> QED BY <3>1, <3>2
  <2>4. Sent = [w \in Id |-> 0]
    BY Ids DEF Init, Sent
  <2> QED BY <2>1, <2>3, <2>4 DEF DataInv, Delivery, AllSent, NoneSentTwice, InOrder, OnlySent
<1> QED BY <1>1, <1>2, <1>3, <1>4, <1>5 DEF PipeInv

\* A writer in its loop keeps every input readable, so that a write never kills.
LEMMA InputsAreReadable ==
  ASSUME PipeInv, NEW c \in Writer, pc[c] \in {"unused", "loop"}, NEW k \in Id
  PROVE  Held(inputs(k, "RD")) /\ Held(inputs(k, "WR"))
<1>1. c \in Proc
  BY Ids DEF Proc
<1> QED BY <1>1 DEF PipeInv, ChildInv, WriterInv, Held

\* An input ends only when all writers are over.
LEMMA EndOfInput ==
  ASSUME PipeInv, NEW k \in Id, ~Held(inputs(k, "WR")), NEW w \in Id
  PROVE  pc[WriterOf(w)] \in {"close", "exit"} \/ NeverBorn(WriterOf(w))
<1>1. WriterOf(w) \in Writer /\ WriterOf(w) \in Child
  BY Ids
<1>2. pc[WriterOf(w)] \in {"unborn", "close", "exit"}
  BY <1>1, InputsAreReadable DEF PipeInv, ChildInv, WriterInv
<1>3. mainPc # "fork"
  BY DEF PipeInv, MainInv, Held, Proc, Fd, inputs
<1>4. pc[WriterOf(w)] = "unborn" => mainPc = "failed"
  BY <1>1, <1>3 DEF PipeInv, MainInv
<1> QED BY <1>2, <1>4 DEF NeverBorn

\* What a write does.
LEMMA Writes ==
  ASSUME PipeInv, NEW c \in Child, NEW target \in Id, Write(c, target)
  PROVE  /\ c \in Writer /\ pc[c] = "loop" /\ i[c] \in 0 .. MaxLoop /\ i[c] < MaxLoop
         /\ Len(data[target]) < Capacity
         /\ data' = [data EXCEPT ![target] = Append(@, <<ThreadId(c), i[c] + 1>>)]
         /\ i' = [i EXCEPT ![c] = @ + 1]
         /\ UNCHANGED <<open, pc, result, received, mainPc, mainI>>
<1>1. c \in Writer /\ pc[c] = "loop" /\ i[c] < MaxLoop
  BY DEF Write
<1>2. Held(inputs(target, "RD"))
  BY <1>1, InputsAreReadable
<1>3. i[c] \in 0 .. MaxLoop
  BY <1>1 DEF PipeInv, ChildInv, WriterInv
<1> QED BY <1>1, <1>2, <1>3 DEF Write

\* What a read does.
LEMMA Reads ==
  ASSUME PipeInv, NEW c \in Child, Read(c)
  PROVE  \E n \in 1 .. 2 :
           /\ c \in Reader /\ pc[c] = "loop" /\ ThreadId(c) \in Id
           /\ n <= Len(data[ThreadId(c)])
           /\ received' = [received EXCEPT ![ThreadId(c)] = @ \o SubSeq(data[ThreadId(c)], 1, n)]
           /\ data' = [data EXCEPT ![ThreadId(c)] = SubSeq(@, n + 1, Len(@))]
           /\ UNCHANGED <<open, result, pc, i, mainPc, mainI>>
<1> DEFINE len == Len(data[ThreadId(c)])
           n == IF len > 2 THEN 2 ELSE len
<1>1. c \in Reader /\ ThreadId(c) \in Id
  BY Ids DEF Read
<1>2. len \in Nat
  BY <1>1, LenProperties DEF PipeInv, TypeOK
<1>3. n > 0
  BY DEF Read
<1>4. n \in 1 .. 2 /\ n <= len
  <2> HIDE DEF len
  <2> QED BY <1>2, <1>3
<1>5. /\ pc[c] = "loop"
      /\ received' = [received EXCEPT ![ThreadId(c)] = @ \o SubSeq(data[ThreadId(c)], 1, n)]
      /\ data' = [data EXCEPT ![ThreadId(c)] = SubSeq(@, n + 1, Len(@))]
      /\ UNCHANGED <<open, result, pc, i, mainPc, mainI>>
  BY DEF Read
<1> QED BY <1>1, <1>4, <1>5

\* main() goes on only over children that have ended.
LEMMA MainStep == PipeInv /\ [Next]_vars => MainInv'
<1> SUFFICES ASSUME PipeInv, [Next]_vars
             PROVE  MainInv'
  OBVIOUS
<1> USE PipeAssumption
<1>1. CASE Fork
  <2>1. /\ mainPc = "fork" /\ mainI \in 1 .. 2 * NumProcs /\ NumProcs \in Nat
        /\ open[main] = Fd /\ \A c \in Child : pc[c] = "unborn" <=> c >= mainI
    BY <1>1 DEF Fork, PipeInv, MainInv, TypeOK
  <2>2. mainI \in Child /\ mainI # main
    BY <2>1 DEF Child, main
  <2>3. open'[main] = Fd
    BY <1>1, <2>1, <2>2 DEF Fork, PipeInv, TypeOK, Proc
  <2>4. \A c \in Child : pc'[c] = IF c = mainI THEN "unused" ELSE pc[c]
    BY <1>1, <2>2 DEF Fork, Goto, PipeInv, TypeOK
  <2>5. \A c \in Child : pc'[c] = "unborn" <=> c >= mainI + 1
    BY <2>1, <2>2, <2>4 DEF Child
  <2>6. CASE mainI < 2 * NumProcs
    <3>1. mainPc' = "fork" /\ mainI' = mainI + 1 /\ mainI' <= 2 * NumProcs
      BY <1>1, <2>1, <2>6 DEF Fork
    <3> QED BY <2>3, <2>5, <3>1 DEF MainInv
  <2>7. CASE ~(mainI < 2 * NumProcs)
    <3>1. mainPc' = "close" /\ mainI' = 1
      BY <1>1, <2>7 DEF Fork
    <3>2. \A c \in Child : pc'[c] # "unborn"
      BY <2>1, <2>5, <2>7 DEF Child
    <3> QED BY <2>1, <3>1, <3>2 DEF MainInv
  <2> QED BY <2>6, <2>7
<1>2. CASE ForkFails
  BY <1>2, Ids DEF ForkFails, PipeInv, MainInv, ChildInv, ReaderInv, WriterInv, TypeOK, Close, Goto, childVars
<1>3. CASE MainCloses
  BY <1>3, Ids DEF MainCloses, PipeInv, MainInv, ChildInv, ReaderInv, WriterInv, TypeOK, Close, Goto, childVars
<1>4. CASE WaitChild
  <2> DEFINE ended == {c \in Child : pc[c] \in {"killed", "exit"}}
  <2>1. mainPc = "wait" /\ mainI \in 1 .. 2 * NumProcs /\ mainI <= Cardinality(ended)
    BY <1>4 DEF WaitChild, PipeInv, MainInv, TypeOK
  <2>2. \A c \in Child : pc[c] # "unborn"
    BY <2>1 DEF PipeInv, MainInv
  <2>3. CASE mainI < 2 * NumProcs
    BY <1>4, <2>1, <2>2, <2>3 DEF WaitChild, childVars, MainInv
  <2>4. CASE ~(mainI < 2 * NumProcs)
    <3>1. ended = Child
      <4>1. IsFiniteSet(Child) /\ Cardinality(Child) = 2 * NumProcs
        BY FS_Interval DEF Child
      <4>2. ended \subseteq Child
        OBVIOUS
      <4>3. Cardinality(ended) <= Cardinality(Child) /\ Cardinality(ended) \in Nat
        BY <4>1, <4>2, FS_Subset, FS_CardinalityType
      <4>4. Cardinality(ended) = Cardinality(Child)
        BY <2>1, <2>4, <4>1, <4>3
      <4> QED BY <4>1, <4>2, <4>4, FS_Subset
    <3>2. \A c \in Child : pc[c] = "exit"
      BY <3>1, Ids DEF PipeInv, ChildInv, WriterInv, ReaderInv
    <3> QED BY <1>4, <2>1, <2>2, <2>4, <3>2 DEF WaitChild, childVars, MainInv
  <2> QED BY <2>3, <2>4
<1>5. CASE ReadResult
  <2>1. mainPc = "read" /\ mainI \in 1 .. NumProcs /\ mainI < NumProcs
    BY <1>5 DEF ReadResult, PipeInv, MainInv, TypeOK
  <2>2. mainI \in Id /\ ReaderOf(mainI) \in Child /\ pc[ReaderOf(mainI)] = "exit"
    BY <2>1, Ids DEF PipeInv, MainInv, Id
  <2>3. result[mainI] > 0
    BY <2>1, <2>2 DEF PipeInv, ResultInv
  <2>4. mainI' = mainI + 1 /\ mainPc' = "read" /\ UNCHANGED pc
    BY <1>5, <2>1, <2>3 DEF ReadResult
  <2> QED BY <2>1, <2>4 DEF PipeInv, MainInv
<1>6. CASE PrintSignature
  BY <1>6, Ids DEF PrintSignature, PipeInv, MainInv, ChildInv, ReaderInv, WriterInv, TypeOK, Close, Goto, childVars
<1>7. ASSUME NEW c \in Child, CloseUnused(c)
      PROVE  MainInv'
  BY <1>7, Ids DEF CloseUnused, PipeInv, MainInv, ChildInv, ReaderInv, WriterInv, TypeOK, Close, Goto, childVars
<1>8. ASSUME NEW c \in Child, Read(c)
      PROVE  MainInv'
  BY <1>8, Ids, Reads DEF PipeInv, MainInv
<1>9. ASSUME NEW c \in Child, ReadEnd(c)
      PROVE  MainInv'
  BY <1>9, Ids DEF ReadEnd, PipeInv, MainInv, ChildInv, ReaderInv, WriterInv, TypeOK, Close, Goto, childVars
<1>10. ASSUME NEW c \in Child, WriteResult(c)
      PROVE  MainInv'
  BY <1>10, Ids DEF WriteResult, PipeInv, MainInv, ChildInv, ReaderInv, WriterInv, TypeOK, Close, Goto, childVars
<1>11. ASSUME NEW c \in Child, ReaderExit(c)
      PROVE  MainInv'
  BY <1>11, Ids DEF ReaderExit, PipeInv, MainInv, ChildInv, ReaderInv, WriterInv, TypeOK, Close, Goto, childVars
<1>12. ASSUME NEW c \in Child, LeaveLoop(c)
      PROVE  MainInv'
  BY <1>12, Ids DEF LeaveLoop, PipeInv, MainInv, ChildInv, ReaderInv, WriterInv, TypeOK, Close, Goto, childVars
<1>13. ASSUME NEW c \in Child, CloseInputs(c)
      PROVE  MainInv'
  BY <1>13, Ids DEF CloseInputs, PipeInv, MainInv, ChildInv, ReaderInv, WriterInv, TypeOK, Close, Goto, childVars
<1>14. ASSUME NEW c \in Child, NEW target \in Id, Write(c, target)
      PROVE  MainInv'
  BY <1>14, Ids, Writes DEF PipeInv, MainInv
<1>15. CASE UNCHANGED vars
  BY <1>15 DEF vars, childVars, PipeInv, MainInv
<1> QED
  BY <1>1, <1>2, <1>3, <1>4, <1>5, <1>6, <1>7, <1>8,
     <1>9, <1>10, <1>11, <1>12, <1>13, <1>14, <1>15 DEF Next, mainStep, child, Over

\* The other children stay as they are.
LEMMA OthersStay ==
  ASSUME ChildInv, NEW c \in Child,
         \A d \in Child : d # c => pc'[d] = pc[d] /\ i'[d] = i[d] /\ open'[d] = open[d],
         c \in Writer => WriterInv(c)', c \in Reader => ReaderInv(c)',
         pc'[c] = "unborn" => i'[c] = 1
  PROVE  ChildInv'
<1>1. \A d \in Writer : WriterInv(d)'
  BY Ids DEF ChildInv, WriterInv
<1>2. \A d \in Reader : ReaderInv(d)'
  BY Ids DEF ChildInv, ReaderInv
<1>3. \A d \in Child : pc'[d] = "unborn" => i'[d] = 1
  BY DEF ChildInv
<1> QED BY <1>1, <1>2, <1>3 DEF ChildInv

\* A child closes what it does not use, and only then.
LEMMA ChildStep == PipeInv /\ [Next]_vars => ChildInv'
<1> SUFFICES ASSUME PipeInv, [Next]_vars
             PROVE  ChildInv'
  OBVIOUS
<1> USE PipeAssumption
<1>1. CASE Fork
  <2>1. /\ NumProcs \in Nat /\ ChildInv
        /\ pc \in [Child -> {"unborn", "unused", "loop", "return", "close", "killed", "exit"}]
        /\ i \in [Child -> 0 .. NumProcs + MaxLoop] /\ open \in [Proc -> SUBSET Fd]
    BY DEF PipeInv, TypeOK
  <2>2. mainI \in Child
    BY <1>1 DEF Fork, PipeInv, MainInv, TypeOK, Child
  <2>3. PICK c \in Child : c = mainI
    BY <2>2
  <2>4. c \in Proc /\ pc[c] = "unborn" /\ i[c] = 1 /\ open[main] = Fd
    BY <1>1, <2>1, <2>3 DEF Fork, PipeInv, MainInv, ChildInv, Proc, Child
  <2>5. \A d \in Child : d # c => pc'[d] = pc[d] /\ i'[d] = i[d] /\ open'[d] = open[d]
    BY <1>1, <2>1, <2>3 DEF Fork, Goto
  <2>6. pc'[c] = "unused" /\ i'[c] = 1 /\ open'[c] = Fd
    BY <1>1, <2>1, <2>3, <2>4 DEF Fork, Goto
  <2>7. \A k \in Id : inputs(k, "RD") \in Fd /\ inputs(k, "WR") \in Fd
    BY DEF inputs, Fd
  <2>8. WriterInv(c)' /\ ReaderInv(c)'
    BY <2>6, <2>7 DEF WriterInv, ReaderInv
  <2> QED BY <2>1, <2>5, <2>6, <2>8, OthersStay
<1>2. CASE ForkFails
  BY <1>2, Ids DEF ForkFails, PipeInv, MainInv, ChildInv, ReaderInv, WriterInv, TypeOK, Close, Goto, childVars, Proc
<1>3. CASE MainCloses
  BY <1>3, Ids DEF MainCloses, PipeInv, MainInv, ChildInv, ReaderInv, WriterInv, TypeOK, Close, Goto, childVars, Proc
<1>4. CASE WaitChild
  BY <1>4, Ids DEF WaitChild, PipeInv, MainInv, ChildInv, ReaderInv, WriterInv, TypeOK, Close, Goto, childVars, Proc
<1>5. CASE ReadResult
  BY <1>5, Ids DEF ReadResult, PipeInv, MainInv, ChildInv, ReaderInv, WriterInv, TypeOK, Close, Goto, childVars, Proc
<1>6. CASE PrintSignature
  BY <1>6, Ids DEF PrintSignature, PipeInv, MainInv, ChildInv, ReaderInv, WriterInv, TypeOK, Close, Goto, childVars, Proc
<1>7. ASSUME NEW c \in Child, CloseUnused(c)
      PROVE  ChildInv'
  <2>1. /\ c \in Proc /\ NumProcs \in Nat \ {0} /\ ChildInv
        /\ pc \in [Child -> {"unborn", "unused", "loop", "return", "close", "killed", "exit"}]
        /\ i \in [Child -> 0 .. NumProcs + MaxLoop] /\ open \in [Proc -> SUBSET Fd]
    BY DEF Proc, PipeInv, TypeOK
  <2>2. \A d \in Child : d # c => pc'[d] = pc[d] /\ i'[d] = i[d] /\ open'[d] = open[d]
    BY <1>7, <2>1 DEF CloseUnused, Close, Goto
  <2>3. /\ c \in Writer => WriterInv(c)'
        /\ c \in Reader => ReaderInv(c)'
        /\ pc'[c] = "unborn" => i'[c] = 1
    <3>1. /\ i[c] \in 1 .. NumProcs
          /\ \/ pc'[c] = "unused" /\ i'[c] \in 1 .. NumProcs
             \/ pc'[c] = "loop" /\ i'[c] = 0
      BY <1>7, <2>1, Ids DEF CloseUnused, Goto, ChildInv, WriterInv, ReaderInv
    <3>2. ASSUME c \in Writer, NEW k \in Id
          PROVE  inputs(k, "RD") \in open'[c] /\ inputs(k, "WR") \in open'[c]
      BY <1>7, <2>1, <3>2 DEF CloseUnused, Close, Unused, ChildInv, WriterInv, inputs, output
    <3> QED BY <3>1, <3>2, PipeAssumption DEF WriterInv, ReaderInv
  <2> QED BY <2>1, <2>2, <2>3, OthersStay
<1>8. ASSUME NEW c \in Child, Read(c)
      PROVE  ChildInv'
  BY <1>8, Ids, Reads DEF PipeInv, ChildInv, ReaderInv, WriterInv
<1>9. ASSUME NEW c \in Child, ReadEnd(c)
      PROVE  ChildInv'
  BY <1>9, Ids DEF ReadEnd, PipeInv, MainInv, ChildInv, ReaderInv, WriterInv, TypeOK, Close, Goto, childVars, Proc
<1>10. ASSUME NEW c \in Child, WriteResult(c)
      PROVE  ChildInv'
  BY <1>10, Ids DEF WriteResult, PipeInv, MainInv, ChildInv, ReaderInv, WriterInv, TypeOK, Close, Goto, childVars, Proc
<1>11. ASSUME NEW c \in Child, ReaderExit(c)
      PROVE  ChildInv'
  BY <1>11, Ids DEF ReaderExit, PipeInv, MainInv, ChildInv, ReaderInv, WriterInv, TypeOK, Close, Goto, childVars, Proc
<1>12. ASSUME NEW c \in Child, LeaveLoop(c)
      PROVE  ChildInv'
  BY <1>12, Ids DEF LeaveLoop, PipeInv, MainInv, ChildInv, ReaderInv, WriterInv, TypeOK, Close, Goto, childVars, Proc
<1>13. ASSUME NEW c \in Child, CloseInputs(c)
      PROVE  ChildInv'
  <2>1. /\ c \in Proc /\ NumProcs \in Nat \ {0} /\ ChildInv
        /\ pc \in [Child -> {"unborn", "unused", "loop", "return", "close", "killed", "exit"}]
        /\ i \in [Child -> 0 .. NumProcs + MaxLoop] /\ open \in [Proc -> SUBSET Fd]
    BY DEF Proc, PipeInv, TypeOK
  <2>2. \A d \in Child : d # c => pc'[d] = pc[d] /\ i'[d] = i[d] /\ open'[d] = open[d]
    BY <1>13, <2>1 DEF CloseInputs, Close, Goto
  <2>3. /\ c \in Writer => WriterInv(c)'
        /\ c \in Reader => ReaderInv(c)'
        /\ pc'[c] = "unborn" => i'[c] = 1
    <3>1. c \in Writer /\ i[c] \in 1 .. NumProcs
      BY <1>13, <2>1 DEF CloseInputs, ChildInv, WriterInv
    <3>2. \/ pc'[c] = "close" /\ i'[c] \in 1 .. NumProcs
          \/ pc'[c] = "exit"
      BY <1>13, <2>1, <3>1 DEF CloseInputs, Goto
    <3> QED BY <3>1, <3>2, Ids DEF WriterInv
  <2> QED BY <2>1, <2>2, <2>3, OthersStay
<1>14. ASSUME NEW c \in Child, NEW target \in Id, Write(c, target)
      PROVE  ChildInv'
  <2>1. /\ c \in Proc /\ NumProcs \in Nat \ {0} /\ ChildInv
        /\ pc \in [Child -> {"unborn", "unused", "loop", "return", "close", "killed", "exit"}]
        /\ i \in [Child -> 0 .. NumProcs + MaxLoop] /\ open \in [Proc -> SUBSET Fd]
    BY DEF Proc, PipeInv, TypeOK
  <2>2. \A d \in Child : d # c => pc'[d] = pc[d] /\ i'[d] = i[d] /\ open'[d] = open[d]
    BY <1>14, <2>1, Writes
  <2>3. /\ c \in Writer => WriterInv(c)'
        /\ c \in Reader => ReaderInv(c)'
        /\ pc'[c] = "unborn" => i'[c] = 1
    BY <1>14, <2>1, Ids, Writes DEF ChildInv, WriterInv
  <2> QED BY <2>1, <2>2, <2>3, OthersStay
<1>15. CASE UNCHANGED vars
  BY <1>15 DEF vars, childVars, PipeInv, ChildInv, ReaderInv, WriterInv
<1> QED
  BY <1>1, <1>2, <1>3, <1>4, <1>5, <1>6, <1>7, <1>8,
     <1>9, <1>10, <1>11, <1>12, <1>13, <1>14, <1>15 DEF Next, mainStep, child, Over

\* A result stays in its output until main() reads it.
LEMMA ResultStep == PipeInv /\ [Next]_vars => ResultInv'
<1> SUFFICES ASSUME PipeInv, [Next]_vars
             PROVE  ResultInv'
  OBVIOUS
<1> USE PipeAssumption
<1>1. CASE Fork
  BY <1>1, Ids DEF Fork, PipeInv, MainInv, ResultInv, TypeOK, Close, Goto, childVars
<1>2. CASE ForkFails
  BY <1>2, Ids DEF ForkFails, PipeInv, MainInv, ResultInv, TypeOK, Close, Goto, childVars
<1>3. CASE MainCloses
  BY <1>3, Ids DEF MainCloses, PipeInv, MainInv, ResultInv, TypeOK, Close, Goto, childVars
<1>4. CASE WaitChild
  <2>1. UNCHANGED <<result, pc>> /\ mainPc = "wait"
    BY <1>4 DEF WaitChild, childVars
  <2>2. mainPc' = "wait" \/ (mainPc' = "read" /\ mainI' = 1)
    BY <1>4 DEF WaitChild
  <2>3. \A t \in Id : ~(t < 1)
    BY DEF Id
  <2> QED BY <2>1, <2>2, <2>3 DEF PipeInv, ResultInv
<1>5. CASE ReadResult
  <2>1. mainPc = "read" /\ mainI \in 1 .. NumProcs /\ mainI < NumProcs
    BY <1>5 DEF ReadResult, PipeInv, MainInv, TypeOK
  <2>2. mainI \in Id /\ \A t \in Id : pc[ReaderOf(t)] = "exit"
    BY <2>1, Ids DEF PipeInv, MainInv, Id
  <2>3. result \in [Id -> 0 .. 1] /\ \A t \in Id : result[t] = IF t < mainI THEN 0 ELSE 1
    BY <2>1, <2>2 DEF PipeInv, ResultInv, TypeOK
  <2>4. result[mainI] = 1
    BY <2>1, <2>2, <2>3
  <2>5. mainI' = mainI + 1 /\ mainPc' = "read" /\ UNCHANGED pc /\ result' = [result EXCEPT ![mainI] = @ - 1]
    BY <1>5, <2>1, <2>4 DEF ReadResult
  <2>6. \A t \in Id : result'[t] = IF t < mainI + 1 THEN 0 ELSE 1
    BY <2>1, <2>2, <2>3, <2>5 DEF Id
  <2> QED BY <2>2, <2>5, <2>6 DEF ResultInv
<1>6. CASE PrintSignature
  BY <1>6, Ids DEF PrintSignature, PipeInv, MainInv, ResultInv, TypeOK, Close, Goto, childVars
<1>7. ASSUME NEW c \in Child, CloseUnused(c)
      PROVE  ResultInv'
  BY <1>7, Ids DEF CloseUnused, PipeInv, MainInv, ResultInv, TypeOK, Close, Goto, childVars
<1>8. ASSUME NEW c \in Child, Read(c)
      PROVE  ResultInv'
  BY <1>8, Ids, Reads DEF PipeInv, ResultInv
<1>9. ASSUME NEW c \in Child, ReadEnd(c)
      PROVE  ResultInv'
  BY <1>9, Ids DEF ReadEnd, PipeInv, MainInv, ResultInv, TypeOK, Close, Goto, childVars
<1>10. ASSUME NEW c \in Child, WriteResult(c)
      PROVE  ResultInv'
  BY <1>10, Ids DEF WriteResult, PipeInv, MainInv, ResultInv, TypeOK, Close, Goto, childVars
<1>11. ASSUME NEW c \in Child, ReaderExit(c)
      PROVE  ResultInv'
  BY <1>11, Ids DEF ReaderExit, PipeInv, MainInv, ResultInv, TypeOK, Close, Goto, childVars
<1>12. ASSUME NEW c \in Child, LeaveLoop(c)
      PROVE  ResultInv'
  BY <1>12, Ids DEF LeaveLoop, PipeInv, MainInv, ResultInv, TypeOK, Close, Goto, childVars
<1>13. ASSUME NEW c \in Child, CloseInputs(c)
      PROVE  ResultInv'
  BY <1>13, Ids DEF CloseInputs, PipeInv, MainInv, ResultInv, TypeOK, Close, Goto, childVars
<1>14. ASSUME NEW c \in Child, NEW target \in Id, Write(c, target)
      PROVE  ResultInv'
  BY <1>14, Ids, Writes DEF PipeInv, ResultInv
<1>15. CASE UNCHANGED vars
  BY <1>15 DEF vars, childVars, PipeInv, ResultInv
<1> QED
  BY <1>1, <1>2, <1>3, <1>4, <1>5, <1>6, <1>7, <1>8,
     <1>9, <1>10, <1>11, <1>12, <1>13, <1>14, <1>15 DEF Next, mainStep, child, Over

\* When a reader has seen the end of its input, nobody sends any more.
LEMMA FinishStep == PipeInv /\ [Next]_vars => FinishInv'
<1> SUFFICES ASSUME PipeInv, [Next]_vars
             PROVE  FinishInv'
  OBVIOUS
<1> USE PipeAssumption
<1>1. CASE Fork
  BY <1>1, Ids DEF Fork, PipeInv, MainInv, FinishInv, NeverBorn, TypeOK, Close, Goto, childVars
<1>2. CASE ForkFails
  BY <1>2, Ids DEF ForkFails, PipeInv, MainInv, FinishInv, NeverBorn, TypeOK, Close, Goto, childVars
<1>3. CASE MainCloses
  BY <1>3, Ids DEF MainCloses, PipeInv, MainInv, FinishInv, NeverBorn, TypeOK, Close, Goto, childVars
<1>4. CASE WaitChild
  BY <1>4, Ids DEF WaitChild, PipeInv, MainInv, FinishInv, NeverBorn, TypeOK, Close, Goto, childVars
<1>5. CASE ReadResult
  BY <1>5, Ids DEF ReadResult, PipeInv, MainInv, FinishInv, NeverBorn, TypeOK, Close, Goto, childVars
<1>6. CASE PrintSignature
  BY <1>6, Ids DEF PrintSignature, PipeInv, MainInv, FinishInv, NeverBorn, TypeOK, Close, Goto, childVars
<1>7. ASSUME NEW c \in Child, CloseUnused(c)
      PROVE  FinishInv'
  <2>1. UNCHANGED <<data, mainPc>> /\ pc[c] = "unused"
    BY <1>7 DEF CloseUnused
  <2>2. \A d \in Child : pc'[d] = pc[d] \/ (d = c /\ pc'[d] = "loop")
    BY <1>7 DEF CloseUnused, Goto, PipeInv, TypeOK
  <2> QED BY <2>1, <2>2, Ids DEF PipeInv, FinishInv, NeverBorn
<1>8. ASSUME NEW c \in Child, Read(c)
      PROVE  FinishInv'
  <2>1. UNCHANGED <<pc, mainPc>> /\ c \in Reader /\ pc[c] = "loop"
    BY <1>8, Reads
  <2>2. \A r \in Id : r # ThreadId(c) => data'[r] = data[r]
    BY <1>8, Reads DEF PipeInv, DataInv
  <2>3. \A r \in Id : pc[ReaderOf(r)] \in {"return", "close", "exit"} => r # ThreadId(c)
    BY <2>1, Ids
  <2> QED BY <2>1, <2>2, <2>3 DEF PipeInv, FinishInv, NeverBorn
<1>9. ASSUME NEW c \in Child, ReadEnd(c)
      PROVE  FinishInv'
  BY <1>9, Ids, EndOfInput DEF ReadEnd, Goto, PipeInv, TypeOK, FinishInv, NeverBorn
<1>10. ASSUME NEW c \in Child, WriteResult(c)
      PROVE  FinishInv'
  BY <1>10, Ids DEF WriteResult, PipeInv, MainInv, FinishInv, NeverBorn, TypeOK, Close, Goto, childVars
<1>11. ASSUME NEW c \in Child, ReaderExit(c)
      PROVE  FinishInv'
  BY <1>11, Ids DEF ReaderExit, PipeInv, MainInv, FinishInv, NeverBorn, TypeOK, Close, Goto, childVars
<1>12. ASSUME NEW c \in Child, LeaveLoop(c)
      PROVE  FinishInv'
  BY <1>12, Ids DEF LeaveLoop, PipeInv, MainInv, FinishInv, NeverBorn, TypeOK, Close, Goto, childVars
<1>13. ASSUME NEW c \in Child, CloseInputs(c)
      PROVE  FinishInv'
  <2>1. UNCHANGED <<data, mainPc>> /\ pc[c] = "close" /\ c \in Writer
    BY <1>13 DEF CloseInputs
  <2>2. \A d \in Child : pc'[d] = pc[d] \/ (d = c /\ pc'[d] = "exit")
    BY <1>13 DEF CloseInputs, Goto, PipeInv, TypeOK
  <2> QED BY <2>1, <2>2, Ids DEF PipeInv, FinishInv, NeverBorn
<1>14. ASSUME NEW c \in Child, NEW target \in Id, Write(c, target)
      PROVE  FinishInv'
  BY <1>14, Ids, Writes DEF PipeInv, FinishInv, NeverBorn
<1>15. CASE UNCHANGED vars
  BY <1>15 DEF vars, childVars, PipeInv, FinishInv, NeverBorn
<1> QED
  BY <1>1, <1>2, <1>3, <1>4, <1>5, <1>6, <1>7, <1>8,
     <1>9, <1>10, <1>11, <1>12, <1>13, <1>14, <1>15 DEF Next, mainStep, child, Over

LEMMA SentType ==
  ASSUME PipeInv
  PROVE  /\ Sent \in [Id -> 0 .. MaxLoop]
         /\ \A w \in Id : pc[WriterOf(w)] = "loop" => Sent[w] = i[WriterOf(w)]
<1>1. \A w \in Id : WriterInv(WriterOf(w))
  BY Ids DEF PipeInv, ChildInv
<1> QED BY <1>1, PipeAssumption DEF Sent, WriterInv

\* What a write adds to what has been sent.
LEMMA SentByWrite ==
  ASSUME PipeInv, NEW c \in Child, NEW target \in Id, Write(c, target)
  PROVE  /\ ThreadId(c) \in Id /\ pc[WriterOf(ThreadId(c))] = "loop"
         /\ Sent[ThreadId(c)] = i[c] /\ Sent[ThreadId(c)] < MaxLoop
         /\ Sent' = [Sent EXCEPT ![ThreadId(c)] = @ + 1]
<1> DEFINE u == ThreadId(c)
<1>1. /\ c \in Writer /\ pc[c] = "loop" /\ i[c] \in 0 .. MaxLoop /\ i[c] < MaxLoop
      /\ i' = [i EXCEPT ![c] = @ + 1] /\ UNCHANGED pc
  BY Writes
<1>2. u \in Id /\ WriterOf(u) = c
  BY <1>1, Ids
<1>3. Sent[u] = i[c] /\ i \in [Child -> 0 .. NumProcs + MaxLoop]
  BY <1>1, <1>2, SentType DEF PipeInv, TypeOK
<1>4. \A w \in Id : w # u => WriterOf(w) # c /\ WriterOf(w) \in Child
  BY Ids
<1>5. Sent'[u] = Sent[u] + 1
  BY <1>1, <1>2, <1>3 DEF Sent
<1>6. \A w \in Id : w # u => Sent'[w] = Sent[w]
  BY <1>1, <1>3, <1>4 DEF Sent
<1>7. Sent' = [w \in Id |-> Sent'[w]] /\ Sent = [w \in Id |-> Sent[w]]
  BY DEF Sent
<1> HIDE DEF u
<1>8. Sent' = [Sent EXCEPT ![u] = @ + 1]
  BY <1>2, <1>5, <1>6, <1>7
<1> QED BY <1>1, <1>2, <1>3, <1>8 DEF u

\* Nothing else counts as sent.
LEMMA SentOnlyByWrite ==
  ASSUME PipeInv, [Next]_vars,
         \A c \in Child, target \in Id : ~Write(c, target)
  PROVE  Sent' = Sent
<1> SUFFICES ASSUME NEW w \in Id
             PROVE  Sent'[w] = Sent[w]
  BY DEF Sent
<1> DEFINE x == WriterOf(w)
<1>1. x \in Child /\ x \in Writer /\ x \notin Reader /\ WriterInv(x)
  BY Ids DEF PipeInv, ChildInv
<1>2. /\ pc \in [Child -> {"unborn", "unused", "loop", "return", "close", "killed", "exit"}]
      /\ i \in [Child -> 0 .. NumProcs + MaxLoop]
  BY DEF PipeInv, TypeOK
<1>3. \/ UNCHANGED <<pc[x], i[x]>>
      \/ pc[x] \in {"unborn", "unused"} /\ pc'[x] = "unused"
      \/ pc[x] = "unused" /\ pc'[x] = "loop" /\ i'[x] = 0
      \/ pc[x] = "loop" /\ i[x] = MaxLoop /\ pc'[x] = "close"
      \/ pc[x] = "close" /\ pc'[x] \in {"close", "exit"}
  <2>1. CASE Fork
    <3>1. pc[mainI] = "unborn" /\ mainI \in Child
      BY <2>1, PipeAssumption DEF Fork, PipeInv, MainInv, TypeOK, Child
    <3> QED BY <1>1, <1>2, <2>1, <3>1 DEF Fork, Goto
  <2>2. CASE ForkFails \/ MainCloses \/ WaitChild \/ ReadResult \/ PrintSignature
    BY <2>2 DEF ForkFails, MainCloses, WaitChild, ReadResult, PrintSignature, childVars
  <2>3. ASSUME NEW c \in Child, CloseUnused(c)
        PROVE  \/ UNCHANGED <<pc[x], i[x]>>
               \/ pc[x] \in {"unborn", "unused"} /\ pc'[x] = "unused"
               \/ pc[x] = "unused" /\ pc'[x] = "loop" /\ i'[x] = 0
    <3>1. CASE c = x
      BY <1>1, <1>2, <2>3, <3>1 DEF CloseUnused, Goto
    <3>2. CASE c # x
      BY <1>1, <1>2, <2>3, <3>2 DEF CloseUnused, Goto
    <3> QED BY <3>1, <3>2
  <2>4. ASSUME NEW c \in Child, Read(c) \/ ReadEnd(c) \/ WriteResult(c) \/ ReaderExit(c)
        PROVE  UNCHANGED <<pc[x], i[x]>>
    <3>1. c \in Reader /\ c # x /\ UNCHANGED i
      BY <1>1, <2>4 DEF Read, ReadEnd, WriteResult, ReaderExit
    <3> QED BY <1>1, <1>2, <2>4, <3>1 DEF Read, ReadEnd, WriteResult, ReaderExit, Goto
  <2>5. ASSUME NEW c \in Child, LeaveLoop(c)
        PROVE  \/ UNCHANGED <<pc[x], i[x]>>
               \/ pc[x] = "loop" /\ i[x] = MaxLoop /\ pc'[x] = "close"
    BY <1>1, <1>2, <2>5 DEF LeaveLoop, Goto
  <2>6. ASSUME NEW c \in Child, CloseInputs(c)
        PROVE  \/ UNCHANGED <<pc[x], i[x]>>
               \/ pc[x] = "close" /\ pc'[x] \in {"close", "exit"}
    BY <1>1, <1>2, <2>6 DEF CloseInputs, Goto
  <2>7. CASE UNCHANGED vars
    BY <2>7 DEF vars, childVars
  <2> HIDE DEF x
  <2> QED BY <2>1, <2>2, <2>3, <2>4, <2>5, <2>6, <2>7 DEF Next, mainStep, child, Over
<1>4. /\ Sent[w] = IF pc[x] \in {"unborn", "unused"} THEN 0
                   ELSE IF pc[x] \in {"close", "exit"} THEN MaxLoop ELSE i[x]
      /\ Sent'[w] = IF pc'[x] \in {"unborn", "unused"} THEN 0
                    ELSE IF pc'[x] \in {"close", "exit"} THEN MaxLoop ELSE i'[x]
  BY DEF Sent
<1> HIDE DEF x
<1> QED BY <1>3, <1>4

\* Whatever is sent is received or on its way.
LEMMA DataStep == PipeInv /\ [Next]_vars => DataInv' /\ \A t \in Id : Len(data'[t]) <= Capacity
<1> SUFFICES ASSUME PipeInv, [Next]_vars
             PROVE  DataInv' /\ \A t \in Id : Len(data'[t]) <= Capacity
  OBVIOUS
<1>1. /\ data \in [Id -> Seq(Message)] /\ received \in [Id -> Seq(Message)]
      /\ Delivery(SentTo, Sent) /\ \A t \in Id : Len(data[t]) <= Capacity
  BY DEF PipeInv, DataInv, TypeOK
<1>2. CASE \E c \in Child, target \in Id : Write(c, target)
  <2>1. PICK c \in Child, target \in Id : Write(c, target)
    BY <1>2
  <2> DEFINE w == ThreadId(c)
  <2>2. w \in Id /\ Sent[w] < MaxLoop /\ Sent[w] = i[c] /\ Sent' = [Sent EXCEPT ![w] = @ + 1]
    BY <2>1, SentByWrite
  <2> DEFINE msg == <<w, Sent[w] + 1>>
  <2>3. msg \in Message
    BY <2>2, SentType, PipeAssumption DEF Message
  <2>4. data' = [data EXCEPT ![target] = Append(@, msg)] /\ received' = received /\ Len(data[target]) < Capacity
    BY <2>1, <2>2, Writes
  <2> HIDE DEF w, msg
  <2>5. /\ data' \in [Id -> Seq(Message)] /\ received' \in [Id -> Seq(Message)]
        /\ \A t \in Id : Len(data'[t]) <= Capacity
        /\ SentTo' = [SentTo EXCEPT ![target] = Append(@, msg)]
    BY <1>1, <2>1, <2>3, <2>4, BuffersWritten
  <2>6. Delivery([SentTo EXCEPT ![target] = Append(@, <<w, Sent[w] + 1>>)], [Sent EXCEPT ![w] = @ + 1])
    BY <1>1, <2>2, SendDelivers, PipeAssumption
  <2>7. Delivery(SentTo', Sent')
    BY <2>2, <2>6, <2>5 DEF msg
  <2> QED BY <2>7, <2>5 DEF DataInv
<1>3. CASE ~\E c \in Child, target \in Id : Write(c, target)
  <2>1. Sent' = Sent
    BY <1>3, SentOnlyByWrite
  <2>2. CASE \E c \in Child : Read(c)
    <3>1. /\ data' \in [Id -> Seq(Message)] /\ received' \in [Id -> Seq(Message)]
          /\ \A t \in Id : Len(data'[t]) <= Capacity
          /\ SentTo' = SentTo
      BY <1>1, <2>2, Reads, BuffersRead
    <3>2. Delivery(SentTo', Sent')
      BY <1>1, <2>1, <3>1
    <3> QED BY <3>1, <3>2 DEF DataInv
  <2>3. CASE ~\E c \in Child : Read(c)
    <3>1. UNCHANGED <<data, received>>
      BY <1>3, <2>3 DEF Next, mainStep, child, Over, vars, childVars, Fork, ForkFails, MainCloses,
         WaitChild, ReadResult, PrintSignature, CloseUnused, ReadEnd, WriteResult, ReaderExit,
         LeaveLoop, CloseInputs
    <3>2. SentTo' = SentTo
      BY <3>1 DEF SentTo
    <3>3. Delivery(SentTo', Sent')
      BY <1>1, <2>1, <3>2
    <3> QED BY <1>1, <3>1, <3>3 DEF DataInv
  <2> QED BY <2>2, <2>3
<1> QED BY <1>2, <1>3

\* The types, with the buffers of DataStep.
LEMMA TypeStep == PipeInv /\ [Next]_vars => TypeOK'
<1> SUFFICES ASSUME PipeInv, [Next]_vars
             PROVE  TypeOK'
  OBVIOUS
<1> USE PipeAssumption
<1> DEFINE Types == /\ open \in [Proc -> SUBSET Fd] /\ result \in [Id -> 0 .. 1]
      /\ pc \in [Child -> {"unborn", "unused", "loop", "return", "close", "killed", "exit"}]
      /\ i \in [Child -> 0 .. NumProcs + MaxLoop]
      /\ mainPc \in {"fork", "close", "wait", "read", "done", "failed", "noOutput"}
      /\ mainI \in 1 .. 2 * NumProcs + 1
<1> DEFINE Data == \A t \in Id : data'[t] \in Seq(Id \X (1 .. MaxLoop)) /\ Len(data'[t]) <= Capacity
<1>a. Data
  BY DataStep DEF DataInv, Message
<1> HIDE DEF Data
<1> SUFFICES Types'
  BY <1>a DEF TypeOK, Data
<1>b. /\ open \in [Proc -> SUBSET Fd] /\ result \in [Id -> 0 .. 1]
      /\ pc \in [Child -> {"unborn", "unused", "loop", "return", "close", "killed", "exit"}]
      /\ i \in [Child -> 0 .. NumProcs + MaxLoop]
      /\ mainPc \in {"fork", "close", "wait", "read", "done", "failed", "noOutput"}
      /\ mainI \in 1 .. 2 * NumProcs + 1
  BY DEF PipeInv, TypeOK
<1>c. MainInv /\ ChildInv /\ ResultInv
  BY DEF PipeInv
<1>1. CASE Fork
  <2>1. mainPc = "fork" /\ mainI \in 1 .. 2 * NumProcs /\ mainI \in Child /\ main \in Proc
    BY <1>1, <1>b, <1>c DEF Fork, MainInv, Child, Proc
  <2>2. mainI' \in 1 .. 2 * NumProcs + 1 /\ mainPc' \in {"fork", "close"}
    BY <1>1, <2>1 DEF Fork
  <2>3. open' \in [Proc -> SUBSET Fd]
    BY <1>1, <1>b, <2>1 DEF Fork
  <2>4. pc' \in [Child -> {"unborn", "unused", "loop", "return", "close", "killed", "exit"}]
    BY <1>1, <1>b, <2>1 DEF Fork, Goto
  <2> QED BY <1>1, <1>b, <2>2, <2>3, <2>4 DEF Fork
<1>2. CASE ForkFails
  BY <1>2, <1>b, <1>c, Ids DEF ForkFails, MainInv, ChildInv, ReaderInv, WriterInv, Close, Goto, childVars, Proc
<1>3. CASE MainCloses
  BY <1>3, <1>b, <1>c, Ids DEF MainCloses, MainInv, ChildInv, ReaderInv, WriterInv, Close, Goto, childVars, Proc
<1>4. CASE WaitChild
  BY <1>4, <1>b, <1>c, Ids DEF WaitChild, MainInv, ChildInv, ReaderInv, WriterInv, Close, Goto, childVars, Proc
<1>5. CASE ReadResult
  BY <1>5, <1>b, <1>c, Ids DEF ReadResult, MainInv, ChildInv, ReaderInv, WriterInv, Close, Goto, childVars, Proc
<1>6. CASE PrintSignature
  BY <1>6, <1>b, <1>c, Ids DEF PrintSignature, MainInv, ChildInv, ReaderInv, WriterInv, Close, Goto, childVars, Proc
<1>7. ASSUME NEW c \in Child, CloseUnused(c)
      PROVE  Types'
  BY <1>7, <1>b, <1>c, Ids DEF CloseUnused, MainInv, ChildInv, ReaderInv, WriterInv, Close, Goto, childVars, Proc
<1>8. ASSUME NEW c \in Child, Read(c)
      PROVE  Types'
  BY <1>8, <1>b, Ids, Reads
<1>9. ASSUME NEW c \in Child, ReadEnd(c)
      PROVE  Types'
  BY <1>9, <1>b, <1>c, Ids DEF ReadEnd, MainInv, ChildInv, ReaderInv, WriterInv, Close, Goto, childVars, Proc
<1>10. ASSUME NEW c \in Child, WriteResult(c)
      PROVE  Types'
  BY <1>10, <1>b, <1>c, Ids DEF WriteResult, ResultInv, Goto
<1>11. ASSUME NEW c \in Child, ReaderExit(c)
      PROVE  Types'
  BY <1>11, <1>b, <1>c, Ids DEF ReaderExit, MainInv, ChildInv, ReaderInv, WriterInv, Close, Goto, childVars, Proc
<1>12. ASSUME NEW c \in Child, LeaveLoop(c)
      PROVE  Types'
  BY <1>12, <1>b, <1>c, Ids DEF LeaveLoop, MainInv, ChildInv, ReaderInv, WriterInv, Close, Goto, childVars, Proc
<1>13. ASSUME NEW c \in Child, CloseInputs(c)
      PROVE  Types'
  BY <1>13, <1>b, <1>c, Ids DEF CloseInputs, MainInv, ChildInv, ReaderInv, WriterInv, Close, Goto, childVars, Proc
<1>14. ASSUME NEW c \in Child, NEW target \in Id, Write(c, target)
      PROVE  Types'
  <2>1. i[c] \in 0 .. MaxLoop /\ i[c] < MaxLoop /\ i' = [i EXCEPT ![c] = @ + 1]
    BY <1>14, Writes
  <2>2. i' \in [Child -> 0 .. NumProcs + MaxLoop]
    BY <1>b, <2>1
  <2>3. UNCHANGED <<open, pc, result, mainPc, mainI>>
    BY <1>14, Writes
  <2> QED BY <1>b, <2>2, <2>3
<1>15. CASE UNCHANGED vars
  BY <1>15, <1>b DEF vars, childVars
<1> QED
  BY <1>1, <1>2, <1>3, <1>4, <1>5, <1>6, <1>7, <1>8,
     <1>9, <1>10, <1>11, <1>12, <1>13, <1>14, <1>15 DEF Next, mainStep, child, Over
-----------------------------------------------------------------------------
LEMMA PipeStep == PipeInv /\ [Next]_vars => PipeInv'
BY TypeStep, MainStep, ChildStep, ResultStep, FinishStep, DataStep DEF PipeInv

\* The inductive invariant of racey-forkpipe.c: who has which descriptors open in
\* which phase, and that what was sent is what was received and what is in the pipes.
THEOREM PipeInvariant == Spec => []PipeInv
<1>1. Init => PipeInv
  BY PipeInit
<1>2. PipeInv /\ [Next]_vars => PipeInv'
  BY PipeStep
<1> QED BY <1>1, <1>2, PTL DEF Spec

\* Every variable of racey-forkpipe.c keeps its type; a pipe never holds more
\* than its capacity.
THEOREM ForkPipeTypeCorrect == Spec => []TypeOK
<1>1. PipeInv => TypeOK
  BY DEF PipeInv
<1> QED BY <1>1, PipeInvariant, PTL

\* No writer is killed by a pipe without a reader: as long as it writes it has
\* every input's reading end open itself.
THEOREM WritersSurvive == Spec => []NobodyIsKilled
<1>1. PipeInv => NobodyIsKilled
  BY Ids DEF PipeInv, ChildInv, WriterInv, ReaderInv, NobodyIsKilled
<1> QED BY <1>1, PipeInvariant, PTL

\* main() finds every result it reads: it has waited for all children, and each
\* reader has written its own before it exits.
THEOREM ResultsArrive == Spec => []ResultsAreThere
<1>1. PipeInv => ResultsAreThere
  BY DEF PipeInv, MainInv, ResultsAreThere
<1> QED BY <1>1, PipeInvariant, PTL

\* When main() prints, all readers have finished and all writers have sent all.
LEMMA AllOver ==
  ASSUME PipeInv, mainPc \in {"read", "done"}
  PROVE  /\ \A w \in Id : Sent[w] = MaxLoop
         /\ \A r \in Id : data[r] = <<>> /\ pc[ReaderOf(r)] = "exit"
<1>1. \A c \in Child : pc[c] = "exit"
  BY DEF PipeInv, MainInv
<1> QED BY <1>1, Ids DEF PipeInv, FinishInv, Sent

\* The signature of racey-forkpipe.c covers each message once, and the messages
\* of a writer in the order it sent them.
THEOREM ForkPipeDelivers == Spec => []EverythingIsDelivered
<1>1. ASSUME PipeInv, mainPc = "done"
      PROVE  /\ \A w \in Id, k \in 1 .. MaxLoop : Cardinality(Places(received, w, k)) = 1
             /\ InOrder(received)
  <2>1. /\ \A w \in Id : Sent[w] = MaxLoop
        /\ \A r \in Id : data[r] = <<>>
    BY <1>1, AllOver
  <2> QED BY <1>1, <2>1, AllReceived DEF PipeInv, DataInv
<1>2. ASSUME NEW w, NEW k
      PROVE  Exchange!Cardinality(Exchange!Arrivals(w, k)) = Cardinality(Places(received, w, k))
  BY DEF Exchange!Arrivals, Exchange!Id, Places, Id, Exchange!Cardinality, Cardinality
<1>3. PipeInv => EverythingIsDelivered
  BY <1>1, <1>2 DEF EverythingIsDelivered, Exchange!Delivered, Exchange!Id, InOrder, Id
<1> QED BY <1>3, PipeInvariant, PTL
-----------------------------------------------------------------------------
\* The state of the exchange that a state of racey-forkpipe.c stands for.
Stopped == {w \in Id : pc[WriterOf(w)] \in {"close", "exit"} \/ NeverBorn(WriterOf(w))}
AtTheEnd == {r \in Id : pc[ReaderOf(r)] \in {"return", "close", "exit"}}
Printed == mainPc = "done"

\* A write is a Send, a read a Receive.
LEMMA WriteSends ==
  ASSUME PipeInv, NEW c \in Child, NEW target \in Id, Write(c, target)
  PROVE  Exchange!Next
<1> DEFINE w == ThreadId(c)
<1>1. /\ w \in Id /\ pc[WriterOf(w)] = "loop" /\ Sent[w] < MaxLoop /\ Sent[w] = i[c]
      /\ Sent' = [Sent EXCEPT ![w] = @ + 1]
  BY SentByWrite
<1>2. /\ data' = [data EXCEPT ![target] = Append(@, <<w, Sent[w] + 1>>)]
      /\ UNCHANGED <<pc, received, mainPc>>
  BY <1>1, Writes
<1>3. w \notin Stopped
  BY <1>1 DEF Stopped, NeverBorn
<1>4. UNCHANGED <<received, Stopped, AtTheEnd, Printed>>
  BY <1>2 DEF Stopped, AtTheEnd, Printed, NeverBorn
<1>5. Exchange!Send(w, target)
  <2> HIDE DEF w
  <2> QED BY <1>1, <1>2, <1>3, <1>4
          DEF Exchange!Send, Exchange!Id, Sent, Stopped, AtTheEnd, Printed, Id
<1> QED BY <1>1, <1>5 DEF Exchange!Next, Exchange!Id, Id

LEMMA ReadReceives ==
  ASSUME PipeInv, NEW c \in Child, Read(c), Sent' = Sent
  PROVE  Exchange!Next
<1> DEFINE r == ThreadId(c)
<1>1. PICK n \in 1 .. 2 :
        /\ r \in Id /\ n <= Len(data[r])
        /\ received' = [received EXCEPT ![r] = @ \o SubSeq(data[r], 1, n)]
        /\ data' = [data EXCEPT ![r] = SubSeq(@, n + 1, Len(@))]
        /\ UNCHANGED <<pc, mainPc>>
  BY Reads
<1>2. UNCHANGED <<Sent, Stopped, AtTheEnd, Printed>>
  BY <1>1 DEF Stopped, AtTheEnd, Printed, NeverBorn
<1>3. Exchange!Receive(r)
  <2> HIDE DEF r
  <2> QED BY <1>1, <1>2
          DEF Exchange!Receive, Exchange!Id, Sent, Stopped, AtTheEnd, Printed, Id
<1> QED BY <1>1, <1>3 DEF Exchange!Next, Exchange!Id, Id

\* When main()'s fork fails, the writers it has not created stop; a writer that
\* leaves its loop stops.
LEMMA StopsAll ==
  ASSUME NEW W \in SUBSET Id, \A w \in W : Sent[w] \in {0, MaxLoop},
         Stopped' = Stopped \cup W,
         UNCHANGED <<data, received, Sent, AtTheEnd, Printed>>
  PROVE  Exchange!Next
<1>1. Exchange!Stop(W)
  BY DEF Exchange!Stop, Exchange!Id, Sent, Stopped, AtTheEnd, Printed, Id
<1> QED BY <1>1 DEF Exchange!Next, Exchange!Id, Id

LEMMA ForkFailsStops ==
  ASSUME PipeInv, ForkFails, Sent' = Sent
  PROVE  Exchange!Next
<1> DEFINE W == {w \in Id : pc[WriterOf(w)] = "unborn"}
<1>1. mainPc = "fork" /\ mainPc' = "failed" /\ UNCHANGED <<data, received, pc>>
  BY DEF ForkFails, childVars
<1>2. UNCHANGED <<AtTheEnd, Printed>>
  BY <1>1 DEF AtTheEnd, Printed
<1>3. Stopped' = Stopped \cup W
  BY <1>1 DEF Stopped, NeverBorn
<1>4. \A w \in W : Sent[w] \in {0, MaxLoop}
  BY DEF Sent
<1> HIDE DEF W
<1>5. W \in SUBSET Id
  BY DEF W
<1> QED BY <1>1, <1>2, <1>3, <1>4, <1>5, StopsAll

LEMMA LeaveLoopStops ==
  ASSUME PipeInv, NEW c \in Child, LeaveLoop(c), Sent' = Sent
  PROVE  Exchange!Next
<1> DEFINE u == ThreadId(c)
<1>1. c \in Writer /\ pc[c] = "loop" /\ i[c] = MaxLoop /\ u \in Id /\ WriterOf(u) = c
  BY Ids DEF LeaveLoop
<1>2. \A d \in Child : pc'[d] = IF d = c THEN "close" ELSE pc[d]
  BY DEF LeaveLoop, Goto, PipeInv, TypeOK
<1>3. UNCHANGED <<data, received, mainPc>>
  BY DEF LeaveLoop
<1>4. UNCHANGED <<AtTheEnd, Printed>>
  BY <1>1, <1>2, <1>3, Ids DEF AtTheEnd, Printed
<1>5. Stopped' = Stopped \cup {u}
  <2>1. \A w \in Id : WriterOf(w) \in Child /\ (WriterOf(w) = c <=> w = u)
    BY <1>1, Ids
  <2> HIDE DEF u
  <2> QED BY <1>1, <1>2, <1>3, <2>1 DEF Stopped, NeverBorn
<1>6. Sent[u] = MaxLoop
  BY <1>1, SentType
<1> DEFINE W == {u}
<1>7. W \in SUBSET Id /\ Stopped' = Stopped \cup W /\ \A w \in W : Sent[w] \in {0, MaxLoop}
  BY <1>1, <1>5, <1>6
<1> HIDE DEF W
<1> QED BY <1>3, <1>4, <1>7, StopsAll

\* The end of an input is a Finish.
LEMMA ReadEndFinishes ==
  ASSUME PipeInv, NEW c \in Child, ReadEnd(c), Sent' = Sent
  PROVE  Exchange!Next
<1> DEFINE r == ThreadId(c)
<1>1. c \in Reader /\ pc[c] = "loop" /\ r \in Id /\ ReaderOf(r) = c /\ data[r] = <<>>
  BY Ids DEF ReadEnd
<1>2. \A d \in Child : pc'[d] = IF d = c THEN "return" ELSE pc[d]
  BY DEF ReadEnd, Goto, PipeInv, TypeOK
<1>3. UNCHANGED <<data, received, mainPc>>
  BY DEF ReadEnd
<1>4. UNCHANGED <<Stopped, Printed>>
  BY <1>1, <1>2, <1>3, Ids DEF Stopped, NeverBorn, Printed
<1>5. AtTheEnd' = AtTheEnd \cup {r}
  <2>1. \A t \in Id : ReaderOf(t) \in Child /\ (ReaderOf(t) = c <=> t = r)
    BY <1>1, Ids
  <2> HIDE DEF r
  <2> QED BY <1>1, <1>2, <2>1 DEF AtTheEnd
<1>6. Stopped = Id
  <2>1. \A w \in Id : pc[WriterOf(w)] \in {"close", "exit"} \/ NeverBorn(WriterOf(w))
    BY <1>1, EndOfInput DEF ReadEnd
  <2> QED BY <2>1 DEF Stopped
<1>7. Exchange!Finish(r)
  <2> HIDE DEF r
  <2> QED BY <1>1, <1>3, <1>4, <1>5, <1>6
          DEF Exchange!Finish, Exchange!Id, Sent, Stopped, AtTheEnd, Printed, Id
<1> QED BY <1>1, <1>7 DEF Exchange!Next, Exchange!Id, Id

\* Printing the signature is the Fold.
LEMMA PrintFolds ==
  ASSUME PipeInv, PrintSignature, Sent' = Sent
  PROVE  Exchange!Next
<1>1. mainPc = "read" /\ mainPc' = "done" /\ UNCHANGED <<data, received, pc>>
  BY DEF PrintSignature, childVars
<1>2. UNCHANGED <<Stopped, AtTheEnd>> /\ Printed'
  BY <1>1 DEF Stopped, NeverBorn, AtTheEnd, Printed
<1>3. AtTheEnd = Id /\ \A w \in Id : Sent[w] = MaxLoop
  BY <1>1, AllOver DEF AtTheEnd
<1>4. Exchange!Fold
  BY <1>1, <1>2, <1>3 DEF Exchange!Fold, Exchange!Id, Sent, Stopped, AtTheEnd, Printed, Id
<1> QED BY <1>4 DEF Exchange!Next

\* Opening and closing pipes, creating children and waiting for them, and the
\* results are below the exchange.
LEMMA OtherStepsAreUnseen ==
  ASSUME PipeInv,
         \/ Fork \/ MainCloses \/ WaitChild \/ ReadResult
         \/ \E c \in Child : CloseUnused(c) \/ WriteResult(c) \/ ReaderExit(c) \/ CloseInputs(c)
         \/ UNCHANGED vars
  PROVE  UNCHANGED <<data, received, Stopped, AtTheEnd, Printed>>
<1>1. UNCHANGED <<data, received>>
  BY DEF Fork, MainCloses, WaitChild, ReadResult, CloseUnused, WriteResult, ReaderExit,
     CloseInputs, vars, childVars
<1>2. /\ mainPc' = "failed" <=> mainPc = "failed"
      /\ Printed' = Printed
  BY DEF Fork, MainCloses, WaitChild, ReadResult, CloseUnused, WriteResult, ReaderExit,
     CloseInputs, vars, childVars, Printed
<1>3. ASSUME NEW d \in Child
      PROVE  \/ pc'[d] = pc[d]
             \/ pc[d] = "unborn" /\ pc'[d] = "unused" /\ mainPc = "fork"
             \/ pc[d] = "unused" /\ pc'[d] = "loop"
             \/ d \in Reader /\ pc[d] \in {"return", "close"} /\ pc'[d] \in {"close", "exit"}
             \/ d \in Writer /\ pc[d] = "close" /\ pc'[d] = "exit"
  <2>1. pc \in [Child -> {"unborn", "unused", "loop", "return", "close", "killed", "exit"}]
    BY DEF PipeInv, TypeOK
  <2>2. CASE Fork
    <3>1. mainPc = "fork" /\ pc[mainI] = "unborn" /\ pc' = [pc EXCEPT ![mainI] = "unused"]
      BY <2>2, PipeAssumption DEF Fork, Goto, PipeInv, MainInv, TypeOK, Child
    <3> QED BY <2>1, <3>1
  <2>3. CASE MainCloses \/ WaitChild \/ ReadResult \/ UNCHANGED vars
    BY <2>3 DEF MainCloses, WaitChild, ReadResult, vars, childVars
  <2>4. ASSUME NEW c \in Child, CloseUnused(c)
        PROVE  pc'[d] = pc[d] \/ (pc[d] = "unused" /\ pc'[d] = "loop")
    BY <2>1, <2>4 DEF CloseUnused, Goto
  <2>5. ASSUME NEW c \in Child, WriteResult(c) \/ ReaderExit(c)
        PROVE  \/ pc'[d] = pc[d]
               \/ d \in Reader /\ pc[d] \in {"return", "close"} /\ pc'[d] \in {"close", "exit"}
    BY <2>1, <2>5 DEF WriteResult, ReaderExit, Goto
  <2>6. ASSUME NEW c \in Child, CloseInputs(c)
        PROVE  \/ pc'[d] = pc[d]
               \/ d \in Writer /\ pc[d] = "close" /\ pc'[d] = "exit"
    BY <2>1, <2>6 DEF CloseInputs, Goto
  <2> QED BY <2>2, <2>3, <2>4, <2>5, <2>6
<1>4. Stopped' = Stopped
  BY <1>2, <1>3, Ids DEF Stopped, NeverBorn
<1>5. AtTheEnd' = AtTheEnd
  BY <1>3, Ids DEF AtTheEnd
<1> QED BY <1>1, <1>2, <1>4, <1>5

LEMMA ExchangeStep == PipeInv /\ [Next]_vars => [Exchange!Next]_(Exchange!vars)
<1> SUFFICES ASSUME PipeInv, [Next]_vars
             PROVE  Exchange!Next \/ UNCHANGED Exchange!vars
  OBVIOUS
<1>1. CASE \E c \in Child, target \in Id : Write(c, target)
  BY <1>1, WriteSends
<1>2. CASE ~\E c \in Child, target \in Id : Write(c, target)
  <2>1. Sent' = Sent
    BY <1>2, SentOnlyByWrite
  <2>2. CASE ForkFails \/ PrintSignature
    BY <2>1, <2>2, ForkFailsStops, PrintFolds
  <2>3. CASE \E c \in Child : Read(c) \/ ReadEnd(c) \/ LeaveLoop(c)
    BY <2>1, <2>3, ReadReceives, ReadEndFinishes, LeaveLoopStops
  <2>4. CASE \/ Fork \/ MainCloses \/ WaitChild \/ ReadResult
             \/ \E c \in Child : CloseUnused(c) \/ WriteResult(c) \/ ReaderExit(c) \/ CloseInputs(c)
             \/ UNCHANGED vars
    <3>1. UNCHANGED <<data, received, Sent, Stopped, AtTheEnd, Printed>>
      BY <2>1, <2>4, OtherStepsAreUnseen
    <3>2. UNCHANGED Exchange!vars
      BY <3>1 DEF Exchange!vars, Exchange!Id, Sent, Stopped, AtTheEnd, Printed, Id
    <3> QED BY <3>2
  <2> QED BY <1>2, <2>2, <2>3, <2>4 DEF Next, mainStep, child, Over
<1> QED BY <1>1, <1>2

LEMMA ExchangeInit == Init => Exchange!Init
<1> SUFFICES ASSUME Init
             PROVE  Exchange!Init
  OBVIOUS
<1>1. Sent = [w \in Id |-> 0] /\ Stopped = {} /\ AtTheEnd = {} /\ Printed = FALSE
  BY Ids DEF Init, Sent, Stopped, AtTheEnd, Printed, NeverBorn
<1>2. data = [r \in Id |-> <<>>] /\ received = [r \in Id |-> <<>>]
  BY DEF Init
<1> QED BY <1>1, <1>2 DEF Exchange!Init, Exchange!Id, Sent, Stopped, AtTheEnd, Printed, Id

\* racey-forkpipe.c implements the exchange: its processes close and inherit
\* descriptors in such a way that an input ends exactly when no writer is left
\* and everything sent has been read.
THEOREM ForkPipeExchanges == Spec => ImplementsExchange
<1>1. Init => Exchange!Init
  BY ExchangeInit
<1>2. PipeInv /\ [Next]_vars => [Exchange!Next]_(Exchange!vars)
  BY ExchangeStep
<1> QED BY <1>1, <1>2, PipeInvariant, PTL DEF Spec, ImplementsExchange, Exchange!Spec
-----------------------------------------------------------------------------
\* racey-clonepipe.c.  Where its main() stands, whom it has created and joined,
\* and which inputs it has closed.
Closing == mainPc \in {"close", "joinReaders", "read", "done"}

CloneMainInv ==
  /\ mainPc = "createReader" =>
       \A t \in Id : (reader[t] = "unborn" <=> t >= mainI) /\ (writer[t] = "unborn" <=> t >= mainI)
  /\ mainPc = "createWriter" =>
       \A t \in Id : (reader[t] = "unborn" <=> t > mainI) /\ (writer[t] = "unborn" <=> t >= mainI)
  /\ mainPc \notin {"createReader", "createWriter"} =>
       \A t \in Id : reader[t] # "unborn" /\ writer[t] # "unborn"
  /\ mainPc = "joinWriters" => \A t \in Id : t < mainI => writer[t] = "exit"
  /\ Closing => \A t \in Id : writer[t] = "exit"
  /\ ~Closing => writable = Id
  /\ mainPc = "close" => \A t \in Id : t \in writable <=> t >= mainI
  /\ mainPc \in {"joinReaders", "read", "done"} => writable = {}
  /\ mainPc = "joinReaders" => \A t \in Id : t < mainI => reader[t] = "exit"
  /\ mainPc \in {"read", "done"} => \A t \in Id : reader[t] = "exit"

CloneWriterInv ==
  \A t \in Id : (writer[t] = "unborn" => sent[t] = 0) /\ (writer[t] = "exit" => sent[t] = MaxLoop)

\* No reader finishes before its input is closed, and empty.
CloneReaderInv ==
  \A t \in Id : reader[t] \in {"return", "exit"} => Closing /\ t \notin writable /\ data[t] = <<>>

CloneResultInv ==
  \A t \in Id :
    result[t] = IF reader[t] = "exit" /\ ~(mainPc \in {"read", "done"} /\ t < mainI) THEN 1 ELSE 0

CloneDataInv ==
  /\ data \in [Id -> Seq(Message)] /\ received \in [Id -> Seq(Message)]
  /\ Delivery(SentTo, sent)

CloneInv ==
  /\ CloneTypeOK /\ CloneMainInv /\ CloneWriterInv /\ CloneReaderInv /\ CloneResultInv
  /\ CloneDataInv

LEMMA CloneInitInv == CloneInit => CloneInv
<1> SUFFICES ASSUME CloneInit
             PROVE  CloneInv
  OBVIOUS
<1> USE PipeAssumption DEF Id
<1>1. \A t \in Id : data[t] = <<>> /\ <<>> \in Seq(Message) /\ Len(<<>>) = 0
  BY EmptySeq DEF CloneInit
<1>2. CloneTypeOK
  BY <1>1 DEF CloneInit, CloneTypeOK, Message
<1>3. CloneMainInv
  BY DEF CloneInit, CloneMainInv, Closing
<1>4. CloneWriterInv /\ CloneReaderInv /\ CloneResultInv
  BY DEF CloneInit, CloneWriterInv, CloneReaderInv, CloneResultInv
<1>5. CloneDataInv
  <2>1. data \in [Id -> Seq(Message)] /\ received \in [Id -> Seq(Message)]
    BY EmptySeq DEF CloneInit
  <2>2. SentTo = [r \in Id |-> <<>>]
    <3>1. <<>> \o <<>> = <<>>
      BY EmptySeq, ConcatEmptySeq
    <3> QED BY <3>1 DEF CloneInit, SentTo
  <2>3. SentTo \in [Id -> Seq(Message)] /\ \A r \in Id : DOMAIN SentTo[r] = {}
    <3>1. <<>> \in Seq(Message) /\ DOMAIN <<>> = {}
      BY EmptySeq
    <3> QED BY <2>2, <3>1
  <2>4. sent = [w \in Id |-> 0]
    BY DEF CloneInit
  <2> QED BY <2>1, <2>3, <2>4 DEF CloneDataInv, Delivery, AllSent, NoneSentTwice, InOrder, OnlySent
<1> QED BY <1>2, <1>3, <1>4, <1>5 DEF CloneInv

\* main() closes the inputs when all writers have been joined.
LEMMA CloneMainStep == CloneInv /\ [CloneNext]_cloneVars => CloneMainInv'
<1> SUFFICES ASSUME CloneInv, [CloneNext]_cloneVars
             PROVE  CloneMainInv'
  OBVIOUS
<1> USE PipeAssumption DEF Id
<1>1. CASE CreateReader
  BY <1>1 DEF CreateReader, CloneInv, CloneTypeOK, NextId, threadVars, CloneMainInv, Closing
<1>2. CASE CreateWriter
  BY <1>2 DEF CreateWriter, CloneInv, CloneTypeOK, NextId, threadVars, CloneMainInv, Closing
<1>3. CASE JoinWriter
  BY <1>3 DEF JoinWriter, CloneInv, CloneTypeOK, NextId, threadVars, CloneMainInv, Closing
<1>4. CASE CloseInput
  BY <1>4 DEF CloseInput, CloneInv, CloneTypeOK, NextId, threadVars, CloneMainInv, Closing
<1>5. CASE JoinReader
  BY <1>5 DEF JoinReader, CloneInv, CloneTypeOK, NextId, threadVars, CloneMainInv, Closing
<1>6. CASE MainReadsResult
  BY <1>6 DEF MainReadsResult, CloneInv, CloneTypeOK, NextId, threadVars, CloneMainInv, Closing
<1>7. ASSUME NEW t \in Id, ThreadRead(t)
      PROVE  CloneMainInv'
  BY <1>7 DEF ThreadRead, CloneInv, CloneTypeOK, NextId, threadVars, CloneMainInv, Closing
<1>8. ASSUME NEW t \in Id, ThreadReadEnd(t)
      PROVE  CloneMainInv'
  BY <1>8 DEF ThreadReadEnd, CloneInv, CloneTypeOK, NextId, threadVars, CloneMainInv, Closing
<1>9. ASSUME NEW t \in Id, ThreadWriteResult(t)
      PROVE  CloneMainInv'
  BY <1>9 DEF ThreadWriteResult, CloneInv, CloneTypeOK, NextId, threadVars, CloneMainInv, Closing
<1>10. ASSUME NEW t \in Id, WriterReturn(t)
      PROVE  CloneMainInv'
  BY <1>10 DEF WriterReturn, CloneInv, CloneTypeOK, NextId, threadVars, CloneMainInv, Closing
<1>11. ASSUME NEW t \in Id, NEW target \in Id, ThreadWrite(t, target)
      PROVE  CloneMainInv'
  BY <1>11 DEF ThreadWrite, CloneInv, CloneTypeOK, NextId, threadVars, CloneMainInv, Closing
<1>12. CASE UNCHANGED cloneVars
  BY <1>12 DEF cloneVars, threadVars, CloneInv, CloneTypeOK, NextId, threadVars, CloneMainInv, Closing
<1> QED
  BY <1>1, <1>2, <1>3, <1>4, <1>5, <1>6, <1>7,
     <1>8, <1>9, <1>10, <1>11, <1>12
  DEF CloneNext, CloneMain, ReaderThread, WriterThread

\* A writer ends when it has sent everything.
LEMMA CloneWriterStep == CloneInv /\ [CloneNext]_cloneVars => CloneWriterInv'
<1> SUFFICES ASSUME CloneInv, [CloneNext]_cloneVars
             PROVE  CloneWriterInv'
  OBVIOUS
<1> USE PipeAssumption DEF Id
<1>1. CASE CreateReader
  BY <1>1 DEF CreateReader, CloneInv, CloneTypeOK, NextId, threadVars, CloneMainInv, Closing, CloneWriterInv
<1>2. CASE CreateWriter
  BY <1>2 DEF CreateWriter, CloneInv, CloneTypeOK, NextId, threadVars, CloneMainInv, Closing, CloneWriterInv
<1>3. CASE JoinWriter
  BY <1>3 DEF JoinWriter, CloneInv, CloneTypeOK, NextId, threadVars, CloneMainInv, Closing, CloneWriterInv
<1>4. CASE CloseInput
  BY <1>4 DEF CloseInput, CloneInv, CloneTypeOK, NextId, threadVars, CloneMainInv, Closing, CloneWriterInv
<1>5. CASE JoinReader
  BY <1>5 DEF JoinReader, CloneInv, CloneTypeOK, NextId, threadVars, CloneMainInv, Closing, CloneWriterInv
<1>6. CASE MainReadsResult
  BY <1>6 DEF MainReadsResult, CloneInv, CloneTypeOK, NextId, threadVars, CloneMainInv, Closing, CloneWriterInv
<1>7. ASSUME NEW t \in Id, ThreadRead(t)
      PROVE  CloneWriterInv'
  BY <1>7 DEF ThreadRead, CloneInv, CloneTypeOK, NextId, threadVars, CloneMainInv, Closing, CloneWriterInv
<1>8. ASSUME NEW t \in Id, ThreadReadEnd(t)
      PROVE  CloneWriterInv'
  BY <1>8 DEF ThreadReadEnd, CloneInv, CloneTypeOK, NextId, threadVars, CloneMainInv, Closing, CloneWriterInv
<1>9. ASSUME NEW t \in Id, ThreadWriteResult(t)
      PROVE  CloneWriterInv'
  BY <1>9 DEF ThreadWriteResult, CloneInv, CloneTypeOK, NextId, threadVars, CloneMainInv, Closing, CloneWriterInv
<1>10. ASSUME NEW t \in Id, WriterReturn(t)
      PROVE  CloneWriterInv'
  BY <1>10 DEF WriterReturn, CloneInv, CloneTypeOK, NextId, threadVars, CloneMainInv, Closing, CloneWriterInv
<1>11. ASSUME NEW t \in Id, NEW target \in Id, ThreadWrite(t, target)
      PROVE  CloneWriterInv'
  BY <1>11 DEF ThreadWrite, CloneInv, CloneTypeOK, NextId, threadVars, CloneMainInv, Closing, CloneWriterInv
<1>12. CASE UNCHANGED cloneVars
  BY <1>12 DEF cloneVars, threadVars, CloneInv, CloneTypeOK, NextId, threadVars, CloneMainInv, Closing, CloneWriterInv
<1> QED
  BY <1>1, <1>2, <1>3, <1>4, <1>5, <1>6, <1>7,
     <1>8, <1>9, <1>10, <1>11, <1>12
  DEF CloneNext, CloneMain, ReaderThread, WriterThread

\* A reader ends when its input is closed and empty.
LEMMA CloneReaderStep == CloneInv /\ [CloneNext]_cloneVars => CloneReaderInv'
<1> SUFFICES ASSUME CloneInv, [CloneNext]_cloneVars
             PROVE  CloneReaderInv'
  OBVIOUS
<1> USE PipeAssumption DEF Id
<1>1. CASE CreateReader
  BY <1>1 DEF CreateReader, CloneInv, CloneTypeOK, NextId, threadVars, CloneMainInv, Closing, CloneReaderInv
<1>2. CASE CreateWriter
  BY <1>2 DEF CreateWriter, CloneInv, CloneTypeOK, NextId, threadVars, CloneMainInv, Closing, CloneReaderInv
<1>3. CASE JoinWriter
  BY <1>3 DEF JoinWriter, CloneInv, CloneTypeOK, NextId, threadVars, CloneMainInv, Closing, CloneReaderInv
<1>4. CASE CloseInput
  BY <1>4 DEF CloseInput, CloneInv, CloneTypeOK, NextId, threadVars, CloneMainInv, Closing, CloneReaderInv
<1>5. CASE JoinReader
  BY <1>5 DEF JoinReader, CloneInv, CloneTypeOK, NextId, threadVars, CloneMainInv, Closing, CloneReaderInv
<1>6. CASE MainReadsResult
  BY <1>6 DEF MainReadsResult, CloneInv, CloneTypeOK, NextId, threadVars, CloneMainInv, Closing, CloneReaderInv
<1>7. ASSUME NEW t \in Id, ThreadRead(t)
      PROVE  CloneReaderInv'
  <2>1. \A r \in Id : r # t => data'[r] = data[r]
    BY <1>7 DEF ThreadRead, CloneInv, CloneDataInv
  <2>2. reader[t] = "loop" /\ UNCHANGED <<reader, mainPc, writable>>
    BY <1>7 DEF ThreadRead
  <2> QED BY <2>1, <2>2 DEF CloneInv, CloneReaderInv, Closing
<1>8. ASSUME NEW t \in Id, ThreadReadEnd(t)
      PROVE  CloneReaderInv'
  BY <1>8 DEF ThreadReadEnd, CloneInv, CloneTypeOK, NextId, threadVars, CloneMainInv, Closing, CloneReaderInv
<1>9. ASSUME NEW t \in Id, ThreadWriteResult(t)
      PROVE  CloneReaderInv'
  BY <1>9 DEF ThreadWriteResult, CloneInv, CloneTypeOK, NextId, threadVars, CloneMainInv, Closing, CloneReaderInv
<1>10. ASSUME NEW t \in Id, WriterReturn(t)
      PROVE  CloneReaderInv'
  BY <1>10 DEF WriterReturn, CloneInv, CloneTypeOK, NextId, threadVars, CloneMainInv, Closing, CloneReaderInv
<1>11. ASSUME NEW t \in Id, NEW target \in Id, ThreadWrite(t, target)
      PROVE  CloneReaderInv'
  <2>1. UNCHANGED <<reader, mainPc, writable>> /\ writer[t] = "loop"
    BY <1>11 DEF ThreadWrite
  <2>2. ~Closing
    BY <2>1 DEF CloneInv, CloneMainInv
  <2> QED BY <2>1, <2>2 DEF CloneInv, CloneReaderInv, Closing
<1>12. CASE UNCHANGED cloneVars
  BY <1>12 DEF cloneVars, threadVars, CloneInv, CloneTypeOK, NextId, threadVars, CloneMainInv, Closing, CloneReaderInv
<1> QED
  BY <1>1, <1>2, <1>3, <1>4, <1>5, <1>6, <1>7,
     <1>8, <1>9, <1>10, <1>11, <1>12
  DEF CloneNext, CloneMain, ReaderThread, WriterThread

\* A result stays in its output until main() reads it.
LEMMA CloneResultStep == CloneInv /\ [CloneNext]_cloneVars => CloneResultInv'
<1> SUFFICES ASSUME CloneInv, [CloneNext]_cloneVars
             PROVE  CloneResultInv'
  OBVIOUS
<1> USE PipeAssumption DEF Id
<1>1. CASE CreateReader
  BY <1>1 DEF CreateReader, CloneInv, CloneTypeOK, NextId, threadVars, CloneMainInv, Closing, CloneResultInv
<1>2. CASE CreateWriter
  BY <1>2 DEF CreateWriter, CloneInv, CloneTypeOK, NextId, threadVars, CloneMainInv, Closing, CloneResultInv
<1>3. CASE JoinWriter
  BY <1>3 DEF JoinWriter, CloneInv, CloneTypeOK, NextId, threadVars, CloneMainInv, Closing, CloneResultInv
<1>4. CASE CloseInput
  BY <1>4 DEF CloseInput, CloneInv, CloneTypeOK, NextId, threadVars, CloneMainInv, Closing, CloneResultInv
<1>5. CASE JoinReader
  BY <1>5 DEF JoinReader, CloneInv, CloneTypeOK, NextId, threadVars, CloneMainInv, Closing, CloneResultInv
<1>6. CASE MainReadsResult
  BY <1>6 DEF MainReadsResult, CloneInv, CloneTypeOK, NextId, threadVars, CloneMainInv, Closing, CloneResultInv
<1>7. ASSUME NEW t \in Id, ThreadRead(t)
      PROVE  CloneResultInv'
  BY <1>7 DEF ThreadRead, CloneInv, CloneTypeOK, NextId, threadVars, CloneMainInv, Closing, CloneResultInv
<1>8. ASSUME NEW t \in Id, ThreadReadEnd(t)
      PROVE  CloneResultInv'
  BY <1>8 DEF ThreadReadEnd, CloneInv, CloneTypeOK, NextId, threadVars, CloneMainInv, Closing, CloneResultInv
<1>9. ASSUME NEW t \in Id, ThreadWriteResult(t)
      PROVE  CloneResultInv'
  BY <1>9 DEF ThreadWriteResult, CloneInv, CloneTypeOK, NextId, threadVars, CloneMainInv, Closing, CloneResultInv
<1>10. ASSUME NEW t \in Id, WriterReturn(t)
      PROVE  CloneResultInv'
  BY <1>10 DEF WriterReturn, CloneInv, CloneTypeOK, NextId, threadVars, CloneMainInv, Closing, CloneResultInv
<1>11. ASSUME NEW t \in Id, NEW target \in Id, ThreadWrite(t, target)
      PROVE  CloneResultInv'
  BY <1>11 DEF ThreadWrite, CloneInv, CloneTypeOK, NextId, threadVars, CloneMainInv, Closing, CloneResultInv
<1>12. CASE UNCHANGED cloneVars
  BY <1>12 DEF cloneVars, threadVars, CloneInv, CloneTypeOK, NextId, threadVars, CloneMainInv, Closing, CloneResultInv
<1> QED
  BY <1>1, <1>2, <1>3, <1>4, <1>5, <1>6, <1>7,
     <1>8, <1>9, <1>10, <1>11, <1>12
  DEF CloneNext, CloneMain, ReaderThread, WriterThread

\* What a write does: the pipe is still open, so that nothing is lost.
LEMMA CloneWrites ==
  ASSUME CloneInv, NEW t \in Id, NEW target \in Id, ThreadWrite(t, target)
  PROVE  /\ writer[t] = "loop" /\ sent[t] \in 0 .. MaxLoop /\ sent[t] < MaxLoop
         /\ Len(data[target]) < Capacity
         /\ data' = [data EXCEPT ![target] = Append(@, <<t, sent[t] + 1>>)]
         /\ sent' = [sent EXCEPT ![t] = @ + 1]
         /\ UNCHANGED <<writable, result, reader, writer, received, mainPc, mainI>>
<1>1. writer[t] = "loop" /\ sent[t] < MaxLoop
  BY DEF ThreadWrite
<1>2. target \in writable
  BY <1>1 DEF CloneInv, CloneMainInv
<1>3. sent[t] \in 0 .. MaxLoop
  BY DEF CloneInv, CloneTypeOK, Id
<1> QED BY <1>1, <1>2, <1>3 DEF ThreadWrite

LEMMA CloneReads ==
  ASSUME CloneInv, NEW t \in Id, ThreadRead(t)
  PROVE  \E n \in 1 .. 2 :
           /\ n <= Len(data[t])
           /\ received' = [received EXCEPT ![t] = @ \o SubSeq(data[t], 1, n)]
           /\ data' = [data EXCEPT ![t] = SubSeq(@, n + 1, Len(@))]
           /\ UNCHANGED <<writable, result, reader, writer, sent, mainPc, mainI>>
<1> DEFINE len == Len(data[t])
           n == IF len > 2 THEN 2 ELSE len
<1>1. len \in Nat
  BY LenProperties DEF CloneInv, CloneDataInv
<1>2. n > 0
  BY DEF ThreadRead
<1>3. n \in 1 .. 2 /\ n <= len
  <2> HIDE DEF len
  <2> QED BY <1>1, <1>2
<1>4. /\ received' = [received EXCEPT ![t] = @ \o SubSeq(data[t], 1, n)]
      /\ data' = [data EXCEPT ![t] = SubSeq(@, n + 1, Len(@))]
      /\ UNCHANGED <<writable, result, reader, writer, sent, mainPc, mainI>>
  BY DEF ThreadRead
<1> QED BY <1>3, <1>4

\* Only a write changes what has been sent.
LEMMA CloneSentOnlyByWrite ==
  ASSUME [CloneNext]_cloneVars, \A t \in Id, target \in Id : ~ThreadWrite(t, target)
  PROVE  sent' = sent
BY DEF CloneNext, CloneMain, ReaderThread, WriterThread, cloneVars, threadVars,
   CreateReader, CreateWriter, JoinWriter, CloseInput, JoinReader,
   MainReadsResult, ThreadRead, ThreadReadEnd, ThreadWriteResult, WriterReturn, Id

LEMMA CloneDataStep ==
  CloneInv /\ [CloneNext]_cloneVars =>
    CloneDataInv' /\ \A t \in Id : Len(data'[t]) <= Capacity
<1> SUFFICES ASSUME CloneInv, [CloneNext]_cloneVars
             PROVE  CloneDataInv' /\ \A t \in Id : Len(data'[t]) <= Capacity
  OBVIOUS
<1>1. /\ data \in [Id -> Seq(Message)] /\ received \in [Id -> Seq(Message)]
      /\ Delivery(SentTo, sent) /\ \A t \in Id : Len(data[t]) <= Capacity
  BY DEF CloneInv, CloneDataInv, CloneTypeOK, Id
<1>2. CASE \E t \in Id, target \in Id : ThreadWrite(t, target)
  <2>1. PICK w \in Id, target \in Id : ThreadWrite(w, target)
    BY <1>2
  <2>2. sent[w] \in 0 .. MaxLoop /\ sent[w] < MaxLoop /\ sent' = [sent EXCEPT ![w] = @ + 1]
    BY <2>1, CloneWrites
  <2> DEFINE msg == <<w, sent[w] + 1>>
  <2>3. msg \in Message
    BY <2>2, PipeAssumption DEF Message
  <2>4. data' = [data EXCEPT ![target] = Append(@, msg)] /\ received' = received /\ Len(data[target]) < Capacity
    BY <2>1, CloneWrites
  <2> HIDE DEF msg
  <2>5. /\ data' \in [Id -> Seq(Message)] /\ received' \in [Id -> Seq(Message)]
        /\ \A t \in Id : Len(data'[t]) <= Capacity
        /\ SentTo' = [SentTo EXCEPT ![target] = Append(@, msg)]
    BY <1>1, <2>1, <2>3, <2>4, BuffersWritten
  <2>6. Delivery([SentTo EXCEPT ![target] = Append(@, <<w, sent[w] + 1>>)], [sent EXCEPT ![w] = @ + 1])
    BY <1>1, <2>2, SendDelivers, PipeAssumption
  <2>7. Delivery(SentTo', sent')
    BY <2>2, <2>5, <2>6 DEF msg
  <2> QED BY <2>5, <2>7 DEF CloneDataInv
<1>3. CASE ~\E t \in Id, target \in Id : ThreadWrite(t, target)
  <2>1. sent' = sent
    BY <1>3, CloneSentOnlyByWrite
  <2>2. CASE \E t \in Id : ThreadRead(t)
    <3>1. /\ data' \in [Id -> Seq(Message)] /\ received' \in [Id -> Seq(Message)]
          /\ \A t \in Id : Len(data'[t]) <= Capacity
          /\ SentTo' = SentTo
      BY <1>1, <2>2, CloneReads, BuffersRead
    <3>2. Delivery(SentTo', sent')
      BY <1>1, <2>1, <3>1
    <3> QED BY <3>1, <3>2 DEF CloneDataInv
  <2>3. CASE ~\E t \in Id : ThreadRead(t)
    <3>1. UNCHANGED <<data, received>>
      BY <1>3, <2>3 DEF CloneNext, CloneMain, ReaderThread, WriterThread, cloneVars,
         threadVars, CreateReader, CreateWriter, JoinWriter, CloseInput,
         JoinReader, MainReadsResult, ThreadReadEnd, ThreadWriteResult, WriterReturn,
         Id
    <3>2. SentTo' = SentTo
      BY <3>1 DEF SentTo
    <3>3. Delivery(SentTo', sent')
      BY <1>1, <2>1, <3>2
    <3> QED BY <1>1, <3>1, <3>3 DEF CloneDataInv
  <2> QED BY <2>2, <2>3
<1> QED BY <1>2, <1>3

\* The types, with the buffers of CloneDataStep.
LEMMA CloneTypeStep == CloneInv /\ [CloneNext]_cloneVars => CloneTypeOK'
<1> SUFFICES ASSUME CloneInv, [CloneNext]_cloneVars
             PROVE  CloneTypeOK'
  OBVIOUS
<1> USE PipeAssumption DEF Id
<1> DEFINE Types == /\ writable \subseteq Id /\ result \in [Id -> 0 .. 1]
      /\ reader \in [Id -> {"unborn", "loop", "return", "exit"}]
      /\ writer \in [Id -> {"unborn", "loop", "exit"}]
      /\ sent \in [Id -> 0 .. MaxLoop]
      /\ mainPc \in {"createReader", "createWriter", "joinWriters", "close", "joinReaders",
                     "read", "done"}
      /\ mainI \in 1 .. NumProcs
<1>a. \A t \in Id : data'[t] \in Seq(Id \X (1 .. MaxLoop)) /\ Len(data'[t]) <= Capacity
  BY CloneDataStep DEF CloneDataInv, Message
<1> SUFFICES Types'
  BY <1>a DEF CloneTypeOK
<1>b. Types /\ CloneResultInv
  BY DEF CloneInv, CloneTypeOK
<1>1. CASE CreateReader
  BY <1>1, <1>b DEF CreateReader, NextId, threadVars, CloneResultInv
<1>2. CASE CreateWriter
  BY <1>2, <1>b DEF CreateWriter, NextId, threadVars, CloneResultInv
<1>3. CASE JoinWriter
  BY <1>3, <1>b DEF JoinWriter, NextId, threadVars, CloneResultInv
<1>4. CASE CloseInput
  BY <1>4, <1>b DEF CloseInput, NextId, threadVars, CloneResultInv
<1>5. CASE JoinReader
  BY <1>5, <1>b DEF JoinReader, NextId, threadVars, CloneResultInv
<1>6. CASE MainReadsResult
  BY <1>6, <1>b DEF MainReadsResult, NextId, threadVars, CloneResultInv
<1>7. ASSUME NEW t \in Id, ThreadRead(t)
      PROVE  Types'
  BY <1>7, <1>b DEF ThreadRead
<1>8. ASSUME NEW t \in Id, ThreadReadEnd(t)
      PROVE  Types'
  BY <1>8, <1>b DEF ThreadReadEnd, NextId, threadVars, CloneResultInv
<1>9. ASSUME NEW t \in Id, ThreadWriteResult(t)
      PROVE  Types'
  BY <1>9, <1>b DEF ThreadWriteResult, NextId, threadVars, CloneResultInv
<1>10. ASSUME NEW t \in Id, WriterReturn(t)
      PROVE  Types'
  BY <1>10, <1>b DEF WriterReturn, NextId, threadVars, CloneResultInv
<1>11. ASSUME NEW t \in Id, NEW target \in Id, ThreadWrite(t, target)
      PROVE  Types'
  <2>1. sent[t] \in 0 .. MaxLoop /\ sent[t] < MaxLoop /\ sent' = [sent EXCEPT ![t] = @ + 1]
    BY <1>11, CloneWrites
  <2>2. sent' \in [Id -> 0 .. MaxLoop]
    BY <1>b, <2>1
  <2>3. UNCHANGED <<writable, result, reader, writer, mainPc, mainI>>
    BY <1>11, CloneWrites
  <2> QED BY <1>b, <2>2, <2>3
<1>12. CASE UNCHANGED cloneVars
  BY <1>12, <1>b DEF cloneVars, threadVars, NextId, threadVars, CloneResultInv
<1> QED
  BY <1>1, <1>2, <1>3, <1>4, <1>5, <1>6, <1>7,
     <1>8, <1>9, <1>10, <1>11, <1>12
  DEF CloneNext, CloneMain, ReaderThread, WriterThread

LEMMA CloneStep == CloneInv /\ [CloneNext]_cloneVars => CloneInv'
BY CloneTypeStep, CloneMainStep, CloneWriterStep, CloneReaderStep, CloneResultStep, CloneDataStep
DEF CloneInv

\* The inductive invariant of racey-clonepipe.c: an input stays open until every
\* writer has been joined, and nothing that was sent is lost.
THEOREM CloneInvariant == CloneSpec => []CloneInv
<1>1. CloneInit => CloneInv
  BY CloneInitInv
<1>2. CloneInv /\ [CloneNext]_cloneVars => CloneInv'
  BY CloneStep
<1> QED BY <1>1, <1>2, PTL DEF CloneSpec

\* Every variable of racey-clonepipe.c keeps its type; a pipe never holds more
\* than its capacity.
THEOREM ClonePipeTypeCorrect == CloneSpec => []CloneTypeOK
<1>1. CloneInv => CloneTypeOK
  BY DEF CloneInv
<1> QED BY <1>1, CloneInvariant, PTL

\* The signature of racey-clonepipe.c covers each message once, and the messages
\* of a writer in the order it sent them.
THEOREM ClonePipeDelivers == CloneSpec => []CloneDeliversEverything
<1>1. ASSUME CloneInv, mainPc = "done"
      PROVE  /\ \A w \in Id, k \in 1 .. MaxLoop : Cardinality(Places(received, w, k)) = 1
             /\ InOrder(received)
  <2>1. /\ \A w \in Id : sent[w] = MaxLoop
        /\ \A r \in Id : data[r] = <<>>
    BY <1>1 DEF CloneInv, CloneMainInv, Closing, CloneWriterInv, CloneReaderInv
  <2> QED BY <1>1, <2>1, AllReceived DEF CloneInv, CloneDataInv
<1>2. ASSUME NEW w, NEW k
      PROVE  CloneExchange!Cardinality(CloneExchange!Arrivals(w, k)) = Cardinality(Places(received, w, k))
  BY DEF CloneExchange!Arrivals, CloneExchange!Id, Places, Id, CloneExchange!Cardinality, Cardinality
<1>3. CloneInv => CloneDeliversEverything
  BY <1>1, <1>2
  DEF CloneDeliversEverything, CloneExchange!Delivered, CloneExchange!Id, InOrder, Id
<1> QED BY <1>3, CloneInvariant, PTL
-----------------------------------------------------------------------------
\* The state of the exchange that a state of racey-clonepipe.c stands for.
CloneStopped == {t \in Id : writer[t] = "exit"}
CloneAtTheEnd == {t \in Id : reader[t] \in {"return", "exit"}}

LEMMA CloneWriteSends ==
  ASSUME CloneInv, NEW w \in Id, NEW target \in Id, ThreadWrite(w, target)
  PROVE  CloneExchange!Next
<1>1. /\ writer[w] = "loop" /\ sent[w] < MaxLoop /\ sent' = [sent EXCEPT ![w] = @ + 1]
      /\ data' = [data EXCEPT ![target] = Append(@, <<w, sent[w] + 1>>)]
      /\ UNCHANGED <<reader, writer, received, mainPc>>
  BY CloneWrites
<1>2. w \notin CloneStopped /\ UNCHANGED <<received, CloneStopped, CloneAtTheEnd, Printed>>
  BY <1>1 DEF CloneStopped, CloneAtTheEnd, Printed
<1>3. CloneExchange!Send(w, target)
  BY <1>1, <1>2 DEF CloneExchange!Send, CloneExchange!Id, Id, CloneStopped, CloneAtTheEnd, Printed
<1> QED BY <1>3 DEF CloneExchange!Next, CloneExchange!Id, Id

LEMMA CloneReadReceives ==
  ASSUME CloneInv, NEW r \in Id, ThreadRead(r)
  PROVE  CloneExchange!Next
<1>1. PICK n \in 1 .. 2 :
        /\ n <= Len(data[r])
        /\ received' = [received EXCEPT ![r] = @ \o SubSeq(data[r], 1, n)]
        /\ data' = [data EXCEPT ![r] = SubSeq(@, n + 1, Len(@))]
        /\ UNCHANGED <<reader, writer, sent, mainPc>>
  BY CloneReads
<1>2. CloneExchange!Receive(r)
  BY <1>1 DEF CloneExchange!Receive, Id
<1> QED BY <1>2 DEF CloneExchange!Next, CloneExchange!Id, Id

\* A writer that returns stops.
LEMMA WriterReturnStops ==
  ASSUME CloneInv, NEW w \in Id, WriterReturn(w)
  PROVE  CloneExchange!Next
<1>1. /\ sent[w] = MaxLoop /\ writer' = [writer EXCEPT ![w] = "exit"]
      /\ UNCHANGED <<data, reader, sent, received, mainPc>>
  BY DEF WriterReturn
<1>2. CloneStopped' = CloneStopped \cup {w}
  BY <1>1 DEF CloneStopped, CloneInv, CloneTypeOK, Id
<1>3. UNCHANGED <<CloneAtTheEnd, Printed>>
  BY <1>1 DEF CloneAtTheEnd, Printed
<1>4. CloneExchange!Stop({w})
  BY <1>1, <1>2, <1>3 DEF CloneExchange!Stop, CloneExchange!Id, Id, CloneStopped, CloneAtTheEnd, Printed
<1>5. {w} \in SUBSET CloneExchange!Id
  BY DEF CloneExchange!Id, Id
<1> QED BY <1>4, <1>5 DEF CloneExchange!Next

LEMMA CloneReadEndFinishes ==
  ASSUME CloneInv, NEW r \in Id, ThreadReadEnd(r)
  PROVE  CloneExchange!Next
<1>1. /\ data[r] = <<>> /\ r \notin writable /\ reader' = [reader EXCEPT ![r] = "return"]
      /\ UNCHANGED <<data, writer, sent, received, mainPc>>
  BY DEF ThreadReadEnd
<1>2. CloneAtTheEnd' = CloneAtTheEnd \cup {r}
  BY <1>1 DEF CloneAtTheEnd, CloneInv, CloneTypeOK, Id
<1>3. UNCHANGED <<CloneStopped, Printed>>
  BY <1>1 DEF CloneStopped, Printed
<1>4. CloneStopped = Id
  BY <1>1 DEF CloneStopped, CloneInv, CloneMainInv
<1>5. CloneExchange!Finish(r)
  BY <1>1, <1>2, <1>3, <1>4
  DEF CloneExchange!Finish, CloneExchange!Id, Id, CloneStopped, CloneAtTheEnd, Printed
<1> QED BY <1>5 DEF CloneExchange!Next, CloneExchange!Id, Id

\* The last step of main() is the Fold; its other steps are not seen.
LEMMA CloneMainIsSeenAtTheEnd ==
  ASSUME CloneInv, CloneMain
  PROVE  CloneExchange!Next \/ UNCHANGED CloneExchange!vars
<1>1. UNCHANGED <<data, sent, received>>
  BY DEF CloneMain, CreateReader, CreateWriter, JoinWriter, CloseInput,
     JoinReader, MainReadsResult, threadVars
<1>2. UNCHANGED CloneStopped
  <2>1. CASE CreateWriter
    <3>1. writer' = [writer EXCEPT ![mainI] = "loop"] /\ writer[mainI] = "unborn"
      BY <2>1 DEF CreateWriter, CloneInv, CloneMainInv, CloneTypeOK, Id
    <3> QED BY <3>1 DEF CloneStopped, CloneInv, CloneTypeOK, Id
  <2> QED BY <2>1 DEF CloneStopped, CloneMain, CreateReader, JoinWriter,
             CloseInput, JoinReader, MainReadsResult, threadVars
<1>3. UNCHANGED CloneAtTheEnd
  <2>1. CASE CreateReader
    <3>1. reader' = [reader EXCEPT ![mainI] = "loop"] /\ reader[mainI] = "unborn"
      BY <2>1 DEF CreateReader, CloneInv, CloneMainInv, CloneTypeOK, Id
    <3> QED BY <3>1 DEF CloneAtTheEnd, CloneInv, CloneTypeOK, Id
  <2> QED BY <2>1 DEF CloneAtTheEnd, CloneMain, CreateWriter, JoinWriter,
             CloseInput, JoinReader, MainReadsResult, threadVars
<1>4. CASE Printed' = Printed
  BY <1>1, <1>2, <1>3, <1>4
  DEF CloneExchange!vars, CloneExchange!Id, Id, CloneStopped, CloneAtTheEnd, Printed
<1>5. CASE Printed' # Printed
  <2>1. mainPc = "read" /\ Printed'
    BY <1>5 DEF CloneMain, CreateReader, CreateWriter, JoinWriter,
       CloseInput, JoinReader, MainReadsResult, NextId, Printed
  <2>2. CloneAtTheEnd = Id /\ \A w \in Id : sent[w] = MaxLoop
    BY <2>1 DEF CloneAtTheEnd, CloneInv, CloneMainInv, Closing, CloneWriterInv
  <2>3. CloneExchange!Fold
    BY <1>1, <1>2, <1>3, <2>1, <2>2
    DEF CloneExchange!Fold, CloneExchange!Id, Id, CloneStopped, CloneAtTheEnd, Printed
  <2> QED BY <2>3 DEF CloneExchange!Next
<1> QED BY <1>4, <1>5

LEMMA CloneExchangeStep ==
  CloneInv /\ [CloneNext]_cloneVars => [CloneExchange!Next]_(CloneExchange!vars)
<1> SUFFICES ASSUME CloneInv, [CloneNext]_cloneVars
             PROVE  CloneExchange!Next \/ UNCHANGED CloneExchange!vars
  OBVIOUS
<1>1. CASE CloneMain
  BY <1>1, CloneMainIsSeenAtTheEnd
<1>2. CASE \E t \in Id : ReaderThread(t)
  <2>1. PICK t \in Id : ReaderThread(t)
    BY <1>2
  <2>2. CASE ThreadWriteResult(t)
    <3>1. /\ reader[t] = "return" /\ reader' = [reader EXCEPT ![t] = "exit"]
          /\ UNCHANGED <<data, writer, sent, received, mainPc>>
      BY <2>2 DEF ThreadWriteResult
    <3>2. UNCHANGED <<CloneStopped, CloneAtTheEnd, Printed>>
      BY <3>1 DEF CloneStopped, CloneAtTheEnd, Printed, CloneInv, CloneTypeOK, Id
    <3> QED BY <3>1, <3>2
            DEF CloneExchange!vars, CloneExchange!Id, Id, CloneStopped, CloneAtTheEnd, Printed
  <2> QED BY <2>1, <2>2, CloneReadReceives, CloneReadEndFinishes DEF ReaderThread
<1>3. CASE \E t \in Id : WriterThread(t)
  BY <1>3, CloneWriteSends, WriterReturnStops DEF WriterThread, Id
<1>4. CASE UNCHANGED cloneVars
  BY <1>4 DEF cloneVars, threadVars, CloneExchange!vars
<1> QED BY <1>1, <1>2, <1>3, <1>4 DEF CloneNext, Id

LEMMA CloneExchangeInit == CloneInit => CloneExchange!Init
BY DEF CloneInit, CloneExchange!Init, CloneExchange!Id, Id

\* racey-clonepipe.c implements the same exchange, with joins and one close of
\* each input by main() in place of the processes' closes.
THEOREM ClonePipeExchanges == CloneSpec => CloneImplementsExchange
<1>1. CloneInit => CloneExchange!Init
  BY CloneExchangeInit
<1>2. CloneInv /\ [CloneNext]_cloneVars => [CloneExchange!Next]_(CloneExchange!vars)
  BY CloneExchangeStep
<1> QED BY <1>1, <1>2, CloneInvariant, PTL DEF CloneSpec, CloneImplementsExchange, CloneExchange!Spec
-----------------------------------------------------------------------------
\* Why racey-clonepipe.c ends.

\* The steps that main(), a reader and a writer can take.  A writer is held up by a
\* full pipe only if its message is for that pipe, but here it runs only if it does
\* whichever reader its message is for.
CloneMainRuns ==
  \/ mainPc \in {"createReader", "createWriter", "close"}
  \/ mainPc = "joinWriters" /\ writer[mainI] = "exit"
  \/ mainPc = "joinReaders" /\ reader[mainI] = "exit"
  \/ mainPc = "read" /\ (mainI < NumProcs => result[mainI] > 0)

ReaderRuns(t) ==
  \/ reader[t] = "loop" /\ (data[t] # <<>> \/ t \notin writable)
  \/ reader[t] = "return"

WriterRuns(t) ==
  /\ writer[t] = "loop"
  /\ sent[t] = MaxLoop \/ \A target \in Id : target \in writable => Len(data[target]) < Capacity

CloneRuns == mainPc = "done" \/ CloneMainRuns \/ \E t \in Id : ReaderRuns(t) \/ WriterRuns(t)

\* How far each of them has come.
CloneMainRank ==
  CASE mainPc = "createReader" -> 2 * (mainI - 1)
    [] mainPc = "createWriter" -> 2 * (mainI - 1) + 1
    [] mainPc = "joinWriters"  -> 2 * NumProcs + mainI - 1
    [] mainPc = "close"        -> 3 * NumProcs + mainI - 1
    [] mainPc = "joinReaders"  -> 4 * NumProcs + mainI - 1
    [] mainPc = "read"         -> 5 * NumProcs + mainI - 1
    [] mainPc = "done"         -> 6 * NumProcs

ReaderRank(t) ==
  CASE reader[t] = "unborn" -> 0
    [] reader[t] = "loop"   -> 1
    [] reader[t] = "return" -> 2
    [] reader[t] = "exit"   -> 3

WriterRank(t) ==
  CASE writer[t] = "unborn" -> 0
    [] writer[t] = "loop"   -> 1 + sent[t]
    [] writer[t] = "exit"   -> MaxLoop + 2

CloneRanksEnd ==
  /\ CloneMainRank \in 0 .. 6 * NumProcs
  /\ \A t \in Id : ReaderRank(t) \in 0 .. 3 /\ WriterRank(t) \in 0 .. MaxLoop + 2
  /\ \A t \in Id : Len(data[t]) \in 0 .. Capacity

\* A pipe is read, and none is written.
SomePipeEmpties ==
  /\ \A t \in Id : Len(data'[t]) <= Len(data[t])
  /\ \E t \in Id : Len(data'[t]) < Len(data[t])

\* Nobody goes back, and somebody comes further, or a pipe comes nearer to being empty.
CloneAdvance ==
  /\ CloneMainRank' >= CloneMainRank
  /\ \A t \in Id : ReaderRank(t)' >= ReaderRank(t) /\ WriterRank(t)' >= WriterRank(t)
  /\ \/ CloneMainRank' > CloneMainRank
     \/ \E t \in Id : ReaderRank(t)' > ReaderRank(t) \/ WriterRank(t)' > WriterRank(t)
     \/ SomePipeEmpties

\* A read takes at least one message out of one pipe.
LEMMA ReadEmpties ==
  ASSUME data \in [Id -> Seq(Message)],
         NEW u \in Id, NEW n \in 1 .. 2, n <= Len(data[u]),
         data' = [data EXCEPT ![u] = SubSeq(@, n + 1, Len(@))]
  PROVE  SomePipeEmpties
<1>1. data[u] \in Seq(Message) /\ n \in 0 .. Len(data[u])
  BY LenProperties
<1>2. Len(SubSeq(data[u], n + 1, Len(data[u]))) = Len(data[u]) - n
  <2>1. \A x, y \in Seq(Message) : \A k \in 0 .. Len(y) :
          /\ (x \o SubSeq(y, 1, k)) \o SubSeq(y, k + 1, Len(y)) = x \o y
          /\ x \o SubSeq(y, 1, k) \in Seq(Message)
          /\ SubSeq(y, k + 1, Len(y)) \in Seq(Message)
          /\ Len(SubSeq(y, k + 1, Len(y))) = Len(y) - k
    BY ReadMoves, Zenon
  <2> QED BY <1>1, <2>1, Zenon
<1>3. Len(data'[u]) < Len(data[u])
  <2> DEFINE len == Len(data[u])
             len2 == Len(data'[u])
  <2>1. len2 = len - n /\ len \in Nat
    BY <1>1, <1>2, LenProperties
  <2> HIDE DEF len, len2
  <2>2. len2 < len
    BY <2>1
  <2> QED BY <2>2 DEF len, len2
<1>4. \A t \in Id : t # u => data'[t] = data[t]
  OBVIOUS
<1>5. \A t \in Id : Len(data[t]) \in Nat /\ Len(data'[t]) \in Nat
  BY <1>2, <1>4, <1>1, LenProperties
<1>6. \A t \in Id : Len(data'[t]) <= Len(data[t])
  BY <1>3, <1>4, <1>5
<1> QED BY <1>3, <1>6 DEF SomePipeEmpties

\* A writer waits only for a reader that is there and can read; the writers are over
\* when the inputs are closed, which lets the readers end.
LEMMA CloneMoves == CloneInv => CloneRuns
<1> SUFFICES ASSUME CloneInv, mainPc # "done", ~CloneMainRuns,
                    \A t \in Id : ~ReaderRuns(t) /\ ~WriterRuns(t)
             PROVE  FALSE
  BY DEF CloneRuns
<1>1. /\ mainPc \in {"joinWriters", "joinReaders", "read"} /\ mainI \in Id
      /\ \A t \in Id : reader[t] \in {"unborn", "loop", "return", "exit"}
                       /\ writer[t] \in {"unborn", "loop", "exit"}
  BY DEF CloneInv, CloneTypeOK, CloneMainRuns, Id
<1>2. CASE mainPc = "joinWriters"
  <2>1. writer[mainI] = "loop"
    BY <1>1, <1>2 DEF CloneMainRuns, CloneInv, CloneMainInv
  <2>2. PICK t \in Id : t \in writable /\ ~(Len(data[t]) < Capacity)
    BY <1>1, <2>1 DEF WriterRuns
  <2>3. data[t] # <<>>
    BY <2>2, EmptySeq, PipeAssumption
  <2>4. reader[t] # "unborn" /\ reader[t] # "exit"
    BY <1>2, <2>3 DEF CloneInv, CloneMainInv, CloneReaderInv
  <2> QED BY <1>1, <2>3, <2>4 DEF ReaderRuns
<1>3. CASE mainPc = "joinReaders"
  <2>1. reader[mainI] \in {"loop", "return"} /\ mainI \notin writable
    BY <1>1, <1>3 DEF CloneMainRuns, CloneInv, CloneMainInv
  <2> QED BY <1>1, <2>1 DEF ReaderRuns
<1>4. CASE mainPc = "read"
  <2>1. reader[mainI] = "exit" /\ ~(mainI < mainI)
    BY <1>1, <1>4 DEF CloneInv, CloneMainInv, Id
  <2>2. result[mainI] = 1
    BY <1>1, <2>1 DEF CloneInv, CloneResultInv
  <2> QED BY <1>4, <2>2 DEF CloneMainRuns
<1> QED BY <1>1, <1>2, <1>3, <1>4

LEMMA CloneRanksBounded == CloneInv => CloneRanksEnd
<1> SUFFICES ASSUME CloneInv PROVE CloneRanksEnd
  OBVIOUS
<1>1. NumProcs \in Nat \ {0} /\ MaxLoop \in Nat \ {0} /\ Capacity \in Nat \ {0}
  BY PipeAssumption
<1>2. CloneMainRank \in 0 .. 6 * NumProcs
  <2>1. /\ mainPc \in {"createReader", "createWriter", "joinWriters", "close", "joinReaders", "read", "done"}
        /\ mainI \in 1 .. NumProcs
    BY DEF CloneInv, CloneTypeOK, Id
  <2>2. CASE mainPc \in {"createReader", "createWriter", "joinWriters"}
    BY <1>1, <2>1, <2>2 DEF CloneMainRank
  <2>3. CASE mainPc \in {"close", "joinReaders", "read", "done"}
    BY <1>1, <2>1, <2>3 DEF CloneMainRank
  <2> QED BY <2>1, <2>2, <2>3
<1>3. \A t \in Id : ReaderRank(t) \in 0 .. 3
  BY DEF ReaderRank, CloneInv, CloneTypeOK
<1>4. \A t \in Id : WriterRank(t) \in 0 .. MaxLoop + 2
  BY <1>1 DEF WriterRank, CloneInv, CloneTypeOK
<1>5. \A t \in Id : Len(data[t]) \in 0 .. Capacity
  BY <1>1, LenProperties DEF CloneInv, CloneTypeOK
<1> QED BY <1>2, <1>3, <1>4, <1>5 DEF CloneRanksEnd

\* main(): each of its loops is over before the next begins.
LEMMA CloneMainAdvances ==
  ASSUME CloneInv, CloneRanksEnd, CloneRanksEnd', CloneMain
  PROVE  CloneAdvance
<1> USE DEF CloneInv, CloneTypeOK, Id
<1>1. mainI \in 1 .. NumProcs /\ NumProcs \in Nat \ {0} /\ MaxLoop \in Nat /\ Capacity \in Nat
  BY PipeAssumption
<1>2. CloneMainRank' > CloneMainRank
  <2>1. CASE CreateReader
    BY <1>1, <2>1 DEF CreateReader, CloneMainRank
  <2>2. CASE CreateWriter
    BY <1>1, <2>2 DEF CreateWriter, NextId, CloneMainRank
  <2>3. CASE JoinWriter
    BY <1>1, <2>3 DEF JoinWriter, NextId, CloneMainRank
  <2>4. CASE CloseInput
    BY <1>1, <2>4 DEF CloseInput, NextId, CloneMainRank
  <2>5. CASE JoinReader
    BY <1>1, <2>5 DEF JoinReader, NextId, CloneMainRank
  <2>6. CASE MainReadsResult
    BY <1>1, <2>6 DEF MainReadsResult, CloneMainRank
  <2> QED BY <2>1, <2>2, <2>3, <2>4, <2>5, <2>6 DEF CloneMain
<1>3. ASSUME NEW t \in Id
      PROVE  ReaderRank(t)' >= ReaderRank(t) /\ WriterRank(t)' >= WriterRank(t)
  <2>1. /\ sent'[t] = sent[t] /\ sent[t] \in 0 .. MaxLoop
        /\ reader'[t] = reader[t] \/ (reader[t] = "unborn" /\ reader'[t] = "loop")
        /\ writer'[t] = writer[t] \/ (writer[t] = "unborn" /\ writer'[t] = "loop")
    BY <1>1 DEF CloneMain, CreateReader, CreateWriter, JoinWriter, CloseInput, JoinReader,
       MainReadsResult, threadVars, CloneMainInv
  <2>2. reader[t] \in {"unborn", "loop", "return", "exit"} /\ writer[t] \in {"unborn", "loop", "exit"}
    OBVIOUS
  <2>3. ReaderRank(t)' >= ReaderRank(t)
    BY <2>1, <2>2 DEF ReaderRank
  <2>4. WriterRank(t)' >= WriterRank(t)
    BY <1>1, <2>1, <2>2 DEF WriterRank
  <2> QED BY <2>3, <2>4
<1> QED BY <1>1, <1>2, <1>3 DEF CloneAdvance, CloneRanksEnd

\* A step of a thread takes that thread further, or empties its pipe.
LEMMA CloneThreadAdvances ==
  ASSUME CloneInv, CloneRanksEnd, CloneRanksEnd', NEW t \in Id, ReaderThread(t) \/ WriterThread(t)
  PROVE  CloneAdvance
<1> DEFINE Still(u) == reader'[u] = reader[u] /\ writer'[u] = writer[u] /\ sent'[u] = sent[u]
<1>1. UNCHANGED <<mainPc, mainI>> /\ \A u \in Id : u # t => Still(u)
  <2> USE DEF CloneInv, CloneTypeOK
  <2>1. CASE ThreadRead(t) \/ ThreadReadEnd(t) \/ ThreadWriteResult(t)
    BY <2>1 DEF ThreadRead, ThreadReadEnd, ThreadWriteResult
  <2>2. CASE WriterThread(t)
    BY <2>2 DEF WriterThread, ThreadWrite, WriterReturn
  <2> QED BY <2>1, <2>2 DEF ReaderThread
<1>2. CloneMainRank' = CloneMainRank
  BY <1>1 DEF CloneMainRank
<1>3. ASSUME NEW u \in Id, Still(u)
      PROVE  ReaderRank(u)' = ReaderRank(u) /\ WriterRank(u)' = WriterRank(u)
  BY <1>3 DEF ReaderRank, WriterRank
<1> HIDE DEF Still
<1>4. \/ ReaderRank(t)' > ReaderRank(t) /\ WriterRank(t)' = WriterRank(t)
      \/ ReaderRank(t)' = ReaderRank(t) /\ WriterRank(t)' > WriterRank(t)
      \/ ReaderRank(t)' = ReaderRank(t) /\ WriterRank(t)' = WriterRank(t) /\ SomePipeEmpties
  <2> USE DEF CloneInv, CloneTypeOK, Id
  <2>1. CASE ThreadRead(t)
    <3>1. SomePipeEmpties
      BY <2>1, CloneReads, ReadEmpties DEF CloneDataInv
    <3>2. Still(t)
      BY <2>1 DEF ThreadRead, Still
    <3> QED BY <1>3, <3>1, <3>2
  <2>2. CASE ThreadReadEnd(t)
    BY <2>2 DEF ThreadReadEnd, ReaderRank, WriterRank
  <2>3. CASE ThreadWriteResult(t)
    BY <2>3 DEF ThreadWriteResult, ReaderRank, WriterRank
  <2>4. CASE \E target \in Id : ThreadWrite(t, target)
    BY <2>4, PipeAssumption DEF ThreadWrite, ReaderRank, WriterRank
  <2>5. CASE WriterReturn(t)
    BY <2>5, PipeAssumption DEF WriterReturn, ReaderRank, WriterRank
  <2> QED BY <2>1, <2>2, <2>3, <2>4, <2>5 DEF ReaderThread, WriterThread
<1>5. /\ CloneMainRank \in Nat
      /\ \A u \in Id : ReaderRank(u) \in Nat /\ WriterRank(u) \in Nat
  BY PipeAssumption DEF CloneRanksEnd
<1>6. \A u \in Id : u # t => ReaderRank(u)' = ReaderRank(u) /\ WriterRank(u)' = WriterRank(u)
  BY <1>1, <1>3
<1>7. /\ CloneMainRank' >= CloneMainRank
      /\ \A u \in Id : ReaderRank(u)' >= ReaderRank(u) /\ WriterRank(u)' >= WriterRank(u)
  <2>1. ReaderRank(t)' \in Nat /\ WriterRank(t)' \in Nat
    BY PipeAssumption DEF CloneRanksEnd
  <2> QED BY <1>2, <1>4, <1>5, <1>6, <2>1
<1> QED BY <1>4, <1>7 DEF CloneAdvance

\* racey-clonepipe.c never deadlocks, although writers wait for readers, readers for
\* the end of their input and main() for both: until main() has printed, somebody is
\* not held up by a pipe or a join, whichever readers the messages are for.
THEOREM CloneNeverStuck == CloneSpec => []CloneRuns
  BY CloneInvariant, CloneMoves, PTL

\* Every step of racey-clonepipe.c takes a thread or main() further, or a message out
\* of a pipe, and no thread back: with CloneNeverStuck, why the program ends.
THEOREM CloneAdvances == CloneSpec => []CloneRanksEnd /\ [][CloneAdvance]_cloneVars
<1>1. CloneInv /\ CloneRanksEnd /\ CloneRanksEnd' /\ [CloneNext]_cloneVars => [CloneAdvance]_cloneVars
  BY CloneMainAdvances, CloneThreadAdvances DEF CloneNext
<1> QED BY <1>1, CloneInvariant, CloneRanksBounded, PTL DEF CloneSpec
-----------------------------------------------------------------------------
\* Why racey-forkpipe.c ends.

\* The other half of what WriterInv says: nobody keeps the writing end of an input
\* open who does not write to it any more, or will not.
MainHolds(t) ==
  inputs(t, "WR") \in open[main] => mainPc = "fork" \/ (mainPc = "close" /\ t >= mainI)

ChildHolds(c, t) ==
  inputs(t, "WR") \in open[c] =>
    IF c \in Writer THEN pc[c] \in {"unused", "loop"} \/ (pc[c] = "close" /\ t >= i[c])
                    ELSE pc[c] = "unused" /\ t >= i[c]

HolderInv == \A t \in Id : MainHolds(t) /\ \A c \in Child : ChildHolds(c, t)

\* The steps that main() and a child can take; a writer runs if it does whichever
\* reader its message is for.
ForkMainRuns ==
  \/ mainPc \in {"fork", "close"}
  \/ mainPc = "wait" /\ mainI <= Cardinality({c \in Child : Ended(c)})
  \/ mainPc = "read" /\ (mainI >= NumProcs \/ result[mainI] > 0)

ChildRuns(c) ==
  \/ pc[c] \in {"unused", "return", "close"}
  \/ /\ c \in Reader /\ pc[c] = "loop"
     /\ data[ThreadId(c)] # <<>> \/ ~Held(inputs(ThreadId(c), "WR"))
  \/ /\ c \in Writer /\ pc[c] = "loop"
     /\ i[c] = MaxLoop \/ \A t \in Id : Held(inputs(t, "RD")) => Len(data[t]) < Capacity

\* A fork has failed before the last reader was created.
ReaderMissing == mainPc = "failed" /\ \E c \in Reader : pc[c] = "unborn"

ForkRuns == Over \/ ReaderMissing \/ ForkMainRuns \/ \E c \in Child : ChildRuns(c)

\* How far main() and a child have come.
ForkMainRank ==
  CASE mainPc = "fork"  -> mainI - 1
    [] mainPc = "close" -> 2 * NumProcs + mainI - 1
    [] mainPc = "wait"  -> 3 * NumProcs + mainI - 1
    [] mainPc = "read"  -> 5 * NumProcs + mainI - 1
    [] OTHER            -> 6 * NumProcs

ChildRank(c) ==
  CASE pc[c] = "unborn" -> 0
    [] pc[c] = "unused" -> i[c]
    [] pc[c] = "loop"   -> NumProcs + 1 + (IF c \in Writer THEN i[c] ELSE 0)
    [] pc[c] = "return" -> NumProcs + MaxLoop + 2
    [] pc[c] = "close"  -> NumProcs + MaxLoop + 3 + (IF c \in Writer THEN i[c] ELSE 0)
    [] OTHER            -> 2 * NumProcs + MaxLoop + 4

ForkRanksEnd ==
  /\ ForkMainRank \in 0 .. 6 * NumProcs
  /\ \A c \in Child : ChildRank(c) \in 0 .. 2 * NumProcs + MaxLoop + 4
  /\ \A t \in Id : Len(data[t]) \in 0 .. Capacity

\* Nobody goes back, and somebody comes further, or a pipe comes nearer to being empty.
ForkAdvance ==
  /\ ForkMainRank' >= ForkMainRank /\ \A c \in Child : ChildRank(c)' >= ChildRank(c)
  /\ \/ ForkMainRank' > ForkMainRank
     \/ \E c \in Child : ChildRank(c)' > ChildRank(c)
     \/ SomePipeEmpties

LEMMA HolderInit == Init => HolderInv
  BY Ids DEF Init, HolderInv, MainHolds, ChildHolds, Proc

\* The descriptors of the others stay as they are.
LEMMA OthersHold ==
  ASSUME HolderInv, NEW c \in Child, UNCHANGED <<mainPc, mainI>>, open'[main] = open[main],
         \A d \in Child : d # c => pc'[d] = pc[d] /\ i'[d] = i[d] /\ open'[d] = open[d],
         \A t \in Id : ChildHolds(c, t)'
  PROVE  HolderInv'
<1>1. ASSUME NEW t \in Id, NEW d \in Child
      PROVE  MainHolds(t)' /\ ChildHolds(d, t)'
  <2>1. MainHolds(t)'
    BY DEF HolderInv, MainHolds
  <2>2. CASE d # c
    BY <2>2, <2>1 DEF HolderInv, ChildHolds
  <2> QED BY <2>1, <2>2
<1>2. \A t \in Id : MainHolds(t)'
  BY DEF HolderInv, MainHolds
<1> QED BY <1>1, <1>2 DEF HolderInv

\* main() closes its writing ends before it waits.
LEMMA MainHolderStep == PipeInv /\ HolderInv /\ mainStep => HolderInv'
<1> SUFFICES ASSUME PipeInv, HolderInv, mainStep
             PROVE  HolderInv'
  OBVIOUS
<1>1. /\ NumProcs \in Nat \ {0} /\ mainI \in 1 .. 2 * NumProcs + 1 /\ main \in Proc /\ Child \subseteq Proc
      /\ open \in [Proc -> SUBSET Fd] /\ main \notin Child
      /\ pc \in [Child -> {"unborn", "unused", "loop", "return", "close", "killed", "exit"}]
  BY PipeAssumption, Ids DEF PipeInv, TypeOK, Proc
<1>2. CASE Fork
  <2>1. /\ mainPc = "fork" /\ mainI \in Child
        /\ mainPc' = "fork" \/ (mainPc' = "close" /\ mainI' = 1)
        /\ UNCHANGED i
    BY <1>1, <1>2 DEF Fork, PipeInv, MainInv, Child
  <2>2. mainI \in Child /\ i[mainI] = 1 /\ pc'[mainI] = "unused"
    BY <1>1, <1>2 DEF Fork, Goto, PipeInv, MainInv, ChildInv, Child
  <2>3. \A c \in Child : c # mainI => pc'[c] = pc[c] /\ open'[c] = open[c]
    BY <1>1, <1>2 DEF Fork, Goto
  <2>4. \A t \in Id : MainHolds(t)'
    BY <1>1, <2>1 DEF MainHolds, Id
  <2>5. \A t \in Id : \A c \in Child : ChildHolds(c, t)'
    BY <1>1, <2>1, <2>2, <2>3 DEF HolderInv, ChildHolds, Id
  <2> QED BY <2>4, <2>5 DEF HolderInv
<1>3. CASE ~Fork
  <2>1. UNCHANGED <<pc, i>> /\ \A c \in Child : open'[c] = open[c]
    BY <1>1, <1>3 DEF mainStep, ForkFails, MainCloses, WaitChild, ReadResult, PrintSignature, Close, childVars
  <2>2. \A t \in Id : \A c \in Child : ChildHolds(c, t)'
    BY <2>1 DEF HolderInv, ChildHolds
  <2>3. \A t \in Id : MainHolds(t)'
    <3>1. CASE ForkFails \/ PrintSignature
      BY <1>1, <3>1 DEF ForkFails, PrintSignature, Close, MainHolds, inputs, Fd
    <3>2. CASE MainCloses
      <4>1. inputs(mainI, "WR") \notin open'[main]
        BY <1>1, <3>2 DEF MainCloses, Close
      <4>2. \A t \in Id : inputs(t, "WR") \in open'[main] => inputs(t, "WR") \in open[main]
        BY <1>1, <3>2 DEF MainCloses, Close
      <4>3. \A t \in Id : inputs(t, "WR") \in open'[main] => t >= mainI /\ t # mainI
        BY <4>1, <4>2, <3>2 DEF HolderInv, MainHolds, MainCloses
      <4>4. \/ mainPc' = "close" /\ mainI' = mainI + 1
            \/ mainI >= NumProcs
        BY <1>1, <3>2 DEF MainCloses
      <4> QED BY <1>1, <4>3, <4>4 DEF MainHolds, Id
    <3>3. CASE WaitChild \/ ReadResult
      BY <1>1, <3>3 DEF WaitChild, ReadResult, HolderInv, MainHolds
    <3> QED BY <1>3, <3>1, <3>2, <3>3 DEF mainStep
  <2> QED BY <2>2, <2>3 DEF HolderInv
<1> QED BY <1>2, <1>3

\* A reader closes every writing end before it reads, a writer after its last message.
LEMMA ChildHolderStep ==
  ASSUME PipeInv, HolderInv, NEW c \in Child, child(c)
  PROVE  HolderInv'
<1>1. /\ NumProcs \in Nat \ {0} /\ MaxLoop \in Nat \ {0} /\ c \in Proc /\ c # main /\ main \in Proc
      /\ Child \subseteq Proc
      /\ open \in [Proc -> SUBSET Fd]
      /\ pc \in [Child -> {"unborn", "unused", "loop", "return", "close", "killed", "exit"}]
      /\ i \in [Child -> 0 .. NumProcs + MaxLoop]
      /\ \A t \in Id : ChildHolds(c, t)
  BY PipeAssumption, Ids DEF PipeInv, TypeOK, Proc, HolderInv
<1>2. CASE CloseUnused(c)
  <2>1. /\ \A d \in Child : d # c => pc'[d] = pc[d] /\ i'[d] = i[d] /\ open'[d] = open[d]
        /\ open'[main] = open[main] /\ UNCHANGED <<mainPc, mainI>>
    BY <1>1, <1>2 DEF CloseUnused, Close, Goto
  <2>2. /\ pc[c] = "unused" /\ i[c] \in 1 .. NumProcs
        /\ \/ pc'[c] = "unused" /\ i'[c] = i[c] + 1
           \/ pc'[c] = "loop" /\ i[c] = NumProcs
    BY <1>1, <1>2, Ids DEF CloseUnused, Goto, PipeInv, ChildInv, WriterInv, ReaderInv
  <2>3. CASE c \notin Writer
    <3>1. inputs(i[c], "WR") \in Unused(c, i[c])
      BY <2>3 DEF Unused
    <3>2. \A t \in Id : inputs(t, "WR") \in open'[c] => inputs(t, "WR") \in open[c] /\ t # i[c]
      BY <1>1, <1>2, <3>1 DEF CloseUnused, Close
    <3>3. \A t \in Id : inputs(t, "WR") \in open'[c] => t >= i[c] /\ t # i[c]
      BY <1>1, <2>3, <3>2 DEF ChildHolds
    <3>4. \A t \in Id : ChildHolds(c, t)'
      BY <1>1, <2>2, <2>3, <3>3 DEF ChildHolds, Id
    <3> QED BY <2>1, <3>4, OthersHold
  <2>4. CASE c \in Writer
    <3>1. \A t \in Id : ChildHolds(c, t)'
      BY <2>2, <2>4 DEF ChildHolds
    <3> QED BY <2>1, <3>1, OthersHold
  <2> QED BY <2>3, <2>4
<1>3. CASE Read(c) \/ ReadEnd(c) \/ WriteResult(c)
  <2>1. /\ \A d \in Child : d # c => pc'[d] = pc[d] /\ i'[d] = i[d] /\ open'[d] = open[d]
        /\ UNCHANGED <<open, mainPc, mainI>> /\ c \in Reader /\ pc[c] # "unused"
    BY <1>1, <1>3 DEF Read, ReadEnd, WriteResult, Goto
  <2>2. \A t \in Id : ChildHolds(c, t)'
    BY <1>1, <2>1, Ids DEF ChildHolds
  <2> QED BY <2>1, <2>2, OthersHold
<1>4. CASE ReaderExit(c)
  <2>1. /\ \A d \in Child : d # c => pc'[d] = pc[d] /\ i'[d] = i[d] /\ open'[d] = open[d]
        /\ open'[main] = open[main] /\ open'[c] = {} /\ UNCHANGED <<mainPc, mainI>>
    BY <1>1, <1>4 DEF ReaderExit, Close, Goto
  <2>2. \A t \in Id : ChildHolds(c, t)'
    BY <2>1 DEF ChildHolds
  <2> QED BY <2>1, <2>2, OthersHold
<1>5. ASSUME NEW target \in Id, Write(c, target)
      PROVE  HolderInv'
  <2>1. /\ \A d \in Child : d # c => pc'[d] = pc[d] /\ i'[d] = i[d] /\ open'[d] = open[d]
        /\ UNCHANGED <<open, pc, mainPc, mainI>> /\ c \in Writer /\ pc[c] = "loop"
    BY <1>1, <1>5, Writes
  <2>2. \A t \in Id : ChildHolds(c, t)'
    BY <2>1 DEF ChildHolds
  <2> QED BY <2>1, <2>2, OthersHold
<1>6. CASE LeaveLoop(c)
  <2>1. /\ \A d \in Child : d # c => pc'[d] = pc[d] /\ i'[d] = i[d] /\ open'[d] = open[d]
        /\ UNCHANGED <<open, mainPc, mainI>> /\ c \in Writer /\ pc'[c] = "close" /\ i'[c] = 1
    BY <1>1, <1>6 DEF LeaveLoop, Goto
  <2>2. \A t \in Id : ChildHolds(c, t)'
    BY <1>1, <2>1 DEF ChildHolds, Id
  <2> QED BY <2>1, <2>2, OthersHold
<1>7. CASE CloseInputs(c)
  <2>1. /\ \A d \in Child : d # c => pc'[d] = pc[d] /\ i'[d] = i[d] /\ open'[d] = open[d]
        /\ open'[main] = open[main] /\ UNCHANGED <<mainPc, mainI>>
    BY <1>1, <1>7 DEF CloseInputs, Close, Goto
  <2>2. /\ c \in Writer /\ pc[c] = "close" /\ i[c] \in 1 .. NumProcs
        /\ \/ pc'[c] = "close" /\ i'[c] = i[c] + 1
           \/ i[c] = NumProcs
    BY <1>1, <1>7 DEF CloseInputs, PipeInv, ChildInv, WriterInv
  <2>3. \A t \in Id : inputs(t, "WR") \in open'[c] => inputs(t, "WR") \in open[c] /\ t # i[c]
    BY <1>1, <1>7 DEF CloseInputs, Close
  <2>4. \A t \in Id : inputs(t, "WR") \in open'[c] => t >= i[c] /\ t # i[c]
    BY <1>1, <2>2, <2>3 DEF ChildHolds
  <2>5. \A t \in Id : ChildHolds(c, t)'
    BY <1>1, <2>2, <2>4 DEF ChildHolds, Id
  <2> QED BY <2>1, <2>5, OthersHold
<1> QED BY <1>2, <1>3, <1>4, <1>5, <1>6, <1>7 DEF child

LEMMA HolderStep == PipeInv /\ HolderInv /\ [Next]_vars => HolderInv'
<1>1. ASSUME HolderInv, UNCHANGED vars
      PROVE  HolderInv'
  BY <1>1 DEF vars, childVars, HolderInv, MainHolds, ChildHolds
<1> QED BY <1>1, MainHolderStep, ChildHolderStep DEF Next

\* A writer waits only for a reader that is there and can read; main()'s and the
\* writers' ends of the inputs are closed when all is sent, which lets the readers end.
LEMMA ForkMoves == PipeInv /\ HolderInv => ForkRuns
<1> SUFFICES ASSUME PipeInv, HolderInv, ~ReaderMissing, ~ForkMainRuns,
                    \A c \in Child : ~ChildRuns(c)
             PROVE  Over
  BY DEF ForkRuns
<1>1. mainPc \in {"wait", "done", "failed"}
  <2>1. mainPc \in {"wait", "read", "done", "failed"}
    BY DEF ForkMainRuns, PipeInv, TypeOK, MainInv
  <2>2. ASSUME mainPc = "read"
        PROVE  FALSE
    <3>1. mainI \in Id /\ ~(mainI < mainI) /\ pc[ReaderOf(mainI)] = "exit"
      BY <2>2, Ids DEF PipeInv, TypeOK, MainInv, Id
    <3>2. result[mainI] = 1
      BY <3>1 DEF PipeInv, ResultInv
    <3> QED BY <2>2, <3>2 DEF ForkMainRuns
  <2> QED BY <2>1, <2>2
<1>2. /\ \A c \in Reader : c \in Child /\ pc[c] \in {"unborn", "loop", "exit"}
      /\ \A c \in Writer : c \in Child /\ pc[c] \in {"unborn", "loop", "exit"}
  BY Ids DEF ChildRuns, PipeInv, ChildInv, WriterInv, ReaderInv
<1>3. \A c \in Writer : pc[c] # "loop"
  <2> SUFFICES ASSUME NEW c \in Writer, pc[c] = "loop"
               PROVE  FALSE
    OBVIOUS
  <2>1. PICK t \in Id : ~(Len(data[t]) < Capacity)
    BY <1>2 DEF ChildRuns
  <2>2. data[t] # <<>>
    BY <2>1, EmptySeq, PipeAssumption
  <2>3. ReaderOf(t) \in Reader /\ ThreadId(ReaderOf(t)) = t
    BY Ids
  <2>4. pc[ReaderOf(t)] # "unborn"
    BY <1>1, <1>2, <2>3 DEF ReaderMissing, PipeInv, MainInv
  <2>5. pc[ReaderOf(t)] # "exit"
    BY <2>2 DEF PipeInv, FinishInv
  <2> QED BY <1>2, <2>2, <2>3, <2>4, <2>5 DEF ChildRuns
<1>4. \A t \in Id : ~Held(inputs(t, "WR"))
  <2>1. ASSUME NEW t \in Id
        PROVE  inputs(t, "WR") \notin open[main] /\ \A c \in Child : inputs(t, "WR") \notin open[c]
    BY <1>1, <1>2, <1>3, Ids DEF HolderInv, MainHolds, ChildHolds
  <2> QED BY <2>1 DEF Held, Proc
<1>5. \A c \in Child : pc[c] = "unborn" \/ pc[c] = "exit"
  BY <1>2, <1>3, <1>4, Ids DEF ChildRuns
<1>6. mainPc # "wait"
  <2> SUFFICES ASSUME mainPc = "wait"
               PROVE  FALSE
    OBVIOUS
  <2>1. {c \in Child : Ended(c)} = Child
    BY <1>5 DEF PipeInv, MainInv, Ended
  <2>2. Cardinality(Child) = 2 * NumProcs /\ mainI \in Nat /\ mainI <= 2 * NumProcs
    BY FS_Interval, PipeAssumption DEF Child, PipeInv, TypeOK, MainInv
  <2> QED BY <2>1, <2>2 DEF ForkMainRuns
<1> QED BY <1>1, <1>5, <1>6 DEF Over, Ended

LEMMA ForkRanksBounded == PipeInv => ForkRanksEnd
<1> SUFFICES ASSUME PipeInv PROVE ForkRanksEnd
  OBVIOUS
<1>1. NumProcs \in Nat \ {0} /\ MaxLoop \in Nat \ {0} /\ Capacity \in Nat \ {0}
  BY PipeAssumption
<1>2. ForkMainRank \in 0 .. 6 * NumProcs
  <2>1. /\ mainPc \in {"fork", "close", "wait", "read", "done", "failed", "noOutput"}
        /\ mainI \in 1 .. 2 * NumProcs + 1
        /\ mainPc \in {"fork", "wait"} => mainI <= 2 * NumProcs
        /\ mainPc \in {"close", "read"} => mainI <= NumProcs
    BY DEF PipeInv, TypeOK, MainInv
  <2>2. CASE mainPc \in {"fork", "close", "wait"}
    BY <1>1, <2>1, <2>2 DEF ForkMainRank
  <2>3. CASE mainPc \in {"read", "done", "failed", "noOutput"}
    BY <1>1, <2>1, <2>3 DEF ForkMainRank
  <2> QED BY <2>1, <2>2, <2>3
<1>3. ASSUME NEW c \in Child
      PROVE  ChildRank(c) \in 0 .. 2 * NumProcs + MaxLoop + 4
  <2>1. /\ pc[c] \in {"unborn", "unused", "loop", "return", "close", "exit"}
        /\ pc[c] = "unused" => i[c] \in 1 .. NumProcs
    BY Ids DEF PipeInv, ChildInv, WriterInv, ReaderInv
  <2>2. c \in Writer => /\ pc[c] = "close" => i[c] \in 1 .. NumProcs
                        /\ pc[c] = "loop" => i[c] \in 0 .. MaxLoop
    BY DEF PipeInv, ChildInv, WriterInv
  <2> QED BY <1>1, <2>1, <2>2 DEF ChildRank
<1>4. \A t \in Id : Len(data[t]) \in 0 .. Capacity
  BY <1>1, LenProperties DEF PipeInv, TypeOK
<1> QED BY <1>2, <1>3, <1>4 DEF ForkRanksEnd

\* main(): each of its loops is over before the next begins.
LEMMA ForkMainAdvances ==
  ASSUME PipeInv, ForkRanksEnd, ForkRanksEnd', mainStep
  PROVE  ForkAdvance
<1>1. /\ NumProcs \in Nat \ {0} /\ MaxLoop \in Nat /\ mainI \in 1 .. 2 * NumProcs + 1
      /\ pc \in [Child -> {"unborn", "unused", "loop", "return", "close", "killed", "exit"}]
      /\ mainPc \in {"fork", "wait"} => mainI <= 2 * NumProcs
      /\ mainPc \in {"close", "read"} => mainI <= NumProcs
  BY PipeAssumption DEF PipeInv, TypeOK, MainInv
<1>2. ForkMainRank' > ForkMainRank
  <2>1. CASE Fork
    BY <1>1, <2>1 DEF Fork, ForkMainRank
  <2>2. CASE ForkFails
    BY <1>1, <2>2 DEF ForkFails, ForkMainRank
  <2>3. CASE MainCloses
    BY <1>1, <2>3 DEF MainCloses, ForkMainRank
  <2>4. CASE WaitChild
    BY <1>1, <2>4 DEF WaitChild, ForkMainRank
  <2>5. CASE ReadResult
    BY <1>1, <2>5 DEF ReadResult, ForkMainRank
  <2>6. CASE PrintSignature
    BY <1>1, <2>6 DEF PrintSignature, ForkMainRank
  <2> QED BY <2>1, <2>2, <2>3, <2>4, <2>5, <2>6 DEF mainStep
<1>3. ASSUME NEW c \in Child
      PROVE  ChildRank(c)' >= ChildRank(c)
  <2>1. ChildRank(c) \in Nat /\ ChildRank(c)' \in Nat
    BY <1>1 DEF ForkRanksEnd
  <2>2. i'[c] = i[c] /\ (pc'[c] = pc[c] \/ pc[c] = "unborn")
    BY <1>1 DEF mainStep, Fork, ForkFails, MainCloses, WaitChild, ReadResult, PrintSignature,
       Goto, childVars, PipeInv, MainInv
  <2>3. CASE pc[c] = "unborn"
    BY <2>1, <2>3 DEF ChildRank
  <2>4. CASE pc'[c] = pc[c]
    BY <2>1, <2>2, <2>4 DEF ChildRank
  <2> QED BY <2>2, <2>3, <2>4
<1>4. ForkMainRank \in Nat /\ ForkMainRank' \in Nat
  BY <1>1 DEF ForkRanksEnd
<1> QED BY <1>2, <1>3, <1>4 DEF ForkAdvance

\* A step of a child takes that child further, or empties its pipe.
LEMMA ForkChildAdvances ==
  ASSUME PipeInv, ForkRanksEnd, ForkRanksEnd', NEW c \in Child, child(c)
  PROVE  ForkAdvance
<1> DEFINE Still(d) == pc'[d] = pc[d] /\ i'[d] = i[d]
<1>1. /\ NumProcs \in Nat \ {0} /\ MaxLoop \in Nat \ {0}
      /\ pc \in [Child -> {"unborn", "unused", "loop", "return", "close", "killed", "exit"}]
      /\ i \in [Child -> 0 .. NumProcs + MaxLoop]
      /\ c \in Reader \/ c \in Writer
      /\ \A d \in Writer : d \notin Reader
  BY PipeAssumption, Ids DEF PipeInv, TypeOK
<1>2. UNCHANGED <<mainPc, mainI>> /\ \A d \in Child : d # c => Still(d)
  <2>1. CASE CloseUnused(c) \/ LeaveLoop(c) \/ CloseInputs(c)
    BY <1>1, <2>1 DEF CloseUnused, LeaveLoop, CloseInputs, Goto
  <2>2. CASE Read(c) \/ ReadEnd(c) \/ WriteResult(c) \/ ReaderExit(c)
    BY <1>1, <2>2 DEF Read, ReadEnd, WriteResult, ReaderExit, Goto
  <2>3. ASSUME NEW target \in Id, Write(c, target)
        PROVE  UNCHANGED <<mainPc, mainI>> /\ \A d \in Child : d # c => Still(d)
    BY <1>1, <2>3, Writes
  <2> QED BY <2>1, <2>2, <2>3 DEF child
<1>3. ForkMainRank' = ForkMainRank
  BY <1>2 DEF ForkMainRank
<1>4. ASSUME NEW d \in Child, Still(d)
      PROVE  ChildRank(d)' = ChildRank(d)
  BY <1>4 DEF ChildRank
<1>5. (ChildRank(c)' = ChildRank(c) /\ SomePipeEmpties) \/ ChildRank(c)' > ChildRank(c)
  <2>1. CASE CloseUnused(c)
    <3>1. /\ pc[c] = "unused" /\ i[c] \in 1 .. NumProcs
          /\ \/ pc'[c] = "unused" /\ i'[c] = i[c] + 1
             \/ pc'[c] = "loop" /\ i'[c] = 0
      BY <1>1, <2>1 DEF CloseUnused, Goto, PipeInv, ChildInv, WriterInv, ReaderInv
    <3> QED BY <1>1, <3>1 DEF ChildRank
  <2>2. CASE Read(c)
    <3>1. SomePipeEmpties
      BY <2>2, Reads, ReadEmpties DEF PipeInv, DataInv
    <3>2. Still(c)
      BY <2>2 DEF Read
    <3> QED BY <1>4, <3>1, <3>2
  <2>3. CASE ReadEnd(c)
    BY <1>1, <2>3 DEF ReadEnd, Goto, ChildRank
  <2>4. CASE WriteResult(c)
    BY <1>1, <2>4 DEF WriteResult, Goto, ChildRank
  <2>5. CASE ReaderExit(c)
    BY <1>1, <2>5 DEF ReaderExit, Goto, ChildRank
  <2>6. ASSUME NEW target \in Id, Write(c, target)
        PROVE  ChildRank(c)' > ChildRank(c)
    <3>1. /\ c \in Writer /\ pc[c] = "loop" /\ pc'[c] = "loop"
          /\ i[c] \in Nat /\ i'[c] = i[c] + 1
      BY <1>1, <2>6, Writes
    <3> QED BY <1>1, <3>1 DEF ChildRank
  <2>7. CASE LeaveLoop(c)
    BY <1>1, <2>7 DEF LeaveLoop, Goto, ChildRank
  <2>8. CASE CloseInputs(c)
    <3>1. /\ c \in Writer /\ pc[c] = "close" /\ i[c] \in 1 .. NumProcs
          /\ \/ pc'[c] = "close" /\ i'[c] = i[c] + 1
             \/ pc'[c] = "exit"
      BY <1>1, <2>8 DEF CloseInputs, Goto, PipeInv, ChildInv, WriterInv
    <3> QED BY <1>1, <3>1 DEF ChildRank
  <2> QED BY <2>1, <2>2, <2>3, <2>4, <2>5, <2>6, <2>7, <2>8 DEF child
<1>6. /\ ForkMainRank \in Nat
      /\ \A d \in Child : ChildRank(d) \in Nat /\ ChildRank(d)' \in Nat
  BY <1>1 DEF ForkRanksEnd
<1>7. \A d \in Child : ChildRank(d)' >= ChildRank(d)
  BY <1>2, <1>4, <1>5, <1>6
<1> QED BY <1>3, <1>5, <1>6, <1>7 DEF ForkAdvance

LEMMA HolderInvariant == Spec => [](PipeInv /\ HolderInv)
  BY PipeInvariant, HolderInit, HolderStep, PTL DEF Spec

\* racey-forkpipe.c never deadlocks, although a reader waits for every process to
\* close its input: until all is over somebody is not held up by a pipe or a wait(),
\* whichever readers the messages are for, unless a failed fork left a reader out.
THEOREM ForkNeverStuck == Spec => []ForkRuns
  BY HolderInvariant, ForkMoves, PTL

\* Every step of racey-forkpipe.c takes a child or main() further, or a message out
\* of a pipe, and no process back: with ForkNeverStuck, why the program ends.
THEOREM ForkAdvances == Spec => []ForkRanksEnd /\ [][ForkAdvance]_vars
<1>1. PipeInv /\ ForkRanksEnd /\ ForkRanksEnd' /\ [Next]_vars => [ForkAdvance]_vars
  BY ForkMainAdvances, ForkChildAdvances DEF Next
<1> QED BY <1>1, PipeInvariant, ForkRanksBounded, PTL DEF Spec
=============================================================================
