-------------------------- MODULE ConnectionProofs --------------------------
(***************************************************************************)
(* Proofs about the connections between a switch and its controllers.      *)
(*                                                                         *)
(* First the socket handlers of ns-3, for any number of messages of any    *)
(* sizes: the handlers implement the channel of MessageChannel, as far as  *)
(* its safety goes.  The bytes under way -- in the message in the making,  *)
(* in the receiver's buffer, in the sockets -- are one stream: the bytes   *)
(* of whole messages, one after the other, from the message after the last *)
(* one delivered.  The messages that wait in m_txQueue follow it.  Every   *)
(* step moves bytes along the stream, adds a message at its end or takes   *)
(* one off its front.                                                      *)
(*                                                                         *)
(* Then the reliable connection of the library, for any intervals, sizes   *)
(* and peer: what the caller handed in since the connection stood is in    *)
(* the stream and in the queue, in order.  This needs to know that a       *)
(* HELLO goes out before anything else, that there is a stream except in   *)
(* VOID and BACKOFF, and that in BACKOFF nothing is queued.                *)
(***************************************************************************)
EXTENDS SocketHandler, Rconn, ListLemmas, TLAPS

-----------------------------------------------------------------------------
(* The stream of bytes *)

NumMessages == Len(Sizes)

\* The bytes of the first n messages.
BytesUpTo(n) == UNION {{<<i, k>> : k \in 1..Sizes[i]} : i \in 1..n}

\* The byte after b.
Successor(b) == IF b[2] < Sizes[b[1]] THEN <<b[1], b[2] + 1>> ELSE <<b[1] + 1, 1>>

\* Bytes of messages up to the last, one after the other, from the message after d.
Stream(q, d, last) ==
  /\ q \in Seq(BytesUpTo(last))
  /\ q # <<>> => q[1] = <<d + 1, 1>>
  /\ \A p \in 1..(Len(q) - 1) : q[p + 1] = Successor(q[p])

\* The stream goes to the end of the last message.
Complete(q, d, last) == IF q = <<>> THEN d = last ELSE q[Len(q)] = <<last, Sizes[last]>>

\* Every message has a size between that of a header and that of the buffer.
LEMMA SizesType ==
  /\ HeaderSize \in Nat \ {0} /\ BufferSize \in Nat /\ NumMessages \in Nat /\ DOMAIN Sizes = 1..NumMessages
  /\ \A i \in 1..NumMessages : Sizes[i] \in Nat /\ HeaderSize <= Sizes[i] /\ Sizes[i] <= BufferSize
<1>1. Sizes \in Seq(HeaderSize .. BufferSize) /\ HeaderSize \in Nat \ {0} /\ BufferSize \in Nat
  BY SocketAssumption
<1>2. NumMessages \in Nat /\ DOMAIN Sizes = 1..NumMessages BY <1>1 DEF NumMessages
<1>3. \A i \in 1..NumMessages : Sizes[i] \in HeaderSize .. BufferSize BY <1>1 DEF NumMessages
<1>4. QED BY <1>1, <1>2, <1>3

\* Message i is the sequence of its Sizes[i] bytes.
LEMMA BytesType ==
  ASSUME NEW i \in 1..NumMessages
  PROVE  /\ Len(Bytes(i)) = Sizes[i] /\ \A k \in 1..Sizes[i] : Bytes(i)[k] = <<i, k>>
         /\ \A n \in Nat : i <= n => Bytes(i) \in Seq(BytesUpTo(n))
<1>1. Sizes[i] \in Nat BY SizesType
<1>2. ASSUME NEW n \in Nat, i <= n PROVE Bytes(i) \in Seq(BytesUpTo(n))
  <2>1. i \in 1..n BY <1>2, SizesType
  <2>2. \A k \in 1..Sizes[i] : <<i, k>> \in BytesUpTo(n) BY <2>1 DEF BytesUpTo
  <2>3. Bytes(i) \in [1..Sizes[i] -> BytesUpTo(n)] BY <2>2 DEF Bytes
  <2>4. QED BY <1>1, <2>3
<1>3. Bytes(i) \in [1..Sizes[i] -> {<<i, k>> : k \in 1..Sizes[i]}] BY DEF Bytes
<1>4. Bytes(i) \in Seq({<<i, k>> : k \in 1..Sizes[i]}) BY <1>1, <1>3
<1>5. DOMAIN Bytes(i) = 1..Sizes[i] BY DEF Bytes
<1>6. Len(Bytes(i)) = Sizes[i] BY <1>1, <1>4, <1>5
<1>7. QED BY <1>2, <1>6 DEF Bytes

\* A byte is a pair of a message and a place in it.
LEMMA ByteType ==
  ASSUME NEW n \in 0..NumMessages, NEW b \in BytesUpTo(n)
  PROVE  /\ b = <<b[1], b[2]>> /\ b[1] \in 1..n /\ b[1] \in 1..NumMessages /\ b[2] \in 1..Sizes[b[1]] /\ Sizes[b[1]] \in Nat
<1>1. PICK i \in 1..n : b \in {<<i, k>> : k \in 1..Sizes[i]} BY DEF BytesUpTo
<1>2. PICK k \in 1..Sizes[i] : b = <<i, k>> BY <1>1
<1>3. i \in 1..NumMessages BY SizesType
<1>4. QED BY <1>1, <1>2, <1>3, SizesType

\* The bytes of more messages.
LEMMA MoreBytes ==
  ASSUME NEW m \in Nat, NEW n \in Nat, m <= n
  PROVE  BytesUpTo(m) \subseteq BytesUpTo(n)
<1>1. 1..m \subseteq 1..n OBVIOUS
<1>2. QED BY <1>1 DEF BytesUpTo

\* A stream begins with the bytes of a message.
LEMMA FirstBytes ==
  ASSUME NEW last \in 0..NumMessages, NEW d \in Nat, NEW q, Stream(q, d, last), q # <<>>
  PROVE  /\ d + 1 \in 1..last /\ d + 1 \in 1..NumMessages /\ Len(q) \in Nat \ {0}
         /\ \A k \in 1..Len(q) : k <= Sizes[d + 1] => q[k] = <<d + 1, k>>
<1>1. Len(q) \in Nat \ {0} /\ \A k \in 1..Len(q) : q[k] \in BytesUpTo(last) BY DEF Stream
<1>2. q[1] = <<d + 1, 1>> BY DEF Stream
<1>3. d + 1 \in 1..last /\ d + 1 \in 1..NumMessages BY <1>1, <1>2, ByteType
<1>4. Sizes[d + 1] \in Nat BY <1>3, SizesType
<1> DEFINE K == {k \in 1..Len(q) : k <= Sizes[d + 1] /\ q[k] # <<d + 1, k>>}
<1>5. K = {}
  <2>1. SUFFICES ASSUME NEW x \in K PROVE FALSE OBVIOUS
  <2>2. K \in SUBSET Nat OBVIOUS
  <2>3. PICK m \in K : \A k \in K : m <= k
    <3> HIDE DEF K
    <3>1. QED BY <2>1, <2>2, LeastExists
  <2>4. m # 1 /\ m \in 1..Len(q) /\ m <= Sizes[d + 1] BY <1>2, <2>3
  <2>5. m - 1 \in 1..(Len(q) - 1) /\ m - 1 \notin K /\ m - 1 \in 1..Len(q) /\ m - 1 < Sizes[d + 1]
    BY <1>1, <1>4, <2>3, <2>4
  <2>6. q[m - 1] = <<d + 1, m - 1>>
    <3> DEFINE n == m - 1
    <3>1. n \notin K /\ n \in 1..Len(q) /\ n < Sizes[d + 1] BY <2>5
    <3> HIDE DEF n
    <3>2. q[n] = <<d + 1, n>> BY <3>1, <1>4
    <3>3. QED BY <3>2 DEF n
  <2>7. q[(m - 1) + 1] = Successor(q[m - 1]) BY <2>5 DEF Stream
  <2>8. (m - 1) + 1 = m BY <2>4
  <2>9. q[m] = <<d + 1, m>> BY <2>5, <2>6, <2>7, <2>8 DEF Successor
  <2>10. QED BY <2>3, <2>9
<1>6. QED BY <1>1, <1>3, <1>5

\* What Stream says of the type of the sequence.
LEMMA StreamType ==
  ASSUME NEW last \in 0..NumMessages, NEW d \in Nat, NEW q, Stream(q, d, last)
  PROVE  /\ q \in Seq(BytesUpTo(last)) /\ Len(q) \in Nat /\ (q = <<>> <=> Len(q) = 0)
         /\ \A p \in 1..Len(q) : q[p] \in BytesUpTo(last)
BY DEF Stream

\* A stream of messages up to m is one of messages up to a later n.
LEMMA MoreStream ==
  ASSUME NEW m \in 0..NumMessages, NEW n \in 0..NumMessages, m <= n, NEW d \in Nat, NEW q, Stream(q, d, m)
  PROVE  Stream(q, d, n)
<1>1. BytesUpTo(m) \subseteq BytesUpTo(n) BY SizesType, MoreBytes
<1>2. q \in Seq(BytesUpTo(n)) BY <1>1, SeqMonotonic DEF Stream
<1>3. QED BY <1>2 DEF Stream

\* The next message follows.
LEMMA AppendToStream ==
  ASSUME NEW last \in 0..NumMessages, last + 1 <= NumMessages, NEW d \in 0..last,
         NEW q, Stream(q, d, last), Complete(q, d, last)
  PROVE  Stream(q \o Bytes(last + 1), d, last + 1) /\ Complete(q \o Bytes(last + 1), d, last + 1)
<1> DEFINE n == last + 1
           B == Bytes(n)
           v == q \o B
           S == BytesUpTo(n)
<1>1. n \in 1..NumMessages /\ n \in 0..NumMessages /\ NumMessages \in Nat BY SizesType
<1>2. Sizes[n] \in Nat \ {0} BY <1>1, SizesType
<1>3. B \in Seq(S) /\ Len(B) = Sizes[n] /\ \A k \in 1..Sizes[n] : B[k] = <<n, k>> BY <1>1, BytesType
<1>4. q \in Seq(S) BY <1>1, MoreStream DEF Stream
<1>5. Len(q) \in Nat /\ (q = <<>> <=> Len(q) = 0) BY <1>4
<1> HIDE DEF B, S
<1>6. v \in Seq(S) /\ Len(v) = Len(q) + Sizes[n]
  <2>1. v \in Seq(S) /\ Len(v) = Len(q) + Len(B) BY <1>3, <1>4, ConcatProperties
  <2>2. QED BY <1>3, <2>1
<1>7. \A i \in 1..Len(q) : v[i] = q[i] BY <1>3, <1>4
<1>8. \A k \in 1..Sizes[n] : v[Len(q) + k] = <<n, k>>
  <2>1. \A k \in 1..Sizes[n] : v[Len(q) + k] = B[k] BY <1>2, <1>3, <1>4, <1>5
  <2>2. QED BY <1>3, <2>1
<1> HIDE DEF v
<1>9. v # <<>> BY <1>2, <1>5, <1>6
<1>10. v[1] = <<d + 1, 1>>
  <2>1. CASE q = <<>>
    <3>1. d = last /\ Len(q) = 0 BY <1>5, <2>1 DEF Complete
    <3>2. v[Len(q) + 1] = <<n, 1>> BY <1>2, <1>8
    <3>3. QED BY <3>1, <3>2
  <2>2. CASE q # <<>>
    <3>1. 1 \in 1..Len(q) /\ q[1] = <<d + 1, 1>> BY <1>5, <2>2 DEF Stream
    <3>2. QED BY <1>7, <3>1
  <2>3. QED BY <2>1, <2>2
<1>11. ASSUME NEW p \in 1..(Len(v) - 1) PROVE v[p + 1] = Successor(v[p])
  <2>1. CASE p < Len(q)
    <3>1. p \in 1..(Len(q) - 1) /\ p \in 1..Len(q) /\ p + 1 \in 1..Len(q) BY <1>5, <2>1
    <3>2. q[p + 1] = Successor(q[p]) BY <3>1 DEF Stream
    <3>3. QED BY <1>7, <3>1, <3>2
  <2>2. CASE p = Len(q)
    <3>1. q # <<>> /\ p \in 1..Len(q) BY <1>5, <2>2
    <3>2. v[p] = <<last, Sizes[last]>> BY <1>7, <2>2, <3>1 DEF Complete
    <3>3. v[p + 1] = <<n, 1>> BY <1>2, <1>8, <2>2
    <3>4. last \in Nat BY SizesType
    <3>5. q[p] \in BytesUpTo(last) /\ last \in 0..NumMessages BY <3>1, StreamType
    <3>6. q[p][1] = last BY <1>7, <3>1, <3>2
    <3>7. Sizes[last] \in Nat BY <3>5, <3>6, ByteType
    <3>8. QED BY <3>2, <3>3, <3>7 DEF Successor
  <2>3. CASE p > Len(q)
    <3> DEFINE k == p - Len(q)
    <3>1. k \in 1..Sizes[n] /\ k + 1 \in 1..Sizes[n] /\ Len(q) + k = p /\ Len(q) + (k + 1) = p + 1 /\ k < Sizes[n]
      BY <1>2, <1>5, <1>6, <2>3
    <3> HIDE DEF k
    <3>2. v[p] = <<n, k>> /\ v[p + 1] = <<n, k + 1>> BY <1>8, <3>1
    <3>3. QED BY <3>1, <3>2 DEF Successor
  <2>4. QED BY <1>5, <2>1, <2>2, <2>3
<1>12. Stream(v, d, n) BY <1>6, <1>10, <1>11 DEF Stream, S
<1>13. v[Len(v)] = <<n, Sizes[n]>> BY <1>2, <1>6, <1>8
<1>14. QED BY <1>9, <1>12, <1>13 DEF Complete, v, B

\* A stream that is cut short is one.
LEMMA PrefixOfStream ==
  ASSUME NEW last \in 0..NumMessages, NEW d \in Nat, NEW S, NEW q \in Seq(S), NEW t \in Seq(S),
         Stream(q \o t, d, last)
  PROVE  Stream(q, d, last)
<1> DEFINE v == q \o t
<1>1. Len(q) \in Nat /\ Len(t) \in Nat /\ Len(v) = Len(q) + Len(t) /\ \A i \in 1..Len(q) : v[i] = q[i]
  OBVIOUS
<1> HIDE DEF v
<1>2. Stream(v, d, last) BY DEF v
<1>3. \A i \in 1..Len(q) : q[i] \in BytesUpTo(last) BY <1>1, <1>2, StreamType
<1>4. q \in Seq(BytesUpTo(last))
  <2>1. q \in [1..Len(q) -> S] BY LenProperties
  <2>2. q \in [1..Len(q) -> BytesUpTo(last)] BY <1>3, <2>1
  <2>3. QED BY <1>1, <2>2
<1>5. q # <<>> => q[1] = <<d + 1, 1>>
  <2>1. q # <<>> => 1 \in 1..Len(q) /\ Len(v) # 0 BY <1>1, EmptySeq
  <2>2. q # <<>> => v # <<>> BY <1>2, <2>1, StreamType
  <2>3. QED BY <1>1, <1>2, <2>1, <2>2 DEF Stream
<1>6. ASSUME NEW p \in 1..(Len(q) - 1) PROVE q[p + 1] = Successor(q[p])
  <2>1. p \in 1..(Len(v) - 1) /\ p \in 1..Len(q) /\ p + 1 \in 1..Len(q) BY <1>1
  <2>2. QED BY <1>1, <1>2, <2>1 DEF Stream
<1>7. QED BY <1>4, <1>5, <1>6 DEF Stream

\* The first message is taken off.
LEMMA RestOfStream ==
  ASSUME NEW last \in 0..NumMessages, NEW d \in Nat, NEW q, Stream(q, d, last), q # <<>>,
         Sizes[d + 1] <= Len(q),
         NEW S, NEW v \in Seq(S), Len(v) = Len(q) - Sizes[d + 1],
         \A i \in 1..Len(v) : v[i] = q[Sizes[d + 1] + i]
  PROVE  Stream(v, d + 1, last) /\ (Complete(q, d, last) => Complete(v, d + 1, last))
<1> DEFINE z == Sizes[d + 1]
<1>1. /\ d + 1 \in 1..last /\ d + 1 \in 1..NumMessages /\ Len(q) \in Nat \ {0}
      /\ \A k \in 1..Len(q) : k <= z => q[k] = <<d + 1, k>>
  BY FirstBytes
<1>2. z \in Nat \ {0} BY <1>1, SizesType
<1>3. q[z] = <<d + 1, z>> BY <1>1, <1>2
<1> HIDE DEF z
<1>4. Len(v) = Len(q) - z /\ Len(v) \in Nat /\ (v = <<>> <=> Len(v) = 0) /\ \A i \in 1..Len(v) : v[i] = q[z + i]
  BY EmptySeq DEF z
<1>5. v \in Seq(BytesUpTo(last))
  <2>1. \A i \in 1..Len(v) : z + i \in 1..Len(q) BY <1>1, <1>2, <1>4
  <2>2. \A i \in 1..Len(v) : v[i] \in BytesUpTo(last) BY <1>4, <2>1, StreamType
  <2>3. v \in [1..Len(v) -> S] BY LenProperties
  <2>4. v \in [1..Len(v) -> BytesUpTo(last)] BY <2>2, <2>3
  <2>5. QED BY <1>4, <2>4
<1>6. v # <<>> => v[1] = <<(d + 1) + 1, 1>>
  <2>1. SUFFICES ASSUME v # <<>> PROVE v[1] = <<(d + 1) + 1, 1>> OBVIOUS
  <2>2. 1 \in 1..Len(v) /\ z \in 1..(Len(q) - 1) BY <1>1, <1>2, <1>4, <2>1
  <2>3. v[1] = q[z + 1] /\ q[z + 1] = Successor(q[z]) BY <1>4, <2>2 DEF Stream
  <2>4. Successor(<<d + 1, z>>) = <<(d + 1) + 1, 1>> BY <1>2 DEF Successor, z
  <2>5. QED BY <1>3, <2>3, <2>4
<1>7. ASSUME NEW p \in 1..(Len(v) - 1) PROVE v[p + 1] = Successor(v[p])
  <2>1. z + p \in 1..(Len(q) - 1) /\ p \in 1..Len(v) /\ p + 1 \in 1..Len(v) /\ z + (p + 1) = (z + p) + 1
    BY <1>1, <1>2, <1>4
  <2>2. v[p + 1] = q[(z + p) + 1] /\ v[p] = q[z + p] BY <1>4, <2>1
  <2>3. q[(z + p) + 1] = Successor(q[z + p]) BY <2>1 DEF Stream
  <2>4. QED BY <2>2, <2>3
<1>8. ASSUME Complete(q, d, last) PROVE Complete(v, d + 1, last)
  <2>1. q[Len(q)] = <<last, Sizes[last]>> BY <1>8 DEF Complete
  <2>2. CASE v = <<>>
    <3>1. Len(q) = z BY <1>1, <1>2, <1>4, <2>2
    <3>2. d + 1 = last BY <1>3, <2>1, <3>1
    <3>3. QED BY <2>2, <3>2 DEF Complete
  <2>3. CASE v # <<>>
    <3>1. Len(v) \in 1..Len(v) /\ z + Len(v) = Len(q) BY <1>1, <1>2, <1>4, <2>3
    <3>2. v[Len(v)] = q[Len(q)] BY <1>4, <3>1
    <3>3. QED BY <2>1, <2>3, <3>2 DEF Complete
  <2>4. QED BY <2>2, <2>3
<1>9. Stream(v, d + 1, last) BY <1>5, <1>6, <1>7 DEF Stream
<1>10. QED BY <1>8, <1>9

-----------------------------------------------------------------------------
(* The invariant *)

Byte == Nat \X Nat
Rx == [buffer : Seq(Byte), pendingPacket : Seq(Byte), pendingBytes : Nat, delivered : Seq(Seq(Byte))]

\* The messages that wait are the last ones handed over.
QueueAgrees(queue, n) ==
  /\ queue \in Seq(Nat) /\ Len(queue) <= n
  /\ \A k \in 1..Len(queue) : queue[k] = n - Len(queue) + k

\* The bytes that are under way, a message in the making first.
UnderWay(r, tx) == r.pendingPacket \o (r.buffer \o tx)

RxAgrees(r, tx, last) ==
  /\ r \in Rx
  /\ Len(r.delivered) <= last
  /\ \A i \in 1..Len(r.delivered) : r.delivered[i] = Bytes(i)
  /\ Stream(UnderWay(r, tx), Len(r.delivered), last)
  /\ connected => Complete(UnderWay(r, tx), Len(r.delivered), last)
  /\ r.pendingBytes = 0 => r.pendingPacket = <<>>
  /\ r.pendingBytes > 0 =>
       r.pendingPacket # <<>> /\ Len(r.pendingPacket) + r.pendingBytes = Sizes[Len(r.delivered) + 1]

SocketAgrees ==
  /\ handed \in 0..NumMessages
  /\ QueueAgrees(m_txQueue, handed)
  /\ txBuffer \in Seq(Byte) /\ (~connected => txBuffer = <<>>)
  /\ RxAgrees(rx, txBuffer, handed - Len(m_txQueue))

-----------------------------------------------------------------------------
(* The sender *)

\* The states of the loop of Send when the receiver has the bytes "front" of the
\* messages after d.
SendStates(n, front, d) ==
  {s \in [queue : Seq(Nat), buffer : Seq(Byte)] :
     /\ QueueAgrees(s.queue, n) /\ d <= n - Len(s.queue)
     /\ Stream(front \o s.buffer, d, n - Len(s.queue))
     /\ connected => Complete(front \o s.buffer, d, n - Len(s.queue))
     /\ ~connected => s.buffer = <<>>}

\* Bytes of the stream are pairs of numbers.
LEMMA BytesAreBytes ==
  /\ \A n \in 0..NumMessages : BytesUpTo(n) \subseteq Byte
  /\ \A i \in 1..NumMessages : Bytes(i) \in Seq(Byte)
<1>1. ASSUME NEW n \in 0..NumMessages PROVE BytesUpTo(n) \subseteq Byte
  <2>1. SUFFICES ASSUME NEW b \in BytesUpTo(n) PROVE b \in Byte OBVIOUS
  <2>2. b = <<b[1], b[2]>> /\ b[1] \in Nat /\ b[2] \in Nat BY ByteType
  <2>3. QED BY <2>2 DEF Byte
<1>2. ASSUME NEW i \in 1..NumMessages PROVE Bytes(i) \in Seq(Byte)
  <2>1. i \in 0..NumMessages /\ i \in Nat BY SizesType
  <2>2. Bytes(i) \in Seq(BytesUpTo(i)) /\ BytesUpTo(i) \subseteq Byte BY <1>1, <2>1, BytesType
  <2>3. QED BY <2>2, SeqMonotonic
<1>3. QED BY <1>1, <1>2

\* A turn of the loop of Send moves the first message that waits to the end of
\* the stream, leaves it where it is, or, without a connection, drops it.
LEMMA SendTurnKeeps ==
  ASSUME NEW n \in 0..NumMessages, NEW front \in Seq(Byte), NEW d \in Nat,
         NEW s \in SendStates(n, front, d)
  PROVE  SendTurn(s) \in SendStates(n, front, d)
<1> DEFINE last == n - Len(s.queue)
           t == Tail(s.queue)
<1>1. /\ s \in [queue : Seq(Nat), buffer : Seq(Byte)]
      /\ s.queue \in Seq(Nat) /\ s.buffer \in Seq(Byte)
      /\ QueueAgrees(s.queue, n) /\ d <= last
      /\ Stream(front \o s.buffer, d, last)
      /\ connected => Complete(front \o s.buffer, d, last)
      /\ ~connected => s.buffer = <<>>
  BY DEF SendStates
<1>2. n \in Nat /\ NumMessages \in Nat /\ n <= NumMessages BY SizesType
<1>3. CASE SendTurn(s) = s BY <1>3
<1>4. CASE SendTurn(s) # s
  <2> DEFINE packet == Bytes(Head(s.queue))
             b == IF connected THEN s.buffer \o packet ELSE s.buffer
  <2>1. s.queue # <<>> /\ SendTurn(s) = [queue |-> t, buffer |-> b] BY <1>4 DEF SendTurn
  <2>2. /\ t \in Seq(Nat) /\ Len(s.queue) \in Nat \ {0} /\ Len(t) = Len(s.queue) - 1
        /\ \A i \in 1..Len(t) : t[i] = s.queue[i + 1]
    BY <1>1, <2>1
  <2>3. Head(s.queue) = s.queue[1] BY <1>1, <2>1
  <2>4. Len(s.queue) <= n /\ \A k \in 1..Len(s.queue) : s.queue[k] = last + k
    BY <1>1 DEF QueueAgrees
  <2> DEFINE m == Len(s.queue)
  <2>20. last = n - m /\ m \in Nat \ {0} /\ m <= n /\ Len(t) = m - 1 BY <2>2, <2>4
  <2>21. /\ \A i \in 1..Len(t) : t[i] = s.queue[i + 1]
         /\ \A k \in 1..m : s.queue[k] = last + k
    BY <2>2, <2>4
  <2> HIDE DEF last, t, m
  <2>5. /\ last \in 0..NumMessages /\ last + 1 <= NumMessages /\ last + 1 \in 1..NumMessages
        /\ last + 1 = n - Len(t) /\ last \in Nat /\ last + 1 \in 0..NumMessages
    BY <1>2, <2>20
  <2>22. Head(s.queue) = last + 1
    <3>1. 1 \in 1..m BY <2>20
    <3>2. QED BY <2>3, <2>21, <3>1
  <2>6. packet = Bytes(last + 1) /\ packet \in Seq(Byte) BY <2>5, <2>22, BytesAreBytes
  <2>7. QueueAgrees(t, n)
    <3>1. \A i \in 1..Len(t) : i + 1 \in 1..m BY <2>20
    <3>2. \A i \in 1..Len(t) : t[i] = last + (i + 1) BY <2>21, <3>1
    <3>3. Len(t) <= n /\ \A i \in 1..Len(t) : last + (i + 1) = n - Len(t) + i BY <1>2, <2>5, <2>20
    <3>4. QED BY <2>2, <3>2, <3>3 DEF QueueAgrees, t
  <2> HIDE DEF packet
  <2>8. d <= last + 1 /\ d \in 0..last BY <1>1, <2>5, <2>20 DEF m
  <2>23. Stream(front \o s.buffer, d, last) /\ (connected => Complete(front \o s.buffer, d, last))
    BY <1>1 DEF last
  <2>9. CASE connected
    <3>1. b = s.buffer \o packet /\ b \in Seq(Byte) BY <1>1, <2>6, <2>9
    <3> HIDE DEF b
    <3>2. front \o b = (front \o s.buffer) \o packet
      <4>1. front \o (s.buffer \o packet) = (front \o s.buffer) \o packet BY <1>1, <2>6, ConcatAssociative
      <4>2. QED BY <3>1, <4>1
    <3> DEFINE q == front \o s.buffer
    <3>6. Stream(q, d, last) /\ Complete(q, d, last) BY <2>9, <2>23
    <3> HIDE DEF q
    <3>7. Stream(q \o packet, d, last + 1) /\ Complete(q \o packet, d, last + 1)
      BY <2>5, <2>6, <2>8, <3>6, AppendToStream
    <3>3. Stream(front \o b, d, last + 1) /\ Complete(front \o b, d, last + 1)
      BY <3>2, <3>7 DEF q
    <3>4. [queue |-> t, buffer |-> b] \in SendStates(n, front, d)
      BY <2>2, <2>5, <2>7, <2>8, <2>9, <3>1, <3>3 DEF SendStates
    <3>5. QED BY <2>1, <3>4 DEF b
  <2>10. CASE ~connected
    <3>1. b = s.buffer /\ b \in Seq(Byte) /\ b = <<>> BY <1>1, <2>10
    <3> HIDE DEF b
    <3>5. last <= last + 1 BY <2>5
    <3>6. Stream(front \o b, d, last) BY <2>23, <3>1
    <3>2. Stream(front \o b, d, last + 1) BY <2>5, <3>5, <3>6, MoreStream
    <3>3. [queue |-> t, buffer |-> b] \in SendStates(n, front, d)
      BY <2>2, <2>5, <2>7, <2>8, <2>10, <3>1, <3>2 DEF SendStates
    <3>4. QED BY <2>1, <3>3 DEF b
  <2>11. QED BY <2>9, <2>10
<1>5. QED BY <1>3, <1>4

\* So does the loop.
LEMMA SendKeeps ==
  ASSUME NEW n \in 0..NumMessages, NEW front \in Seq(Byte), NEW d \in Nat,
         NEW queue, NEW buffer, [queue |-> queue, buffer |-> buffer] \in SendStates(n, front, d)
  PROVE  Send(queue, buffer) \in SendStates(n, front, d)
<1> DEFINE S == SendStates(n, front, d)
           L == Len(queue)
           x == [queue |-> queue, buffer |-> buffer]
           F == [s \in S |-> SendTurn(s)]
           After == CHOOSE f : f = [k \in 0..L |-> IF k = 0 THEN x ELSE SendTurn(f[k - 1])]
<1>1. L \in Nat
  <2>1. x \in [queue : Seq(Nat), buffer : Seq(Byte)] BY DEF SendStates
  <2>2. queue \in Seq(Nat) BY <2>1
  <2>3. QED BY <2>2
<1>2. x \in S OBVIOUS
<1>3. F \in [S -> S] BY SendTurnKeeps
<1>4. Send(queue, buffer) = After[L] BY DEF Send
<1>13. After = CHOOSE f : f = [k \in 0..L |-> IF k = 0 THEN x ELSE SendTurn(f[k - 1])] OBVIOUS
<1> HIDE DEF S, x, L, After
<1>5. PICK a : a \in [0..L -> S] /\ a[0] = x /\ \A k \in 1..L : a[k] = F[a[k - 1]]
  <2> HIDE DEF F
  <2>1. \E a : IsLoop(a, L, S, x, F) BY <1>1, <1>2, <1>3, LoopExists
  <2>2. QED BY <2>1 DEF IsLoop
<1>6. a = [k \in 0..L |-> IF k = 0 THEN x ELSE SendTurn(a[k - 1])]
  <2>1. \A k \in 1..L : a[k] = SendTurn(a[k - 1])
    <3>1. SUFFICES ASSUME NEW k \in 1..L PROVE a[k] = SendTurn(a[k - 1]) OBVIOUS
    <3>2. a[k - 1] \in S BY <1>1, <1>5
    <3>3. QED BY <1>5, <3>2
  <2>2. \A k \in 0..L : a[k] = IF k = 0 THEN x ELSE SendTurn(a[k - 1])
    <3>1. SUFFICES ASSUME NEW k \in 0..L PROVE a[k] = IF k = 0 THEN x ELSE SendTurn(a[k - 1]) OBVIOUS
    <3>2. CASE k = 0 BY <1>5, <3>2
    <3>3. CASE k # 0
      <4>1. k \in 1..L BY <1>1, <3>3
      <4>2. QED BY <2>1, <3>3, <4>1
    <3>4. QED BY <3>2, <3>3
  <2>3. QED BY <1>5, <2>2
<1>7. After = [k \in 0..L |-> IF k = 0 THEN x ELSE SendTurn(After[k - 1])] BY <1>6, <1>13
<1>8. After[0] = x BY <1>1, <1>7
<1>9. ASSUME NEW k \in 1..L, After[k - 1] \in S PROVE After[k] \in S
  <2>1. k \in 0..L /\ k # 0 BY <1>1
  <2>2. After[k] = SendTurn(After[k - 1]) BY <1>7, <2>1
  <2>3. QED BY <1>9, <2>2, SendTurnKeeps DEF S
<1>10. \A k \in 0..L : After[k] \in S BY <1>1, <1>2, <1>8, <1>9, LoopStays
<1>11. L \in 0..L BY <1>1
<1>12. QED BY <1>4, <1>10, <1>11 DEF S

-----------------------------------------------------------------------------
(* The receiver *)

\* A message is in the making, perhaps with nothing left to read.
Started(r, tx, last) ==
  /\ r \in Rx
  /\ Len(r.delivered) <= last
  /\ \A i \in 1..Len(r.delivered) : r.delivered[i] = Bytes(i)
  /\ Stream(UnderWay(r, tx), Len(r.delivered), last)
  /\ connected => Complete(UnderWay(r, tx), Len(r.delivered), last)
  /\ r.pendingPacket # <<>> /\ Len(r.pendingPacket) + r.pendingBytes = Sizes[Len(r.delivered) + 1]

\* The two ways to put three sequences together; named, so that the provers do
\* not regroup without end.
Associates(a, b, c) == (a \o b) \o c = a \o (b \o c)

\* Sequences of bytes associate.
LEMMA BytesAssociate ==
  ASSUME NEW a \in Seq(Byte), NEW b \in Seq(Byte), NEW c \in Seq(Byte)
  PROVE  Associates(a, b, c)
BY ConcatAssociative DEF Associates

SameBytes(p, x, y, t, b) == (p \o x) \o (y \o t) = p \o (b \o t)

\* The bytes in the middle, b, may be split into x and y and x given to the front.
LEMMA Regroup ==
  ASSUME NEW p \in Seq(Byte), NEW b \in Seq(Byte), NEW t \in Seq(Byte), NEW x \in Seq(Byte), NEW y \in Seq(Byte), x \o y = b
  PROVE  SameBytes(p, x, y, t, b)
<1> DEFINE u == y \o t
<1>1. u \in Seq(Byte) BY ConcatProperties
<1> HIDE DEF u
<1>2. Associates(p, x, u) /\ Associates(x, y, t) BY <1>1, BytesAssociate
<1>3. QED BY <1>2 DEF Associates, SameBytes, u

\* A sequence of bytes is its first n bytes and the rest.
LEMMA CutBuffer ==
  ASSUME NEW b \in Seq(Byte), NEW n \in 0..Len(b)
  PROVE  /\ Len(b) \in Nat /\ SubSeq(b, 1, n) \in Seq(Byte) /\ Len(SubSeq(b, 1, n)) = n
         /\ SubSeq(b, n + 1, Len(b)) \in Seq(Byte) /\ Len(SubSeq(b, n + 1, Len(b))) = Len(b) - n
         /\ SubSeq(b, 1, n) \o SubSeq(b, n + 1, Len(b)) = b
<1> DEFINE x == SubSeq(b, 1, n)
           y == SubSeq(b, n + 1, Len(b))
<1>1. Len(b) \in Nat /\ n \in Int /\ n + 1 \in Int /\ 1 \in Int /\ Len(b) \in Int BY LenProperties
<1>2. \A i \in 1..Len(b) : b[i] \in Byte BY ElementOfSeq
<1>3. x \in Seq(Byte) /\ Len(x) = n
  <2>1. \A i \in 1..n : b[i] \in Byte BY <1>1, <1>2
  <2>2. x \in Seq(Byte) /\ Len(x) = IF 1 <= n THEN n - 1 + 1 ELSE 0 BY <1>1, <2>1, SubSeqProperties
  <2> HIDE DEF x
  <2>3. QED BY <1>1, <2>2
<1>4. y \in Seq(Byte) /\ Len(y) = Len(b) - n
  <2>1. \A i \in (n + 1)..Len(b) : b[i] \in Byte BY <1>1, <1>2
  <2>2. y \in Seq(Byte) /\ Len(y) = IF n + 1 <= Len(b) THEN Len(b) - (n + 1) + 1 ELSE 0
    BY <1>1, <2>1, SubSeqProperties
  <2> HIDE DEF y
  <2>3. QED BY <1>1, <2>2
<1>5. x \o y = b
  <2>1. 1 \in 1..Len(b) + 1 /\ n \in 1 - 1..Len(b) /\ Len(b) \in n..Len(b) BY <1>1
  <2>2. x \o y = SubSeq(b, 1, Len(b)) BY <2>1, ConcatAdjacentSubSeq
  <2>3. QED BY <2>2, SubSeqFull
<1> HIDE DEF x, y
<1>6. QED BY <1>1, <1>3, <1>4, <1>5 DEF x, y

\* The first n bytes go from the buffer b to what stands before it.
Cut(p, b, t, n, x, y) ==
  /\ x \in Seq(Byte) /\ Len(x) = n /\ y \in Seq(Byte) /\ Len(y) = Len(b) - n
  /\ p \o x \in Seq(Byte) /\ (p \o x) \o (y \o t) = p \o (b \o t)

\* Cut holds of the two parts that SubSeq makes.
LEMMA CutNamed ==
  ASSUME NEW p \in Seq(Byte), NEW b \in Seq(Byte), NEW t \in Seq(Byte), NEW n \in 0..Len(b)
  PROVE  Cut(p, b, t, n, SubSeq(b, 1, n), SubSeq(b, n + 1, Len(b)))
<1> DEFINE x == SubSeq(b, 1, n)
           y == SubSeq(b, n + 1, Len(b))
<1>1. x \in Seq(Byte) /\ Len(x) = n BY CutBuffer
<1>2. y \in Seq(Byte) /\ Len(y) = Len(b) - n BY CutBuffer
<1>3. p \o x \in Seq(Byte) BY <1>1, ConcatProperties
<1>6. x \o y = b BY CutBuffer
<1> HIDE DEF x, y
<1>4. (p \o x) \o (y \o t) = p \o (b \o t)
  <2>1. SameBytes(p, x, y, t, b) BY <1>1, <1>2, <1>6, Regroup
  <2>2. QED BY <2>1 DEF SameBytes
<1>5. Cut(p, b, t, n, x, y) BY <1>1, <1>2, <1>3, <1>4 DEF Cut
<1>7. QED BY <1>5 DEF x, y

\* Bytes that are the first of message i, as many as a header has.
LEMMA HeaderLength ==
  ASSUME NEW i \in 1..NumMessages, NEW header \in Seq(Byte), Len(header) = HeaderSize,
         \A k \in 1..HeaderSize : header[k] = <<i, k>>
  PROVE  LengthField(header) = Sizes[i]
<1> DEFINE h == SubSeq(Bytes(i), 1, HeaderSize)
<1>1. HeaderSize \in Nat \ {0} /\ Sizes[i] \in Nat /\ HeaderSize <= Sizes[i] BY SizesType
<1>2. \A k \in 1..HeaderSize : Bytes(i)[k] = <<i, k>> BY <1>1, BytesType
<1>3. \A k \in 1..HeaderSize : <<i, k>> \in Byte BY SizesType DEF Byte
<1>4. /\ h \in Seq(Byte) /\ Len(h) = IF 1 <= HeaderSize THEN HeaderSize - 1 + 1 ELSE 0
      /\ \A k \in 1..HeaderSize - 1 + 1 : h[k] = Bytes(i)[1 + k - 1]
  <2>1. HeaderSize \in Int /\ 1 \in Int BY <1>1
  <2>2. \A k \in 1..HeaderSize : Bytes(i)[k] \in Byte BY <1>2, <1>3
  <2>3. QED BY <2>1, <2>2, SubSeqProperties
<1> HIDE DEF h
<1>5. Len(h) = HeaderSize BY <1>1, <1>4
<1>6. \A k \in 1..HeaderSize : h[k] = header[k]
  <2>1. SUFFICES ASSUME NEW k \in 1..HeaderSize PROVE h[k] = header[k] OBVIOUS
  <2>2. k \in 1..HeaderSize - 1 + 1 /\ 1 + k - 1 = k BY <1>1
  <2>3. h[k] = Bytes(i)[k] BY <1>4, <2>2
  <2>4. QED BY <1>2, <2>3
<1>7. h = header BY <1>4, <1>5, <1>6, SeqEqual
<1>8. i \in DOMAIN Sizes BY SizesType
<1>9. header[1][1] = i BY <1>1
<1>10. QED BY <1>7, <1>8, <1>9 DEF LengthField, h

\* The parts of the receiver's state and of the bytes under way.
LEMMA UnderWayType ==
  ASSUME NEW r \in Rx, NEW tx \in Seq(Byte)
  PROVE  /\ r.buffer \in Seq(Byte) /\ r.pendingPacket \in Seq(Byte) /\ r.pendingBytes \in Nat
         /\ r.delivered \in Seq(Seq(Byte)) /\ Len(r.delivered) \in Nat
         /\ r.buffer \o tx \in Seq(Byte) /\ UnderWay(r, tx) \in Seq(Byte)
         /\ Len(UnderWay(r, tx)) = Len(r.pendingPacket) + Len(r.buffer) + Len(tx)
         /\ Len(r.pendingPacket) \in Nat /\ Len(r.buffer) \in Nat /\ Len(tx) \in Nat
<1>1. r.buffer \in Seq(Byte) /\ r.pendingPacket \in Seq(Byte) /\ r.pendingBytes \in Nat /\ r.delivered \in Seq(Seq(Byte))
  BY DEF Rx
<1> DEFINE p == r.pendingPacket
           b == r.buffer
           e == r.delivered
<1> HIDE DEF p, b, e
<1>2. p \in Seq(Byte) /\ b \in Seq(Byte) /\ e \in Seq(Seq(Byte)) BY <1>1 DEF p, b, e
<1>3. b \o tx \in Seq(Byte) /\ Len(b \o tx) = Len(b) + Len(tx) BY <1>2, ConcatProperties
<1>4. p \o (b \o tx) \in Seq(Byte) /\ Len(p \o (b \o tx)) = Len(p) + Len(b \o tx) BY <1>2, <1>3, ConcatProperties
<1>5. Len(p) \in Nat /\ Len(b) \in Nat /\ Len(tx) \in Nat /\ Len(e) \in Nat BY <1>2, LenProperties
<1>6. Len(p \o (b \o tx)) = Len(p) + Len(b) + Len(tx) BY <1>3, <1>4, <1>5
<1>7. QED BY <1>1, <1>3, <1>4, <1>5, <1>6 DEF UnderWay, p, b, e

\* StartMessage reads the header of the message that is due.
LEMMA StartMessageStarts ==
  ASSUME NEW last \in 0..NumMessages, NEW tx \in Seq(Byte), NEW r, RxAgrees(r, tx, last), ~MustWait(r)
  PROVE  Started(StartMessage(r), tx, last) /\ StartMessage(r).delivered = r.delivered
<1>1. r \in Rx BY DEF RxAgrees
<1>2. CASE r.pendingBytes > 0
  BY <1>1, <1>2 DEF StartMessage, Started, RxAgrees
<1>3. CASE ~(r.pendingBytes > 0)
  <2> DEFINE b == r.buffer
             H == HeaderSize
             header == SubSeq(b, 1, H)
             rest == SubSeq(b, H + 1, Len(b))
             e == r.delivered
             d == Len(e)
             q == b \o tx
             z == LengthField(header)
  <2>1. r.pendingBytes = 0 /\ r.pendingPacket = <<>>
    <3>1. r.pendingBytes \in Nat BY <1>1, UnderWayType
    <3>2. r.pendingBytes = 0 BY <1>3, <3>1
    <3>3. QED BY <3>2 DEF RxAgrees
  <2>2. b \in Seq(Byte) /\ Len(b) \in Nat /\ b # <<>> /\ H <= Len(b) /\ H \in Nat \ {0} /\ H \in 0..Len(b)
    <3>1. b \in Seq(Byte) /\ Len(b) \in Nat BY <1>1, UnderWayType
    <3>2. b # <<>> /\ ~(Len(b) < H) BY <2>1 DEF MustWait
    <3>3. H \in Nat \ {0} BY SizesType
    <3> HIDE DEF b, H
    <3>4. H <= Len(b) /\ H \in 0..Len(b) BY <3>1, <3>2, <3>3
    <3>5. QED BY <3>1, <3>2, <3>3, <3>4
  <2>3. e \in Seq(Seq(Byte)) /\ d \in Nat BY <1>1, UnderWayType
  <2>4. UnderWay(r, tx) = q /\ q \in Seq(Byte)
    <3>1. q \in Seq(Byte) BY <1>1, UnderWayType
    <3>2. <<>> \o q = q BY <3>1, ConcatEmptySeq
    <3>3. QED BY <2>1, <3>1, <3>2 DEF UnderWay
  <2>5. Stream(q, d, last) /\ (connected => Complete(q, d, last)) BY <2>4 DEF RxAgrees
  <2>6. StartMessage(r) = [r EXCEPT !.buffer = rest, !.pendingPacket = header, !.pendingBytes = z - H]
    BY <1>3 DEF StartMessage
  <2>7. /\ header \in Seq(Byte) /\ Len(header) = H /\ rest \in Seq(Byte) /\ header \o rest = b
    BY <2>2, CutBuffer
  <2>8. \A k \in 1..Len(b) : q[k] = b[k]
    <3>1. \A k \in 1..Len(b) + Len(tx) : q[k] = IF k <= Len(b) THEN b[k] ELSE tx[k - Len(b)]
      BY <2>2, ConcatProperties
    <3>2. Len(tx) \in Nat BY LenProperties
    <3> HIDE DEF q, b
    <3>3. QED BY <2>2, <3>1, <3>2
  <2>9. \A k \in 1..H : header[k] = b[k]
    <3>1. \A k \in 1..H : b[k] \in Byte BY <2>2, ElementOfSeq
    <3>2. H \in Int /\ 1 \in Int BY <2>2
    <3>3. \A k \in 1..H - 1 + 1 : header[k] = b[1 + k - 1] BY <3>1, <3>2, SubSeqProperties
    <3> HIDE DEF header, b, H
    <3>4. QED BY <2>2, <3>3
  <2>10. q # <<>> /\ Len(q) = Len(b) + Len(tx) /\ Len(tx) \in Nat /\ Len(q) \in Nat
    <3>1. Len(q) = Len(b) + Len(tx) /\ Len(tx) \in Nat BY <2>2, ConcatProperties, LenProperties
    <3> HIDE DEF q, b, H
    <3>2. QED BY <2>2, <2>4, <3>1, EmptySeq
  <2> HIDE DEF b, H, header, rest, e, d, q
  <2>11. d + 1 \in 1..NumMessages /\ d + 1 \in 1..last /\ \A k \in 1..Len(q) : k <= Sizes[d + 1] => q[k] = <<d + 1, k>>
    BY <2>3, <2>5, <2>10, FirstBytes
  <2>12. Sizes[d + 1] \in Nat /\ H <= Sizes[d + 1] BY <2>11, SizesType DEF H
  <2>13. \A k \in 1..H : header[k] = <<d + 1, k>>
    <3>1. SUFFICES ASSUME NEW k \in 1..H PROVE header[k] = <<d + 1, k>> OBVIOUS
    <3>2. k \in 1..Len(b) /\ k \in 1..Len(q) /\ k <= Sizes[d + 1] BY <2>2, <2>10, <2>12
    <3>3. QED BY <2>8, <2>9, <2>11, <3>2
  <2>14. z = Sizes[d + 1] BY <2>7, <2>11, <2>13, HeaderLength DEF H
  <2> HIDE DEF z
  <2>15. z - H \in Nat /\ H + (z - H) = Sizes[d + 1] BY <2>2, <2>12, <2>14
  <2> DEFINE s == StartMessage(r)
  <2>16. s.buffer = rest /\ s.pendingPacket = header /\ s.pendingBytes = z - H /\ s.delivered = e
    BY <1>1, <2>6 DEF Rx, e
  <2>17. s \in Rx
    <3>1. s = [buffer |-> rest, pendingPacket |-> header, pendingBytes |-> z - H, delivered |-> e]
      BY <1>1, <2>6 DEF Rx, e
    <3> HIDE DEF s
    <3>2. QED BY <2>3, <2>7, <2>15, <3>1 DEF Rx
  <2> HIDE DEF s
  <2>18. UnderWay(s, tx) = q
    <3>3. header \in Seq(Byte) /\ rest \in Seq(Byte) /\ tx \in Seq(Byte) BY <2>7
    <3>4. Associates(header, rest, tx) BY <3>3, BytesAssociate
    <3>1. (header \o rest) \o tx = header \o (rest \o tx) BY <3>4 DEF Associates
    <3>2. QED BY <2>7, <2>16, <3>1 DEF UnderWay, q
  <2>19. header # <<>> BY <2>2, <2>7, EmptySeq
  <2>20. Len(e) <= last /\ \A i \in 1..Len(e) : e[i] = Bytes(i) BY DEF RxAgrees, e
  <2>21. Started(s, tx, last)
    BY <2>5, <2>7, <2>15, <2>16, <2>17, <2>18, <2>19, <2>20 DEF Started, d
  <2>22. QED BY <2>16, <2>21 DEF s, e
<1>4. QED BY <1>2, <1>3

\* ReadMessage moves bytes into the message in the making and delivers it if that
\* was the last of them; it is the message that is due.
LEMMA ReadMessageKeeps ==
  ASSUME NEW last \in 0..NumMessages, NEW tx \in Seq(Byte), NEW r, Started(r, tx, last)
  PROVE  RxAgrees(ReadMessage(r), tx, last) /\ Len(r.delivered) <= Len(ReadMessage(r).delivered)
<1> DEFINE b == r.buffer
           p == r.pendingPacket
           w == r.pendingBytes
           e == r.delivered
           d == Len(e)
           n == Least(w, Len(b))
           x == SubSeq(b, 1, n)
           y == SubSeq(b, n + 1, Len(b))
           k == p \o x
           v == y \o tx
           q == UnderWay(r, tx)
           s == ReadMessage(r)
<1>1. r \in Rx BY DEF Started
<1>2. /\ b \in Seq(Byte) /\ p \in Seq(Byte) /\ w \in Nat /\ e \in Seq(Seq(Byte)) /\ d \in Nat
      /\ Len(b) \in Nat /\ Len(p) \in Nat /\ Len(tx) \in Nat
      /\ q \in Seq(Byte) /\ Len(q) = Len(p) + Len(b) + Len(tx)
  BY <1>1, UnderWayType
<1>3. n \in 0..Len(b) /\ n <= w /\ n \in Nat
  <2> HIDE DEF b, w
  <2>1. QED BY <1>2 DEF Least
<1>4. /\ x \in Seq(Byte) /\ Len(x) = n /\ y \in Seq(Byte) /\ Len(y) = Len(b) - n
      /\ k \in Seq(Byte) /\ k \o v = p \o (b \o tx)
  <2> HIDE DEF n, b, p
  <2>1. p \in Seq(Byte) /\ b \in Seq(Byte) /\ n \in 0..Len(b) BY <1>2, <1>3
  <2>2. Cut(p, b, tx, n, x, y) BY <2>1, CutNamed
  <2> HIDE DEF x, y
  <2>3. QED BY <2>2 DEF Cut
<1>5. k \o v = q BY <1>4 DEF UnderWay
<1>6. s = IF w - n > 0
          THEN [buffer |-> y, pendingPacket |-> k, pendingBytes |-> w - n, delivered |-> e]
          ELSE [buffer |-> y, pendingPacket |-> <<>>, pendingBytes |-> w - n, delivered |-> Append(e, k)]
  <2> DEFINE u == w - n
             a == Append(e, k)
             rest == [r EXCEPT !.buffer = y, !.pendingBytes = u]
  <2>1. s = IF rest.pendingBytes > 0 THEN [rest EXCEPT !.pendingPacket = k]
            ELSE [rest EXCEPT !.pendingPacket = <<>>, !.delivered = Append(rest.delivered, k)]
    BY DEF ReadMessage
  <2> HIDE DEF s, k, x, y, n
  <2>2. r = [buffer |-> b, pendingPacket |-> p, pendingBytes |-> w, delivered |-> e] BY <1>1 DEF Rx
  <2> HIDE DEF b, p, w, e, d, v, q, u
  <2>3. rest = [buffer |-> y, pendingPacket |-> p, pendingBytes |-> u, delivered |-> e]
    <3> DEFINE m == [r EXCEPT !.buffer = y]
    <3>1. rest = [m EXCEPT !.pendingBytes = u] BY <1>1 DEF Rx
    <3>2. m = [buffer |-> y, pendingPacket |-> p, pendingBytes |-> w, delivered |-> e] BY <2>2
    <3> HIDE DEF m, rest
    <3>3. QED BY <3>1, <3>2
  <2> HIDE DEF rest
  <2>4. rest.pendingBytes = u /\ rest.delivered = e BY <2>3
  <2>5. Append(rest.delivered, k) = a BY <2>4
  <2> HIDE DEF a
  <2>6. CASE u > 0
    <3>1. s = [rest EXCEPT !.pendingPacket = k] BY <2>1, <2>4, <2>6
    <3>2. s = [buffer |-> y, pendingPacket |-> k, pendingBytes |-> u, delivered |-> e] BY <2>3, <3>1
    <3>3. QED BY <2>6, <3>2 DEF u
  <2>7. CASE ~(u > 0)
    <3>1. s = [rest EXCEPT !.pendingPacket = <<>>, !.delivered = a] BY <2>1, <2>4, <2>5, <2>7
    <3>2. s = [buffer |-> y, pendingPacket |-> <<>>, pendingBytes |-> u, delivered |-> a] BY <2>3, <3>1
    <3>3. QED BY <2>7, <3>2 DEF u, a
  <2>8. QED BY <2>6, <2>7 DEF u
<1>7. /\ d <= last /\ \A i \in 1..d : e[i] = Bytes(i)
      /\ Stream(q, d, last) /\ (connected => Complete(q, d, last))
      /\ p # <<>> /\ Len(p) + w = Sizes[d + 1]
  BY DEF Started
<1>8. Len(k) = Len(p) + n /\ v \in Seq(Byte) /\ Len(v) = Len(y) + Len(tx) /\ Len(p) # 0
  <2>1. Len(k) = Len(p) + Len(x) BY <1>2, <1>4, ConcatProperties
  <2>2. v \in Seq(Byte) /\ Len(v) = Len(y) + Len(tx) BY <1>4, ConcatProperties
  <2>3. Len(p) # 0 BY <1>2, <1>7, EmptySeq
  <2>4. QED BY <1>4, <2>1, <2>2, <2>3
<1> HIDE DEF b, p, w, e, d, n, x, y, k, v, q, s
<1>9. Len(q) # 0 /\ q # <<>> /\ Len(q) \in Nat
  <2>1. Len(q) # 0 /\ Len(q) \in Nat BY <1>2, <1>8
  <2>2. QED BY <2>1, EmptySeq, <1>2
<1>10. CASE w - n > 0
  <2>1. s.buffer = y /\ s.pendingPacket = k /\ s.pendingBytes = w - n /\ s.delivered = e BY <1>6, <1>10
  <2>2. w - n \in Nat BY <1>2, <1>3, <1>10
  <2>3. s \in Rx BY <1>2, <1>4, <1>6, <1>10, <2>2 DEF Rx
  <2>4. UnderWay(s, tx) = q BY <1>5, <2>1 DEF UnderWay, v
  <2>5. Len(k) + (w - n) = Sizes[d + 1] BY <1>2, <1>3, <1>7, <1>8
  <2>6. k # <<>>
    <3>1. Len(k) # 0 BY <1>2, <1>3, <1>8
    <3>2. QED BY <3>1, <1>4, EmptySeq
  <2>7. RxAgrees(s, tx, last)
    <3>1. Len(s.delivered) = d BY <2>1 DEF d
    <3>2. Stream(UnderWay(s, tx), Len(s.delivered), last) BY <1>7, <2>4, <3>1
    <3>3. connected => Complete(UnderWay(s, tx), Len(s.delivered), last) BY <1>7, <2>4, <3>1
    <3>4. s.pendingBytes = 0 => s.pendingPacket = <<>> BY <1>2, <1>3, <1>10, <2>1
    <3>5. s.pendingPacket # <<>> /\ Len(s.pendingPacket) + s.pendingBytes = Sizes[Len(s.delivered) + 1]
      BY <2>1, <2>5, <2>6, <3>1
    <3>6. Len(s.delivered) <= last /\ \A i \in 1..Len(s.delivered) : s.delivered[i] = Bytes(i) BY <1>7, <2>1, <3>1
    <3>7. QED BY <2>3, <3>2, <3>3, <3>4, <3>5, <3>6 DEF RxAgrees
  <2>8. d <= d BY <1>2
  <2>9. QED BY <2>1, <2>7, <2>8 DEF s, d, e
<1>11. CASE ~(w - n > 0)
  <2>1. s.buffer = y /\ s.pendingPacket = <<>> /\ s.pendingBytes = w - n /\ s.delivered = Append(e, k)
    BY <1>6, <1>11
  <2>2. w - n = 0 /\ Len(k) = Sizes[d + 1]
    <3>1. w = n
      <4>1. w \in Nat /\ n \in Nat /\ n <= w BY <1>2, <1>3
      <4>2. QED BY <1>11, <4>1
    <3>2. w - n = 0 BY <1>2, <3>1
    <3>3. QED BY <1>7, <1>8, <3>1, <3>2
  <2>3. /\ d + 1 \in 1..last /\ d + 1 \in 1..NumMessages
        /\ \A j \in 1..Len(q) : j <= Sizes[d + 1] => q[j] = <<d + 1, j>>
    <3>1. d \in Nat /\ Stream(q, d, last) /\ q # <<>> BY <1>2, <1>7, <1>9
    <3>2. QED BY <3>1, FirstBytes
  <2>4. \A j \in 1..Len(k) + Len(v) : q[j] = IF j <= Len(k) THEN k[j] ELSE v[j - Len(k)]
    <3>1. k \in Seq(Byte) /\ v \in Seq(Byte) BY <1>4, <1>8
    <3>2. \A j \in 1..Len(k) + Len(v) : (k \o v)[j] = IF j <= Len(k) THEN k[j] ELSE v[j - Len(k)]
      BY <3>1, ConcatProperties
    <3>3. QED BY <1>5, <3>2
  <2>5. Len(k) \in Nat /\ Len(v) \in Nat /\ Len(q) = Len(k) + Len(v)
    BY <1>2, <1>3, <1>4, <1>8
  <2>6. k = Bytes(d + 1)
    <3>1. \A j \in 1..Len(k) : k[j] = <<d + 1, j>>
      <4>1. SUFFICES ASSUME NEW j \in 1..Len(k) PROVE k[j] = <<d + 1, j>> OBVIOUS
      <4>2. j \in 1..Len(q) /\ j \in 1..Len(k) + Len(v) /\ j <= Len(k) /\ j <= Sizes[d + 1] BY <2>2, <2>5
      <4>3. QED BY <2>3, <2>4, <4>2
    <3> DEFINE m == Bytes(d + 1)
    <3>2. m \in Seq(Byte) /\ Len(m) = Len(k) /\ \A j \in 1..Len(k) : m[j] = <<d + 1, j>>
      BY <2>2, <2>3, BytesAreBytes, BytesType
    <3> HIDE DEF m
    <3>3. \A j \in 1..Len(k) : k[j] = m[j] BY <3>1, <3>2
    <3>4. k = m BY <1>4, <3>2, <3>3, SeqEqual
    <3>5. QED BY <3>4 DEF m
  <2>7. /\ Append(e, k) \in Seq(Seq(Byte)) /\ Len(Append(e, k)) = d + 1
        /\ \A i \in 1..d : Append(e, k)[i] = e[i]
        /\ Append(e, k)[d + 1] = k
    BY <1>2, <1>4, AppendProperties DEF d
  <2>8. \A i \in 1..(d + 1) : Append(e, k)[i] = Bytes(i)
    <3>1. SUFFICES ASSUME NEW i \in 1..(d + 1) PROVE Append(e, k)[i] = Bytes(i) OBVIOUS
    <3>2. CASE i = d + 1 BY <2>6, <2>7, <3>2
    <3>3. CASE i # d + 1
      <4>1. i \in 1..d BY <1>2, <3>3
      <4>2. QED BY <1>7, <2>7, <4>1
    <3>4. QED BY <3>2, <3>3
  <2>9. UnderWay(s, tx) = v
    <3>1. <<>> \o v = v BY <1>8, ConcatEmptySeq
    <3>2. QED BY <2>1, <3>1 DEF UnderWay, v
  <2>10. Stream(v, d + 1, last) /\ (Complete(q, d, last) => Complete(v, d + 1, last))
    <3>1. Sizes[d + 1] <= Len(q) /\ Len(v) = Len(q) - Sizes[d + 1] BY <2>2, <2>5
    <3>2. \A i \in 1..Len(v) : v[i] = q[Sizes[d + 1] + i]
      <4>1. SUFFICES ASSUME NEW i \in 1..Len(v) PROVE v[i] = q[Len(k) + i] BY <2>2
      <4>2. Len(k) + i \in 1..Len(k) + Len(v) /\ ~(Len(k) + i <= Len(k)) /\ Len(k) + i - Len(k) = i BY <2>5
      <4> DEFINE j == Len(k) + i
      <4>3. j \in 1..Len(k) + Len(v) /\ ~(j <= Len(k)) /\ j - Len(k) = i BY <4>2
      <4> HIDE DEF j
      <4>4. q[j] = v[i] BY <2>4, <4>3
      <4>5. QED BY <4>4 DEF j
    <3>3. QED BY <1>2, <1>7, <1>8, <1>9, <3>1, <3>2, RestOfStream
  <2>11. RxAgrees(s, tx, last)
    <3>1. Len(s.delivered) = d + 1 BY <2>1, <2>7
    <3>2. Stream(UnderWay(s, tx), Len(s.delivered), last) BY <2>9, <2>10, <3>1
    <3>3. connected => Complete(UnderWay(s, tx), Len(s.delivered), last) BY <1>7, <2>9, <2>10, <3>1
    <3>4. s.pendingPacket = <<>> /\ s.pendingBytes = 0 BY <2>1, <2>2
    <3>5. Len(s.delivered) <= last BY <2>3, <3>1
    <3>6. \A i \in 1..Len(s.delivered) : s.delivered[i] = Bytes(i) BY <2>1, <2>8, <3>1
    <3>7. s \in Rx
      <4>1. <<>> \in Seq(Byte) /\ w - n \in Nat BY <2>2, EmptySeq
      <4>2. QED BY <1>4, <1>6, <1>11, <2>7, <4>1 DEF Rx
    <3>8. QED BY <3>2, <3>3, <3>4, <3>5, <3>6, <3>7 DEF RxAgrees
  <2>12. d <= d + 1 BY <1>2
  <2>13. QED BY <2>1, <2>7, <2>11, <2>12 DEF s, d, e
<1>12. QED BY <1>10, <1>11

\* The states of the loop of RecvHandler.
RecvStates(tx, last, d) == {r \in Rx : RxAgrees(r, tx, last) /\ d <= Len(r.delivered)}

RecvTurn(r) == IF MustWait(r) THEN r ELSE ReadMessage(StartMessage(r))

\* A turn of the loop keeps the receiver in agreement and takes no message back.
LEMMA RecvTurnKeeps ==
  ASSUME NEW last \in 0..NumMessages, NEW tx \in Seq(Byte), NEW d \in Nat, NEW r \in RecvStates(tx, last, d)
  PROVE  RecvTurn(r) \in RecvStates(tx, last, d)
<1>1. r \in Rx /\ RxAgrees(r, tx, last) /\ d <= Len(r.delivered) BY DEF RecvStates
<1>2. CASE MustWait(r) BY <1>1, <1>2 DEF RecvTurn
<1>3. CASE ~MustWait(r)
  <2> DEFINE m == StartMessage(r)
             s == ReadMessage(m)
  <2>1. Started(m, tx, last) /\ m.delivered = r.delivered BY <1>1, <1>3, StartMessageStarts
  <2> HIDE DEF m
  <2>2. RxAgrees(s, tx, last) /\ Len(m.delivered) <= Len(s.delivered) BY <2>1, ReadMessageKeeps
  <2>3. RecvTurn(r) = s BY <1>3 DEF RecvTurn, m
  <2> HIDE DEF s
  <2>4. s \in Rx BY <2>2 DEF RxAgrees
  <2>5. Len(r.delivered) \in Nat /\ Len(s.delivered) \in Nat BY <1>1, <2>4, EmptySeq, UnderWayType
  <2>6. d <= Len(s.delivered) BY <1>1, <2>1, <2>2, <2>5
  <2>7. QED BY <2>2, <2>3, <2>4, <2>6 DEF RecvStates
<1>4. QED BY <1>2, <1>3

\* So does RecvHandler.
LEMMA RecvKeeps ==
  ASSUME NEW last \in 0..NumMessages, NEW tx \in Seq(Byte), NEW r, RxAgrees(r, tx, last)
  PROVE  RecvHandler(r) \in RecvStates(tx, last, Len(r.delivered))
<1> DEFINE d == Len(r.delivered)
           S == RecvStates(tx, last, d)
           L == Len(r.buffer)
           F == [s \in S |-> RecvTurn(s)]
           After == CHOOSE f : f = [k \in 0..L |->
                      IF k = 0 THEN r
                      ELSE LET s == f[k - 1] IN IF MustWait(s) THEN s ELSE ReadMessage(StartMessage(s))]
<1>1. r \in Rx BY DEF RxAgrees
<1>2. L \in Nat /\ d \in Nat BY <1>1, UnderWayType
<1>3. r \in S
  <2> HIDE DEF d
  <2>1. d <= Len(r.delivered) BY <1>2 DEF d
  <2>2. QED BY <1>1, <2>1 DEF RecvStates
<1>4. F \in [S -> S]
  <2> HIDE DEF d
  <2>1. \A s \in S : RecvTurn(s) \in S BY <1>2, RecvTurnKeeps
  <2> HIDE DEF S
  <2>2. QED BY <2>1
<1>5. RecvHandler(r) = After[L] BY DEF RecvHandler
<1>6. After = CHOOSE f : f = [k \in 0..L |-> IF k = 0 THEN r ELSE RecvTurn(f[k - 1])] BY DEF RecvTurn
<1> HIDE DEF S, L, d, After
<1>7. PICK a : a \in [0..L -> S] /\ a[0] = r /\ \A k \in 1..L : a[k] = F[a[k - 1]]
  <2> HIDE DEF F
  <2>1. \E a : IsLoop(a, L, S, r, F) BY <1>2, <1>3, <1>4, LoopExists
  <2>2. QED BY <2>1 DEF IsLoop
<1>8. a = [k \in 0..L |-> IF k = 0 THEN r ELSE RecvTurn(a[k - 1])]
  <2>1. \A k \in 1..L : a[k] = RecvTurn(a[k - 1])
    <3>1. SUFFICES ASSUME NEW k \in 1..L PROVE a[k] = RecvTurn(a[k - 1]) OBVIOUS
    <3>2. a[k - 1] \in S BY <1>2, <1>7
    <3>3. QED BY <1>7, <3>2
  <2>2. \A k \in 0..L : a[k] = IF k = 0 THEN r ELSE RecvTurn(a[k - 1])
    <3>1. SUFFICES ASSUME NEW k \in 0..L PROVE a[k] = IF k = 0 THEN r ELSE RecvTurn(a[k - 1]) OBVIOUS
    <3>2. CASE k = 0 BY <1>7, <3>2
    <3>3. CASE k # 0
      <4>1. k \in 1..L BY <1>2, <3>3
      <4>2. QED BY <2>1, <3>3, <4>1
    <3>4. QED BY <3>2, <3>3
  <2>3. QED BY <1>7, <2>2
<1>9. After = [k \in 0..L |-> IF k = 0 THEN r ELSE RecvTurn(After[k - 1])] BY <1>6, <1>8
<1>10. After[0] = r BY <1>2, <1>9
<1>11. ASSUME NEW k \in 1..L, After[k - 1] \in S PROVE After[k] \in S
  <2>1. k \in 0..L /\ k # 0 BY <1>2
  <2>2. After[k] = RecvTurn(After[k - 1]) BY <1>9, <2>1
  <2>3. QED BY <1>2, <1>11, <2>2, RecvTurnKeeps DEF S
<1>12. \A k \in 0..L : After[k] \in S BY <1>2, <1>3, <1>10, <1>11, LoopStays
<1>13. L \in 0..L BY <1>2
<1>14. QED BY <1>5, <1>12, <1>13 DEF S, d

-----------------------------------------------------------------------------
(* Every step keeps the invariant *)

\* The invariant, unfolded.
LEMMA RxNow ==
  ASSUME SocketAgrees
  PROVE  /\ handed \in Nat /\ handed <= NumMessages /\ NumMessages \in Nat
         /\ m_txQueue \in Seq(Nat) /\ Len(m_txQueue) \in Nat /\ Len(m_txQueue) <= handed
         /\ handed - Len(m_txQueue) \in 0..NumMessages
         /\ txBuffer \in Seq(Byte) /\ rx \in Rx
         /\ Len(rx.delivered) \in Nat /\ Len(rx.delivered) <= handed - Len(m_txQueue)
         /\ Whole(Len(rx.delivered))
<1>1. handed \in 0..NumMessages /\ NumMessages \in Nat BY SizesType DEF SocketAgrees
<1>2. m_txQueue \in Seq(Nat) /\ Len(m_txQueue) <= handed BY DEF SocketAgrees, QueueAgrees
<1>3. Len(m_txQueue) \in Nat BY <1>2
<1>4. txBuffer \in Seq(Byte) /\ RxAgrees(rx, txBuffer, handed - Len(m_txQueue)) BY DEF SocketAgrees
<1>5. rx \in Rx BY <1>4 DEF RxAgrees
<1>6. Len(rx.delivered) \in Nat BY <1>4, <1>5, UnderWayType
<1>7. Len(rx.delivered) <= handed - Len(m_txQueue) /\ Whole(Len(rx.delivered)) BY <1>4 DEF RxAgrees, Whole
<1>8. QED BY <1>1, <1>2, <1>3, <1>4, <1>5, <1>6, <1>7

\* It holds at the start: nothing is under way.
LEMMA InitAgrees == Init => SocketAgrees
<1> SUFFICES ASSUME Init PROVE SocketAgrees OBVIOUS
<1>1. /\ handed = 0 /\ m_txQueue = <<>> /\ txBuffer = <<>> /\ connected = TRUE
      /\ rx = [buffer |-> <<>>, pendingPacket |-> <<>>, pendingBytes |-> 0, delivered |-> <<>>]
  BY DEF Init
<1>2. 0 \in 0..NumMessages BY SizesType
<1>3. <<>> \in Seq(Byte) /\ <<>> \in Seq(Nat) /\ <<>> \in Seq(Seq(Byte)) /\ Len(<<>>) = 0 BY EmptySeq
<1>4. rx.buffer = <<>> /\ rx.pendingPacket = <<>> /\ rx.pendingBytes = 0 /\ rx.delivered = <<>> BY <1>1
<1>5. rx \in Rx BY <1>1, <1>3 DEF Rx
<1>6. UnderWay(rx, txBuffer) = <<>>
  <2>1. <<>> \o <<>> = <<>> BY <1>3, ConcatEmptySeq
  <2>2. QED BY <1>1, <1>4, <2>1 DEF UnderWay
<1>7. Stream(<<>>, 0, 0) /\ Complete(<<>>, 0, 0)
  <2>1. <<>> \in Seq(BytesUpTo(0)) /\ Len(<<>>) = 0 BY EmptySeq
  <2>2. QED BY <2>1 DEF Stream, Complete
<1>8. RxAgrees(rx, txBuffer, 0)
  <2>1. Len(rx.delivered) = 0 BY <1>3, <1>4
  <2>2. Stream(UnderWay(rx, txBuffer), Len(rx.delivered), 0) /\ Complete(UnderWay(rx, txBuffer), Len(rx.delivered), 0)
    BY <1>6, <1>7, <2>1
  <2>3. QED BY <1>4, <1>5, <2>1, <2>2 DEF RxAgrees
<1>9. QueueAgrees(m_txQueue, 0) BY <1>1, <1>3 DEF QueueAgrees
<1>10. handed - Len(m_txQueue) = 0
  <2>1. handed = 0 /\ Len(m_txQueue) = 0 BY <1>1, <1>3
  <2>2. QED BY <2>1
<1>11. QED BY <1>1, <1>2, <1>3, <1>8, <1>9, <1>10 DEF SocketAgrees

\* The receiver's part of the bytes under way, and the rest of them.
LEMMA RxFront ==
  ASSUME NEW r \in Rx, NEW tx \in Seq(Byte)
  PROVE  r.pendingPacket \o r.buffer \in Seq(Byte) /\ (r.pendingPacket \o r.buffer) \o tx = UnderWay(r, tx)
<1> DEFINE p == r.pendingPacket
           b == r.buffer
<1>1. p \in Seq(Byte) /\ b \in Seq(Byte) BY UnderWayType
<1> HIDE DEF p, b
<1>2. Associates(p, b, tx) BY <1>1, BytesAssociate
<1>3. p \o b \in Seq(Byte) BY <1>1, ConcatProperties
<1>4. QED BY <1>2, <1>3 DEF Associates, UnderWay, p, b

\* Send, for a queue whose first message is the one that is due.
LEMMA SendsKeeps ==
  ASSUME SocketAgrees, NEW n \in 0..NumMessages, NEW queue, QueueAgrees(queue, n),
         n - Len(queue) = handed - Len(m_txQueue), Sends(queue),
         handed' = n, rx' = rx, connected' = connected
  PROVE  SocketAgrees'
<1> DEFINE d == Len(rx.delivered)
           front == rx.pendingPacket \o rx.buffer
           last == handed - Len(m_txQueue)
           x == [queue |-> queue, buffer |-> txBuffer]
           s == Send(queue, txBuffer)
<1>1. rx \in Rx /\ d \in Nat /\ d <= last /\ txBuffer \in Seq(Byte) BY RxNow
<1>2. front \in Seq(Byte) /\ \A t \in Seq(Byte) : front \o t = UnderWay(rx, t) BY <1>1, RxFront
<1>3. /\ Stream(UnderWay(rx, txBuffer), d, last) /\ (connected => Complete(UnderWay(rx, txBuffer), d, last))
      /\ ~connected => txBuffer = <<>>
  BY DEF SocketAgrees, RxAgrees
<1> HIDE DEF d, front, s
<1>4. x \in SendStates(n, front, d)
  <2>1. x \in [queue : Seq(Nat), buffer : Seq(Byte)] BY <1>1 DEF QueueAgrees
  <2>2. x.queue = queue /\ x.buffer = txBuffer OBVIOUS
  <2>3. front \o x.buffer = UnderWay(rx, txBuffer) BY <1>1, <1>2, <2>2
  <2>4. n - Len(x.queue) = last BY <2>2
  <2> HIDE DEF x, last
  <2>5. Stream(front \o x.buffer, d, last) /\ (connected => Complete(front \o x.buffer, d, last)) BY <1>3, <2>3
  <2>6. QED BY <1>1, <1>3, <2>1, <2>2, <2>4, <2>5 DEF SendStates
<1>5. s \in SendStates(n, front, d) BY <1>1, <1>2, <1>4, SendKeeps DEF s
<1>6. m_txQueue' = s.queue /\ txBuffer' = s.buffer BY DEF Sends, s
<1> DEFINE late == n - Len(s.queue)
<1>7. /\ s.queue \in Seq(Nat) /\ s.buffer \in Seq(Byte) /\ QueueAgrees(s.queue, n) /\ d <= late
      /\ Stream(front \o s.buffer, d, late) /\ (connected => Complete(front \o s.buffer, d, late))
      /\ ~connected => s.buffer = <<>>
  BY <1>5 DEF SendStates
<1>8. front \o s.buffer = UnderWay(rx, s.buffer) BY <1>2, <1>7
<1>9. (handed - Len(m_txQueue))' = late BY <1>6
<1> HIDE DEF late
<1>10. RxAgrees(rx, s.buffer, late)
  <2>1. Stream(UnderWay(rx, s.buffer), d, late) /\ (connected => Complete(UnderWay(rx, s.buffer), d, late))
    BY <1>7, <1>8
  <2>2. RxAgrees(rx, txBuffer, last) BY DEF SocketAgrees
  <2>3. QED BY <1>1, <1>7, <2>1, <2>2 DEF RxAgrees, d
<1>11. RxAgrees(rx, txBuffer, handed - Len(m_txQueue))'
  <2>1. RxAgrees(rx', txBuffer', (handed - Len(m_txQueue))') BY <1>6, <1>9, <1>10
  <2>2. QED BY <2>1 DEF RxAgrees
<1>12. QueueAgrees(m_txQueue, handed)' BY <1>6, <1>7 DEF QueueAgrees
<1>13. (txBuffer \in Seq(Byte) /\ (~connected => txBuffer = <<>>))' BY <1>6, <1>7
<1>14. QED BY <1>11, <1>12, <1>13 DEF SocketAgrees

\* The steps of the sending end keep the invariant.
LEMMA SenderKeeps == SocketAgrees /\ (SendMessage \/ SendCallback) => SocketAgrees'
<1> SUFFICES ASSUME SocketAgrees, SendMessage \/ SendCallback PROVE SocketAgrees' OBVIOUS
<1>1. QueueAgrees(m_txQueue, handed) /\ handed \in 0..NumMessages BY DEF SocketAgrees
<1>2. CASE SendMessage
  <2> DEFINE n == handed + 1
             q == Append(m_txQueue, n)
  <2>1. handed < NumMessages /\ handed' = n /\ Sends(q) /\ connected' = connected /\ rx' = rx
    BY <1>2 DEF SendMessage, NumMessages
  <2>2. n \in 0..NumMessages /\ n \in Nat BY <2>1, RxNow
  <2> DEFINE m == m_txQueue
  <2>3. m \in Seq(Nat) /\ Len(m) \in Nat /\ Len(m) <= handed /\ handed \in Nat BY RxNow
  <2>4. q \in Seq(Nat) /\ Len(q) = Len(m) + 1 /\ (\A k \in 1..Len(m) : q[k] = m[k]) /\ q[Len(m) + 1] = n
    BY <2>2, <2>3, AppendProperties
  <2>5. \A k \in 1..Len(m) : m[k] = handed - Len(m) + k BY <1>1 DEF QueueAgrees
  <2> HIDE DEF q, m
  <2>6. \A k \in 1..Len(q) : q[k] = n - Len(q) + k
    <3>1. SUFFICES ASSUME NEW k \in 1..Len(q) PROVE q[k] = n - Len(q) + k OBVIOUS
    <3>2. CASE k = Len(m) + 1 BY <2>3, <2>4, <3>2
    <3>3. CASE k # Len(m) + 1
      <4>1. k \in 1..Len(m) BY <2>3, <2>4, <3>3
      <4>2. q[k] = handed - Len(m) + k BY <2>4, <2>5, <4>1
      <4>3. QED BY <2>3, <2>4, <4>1, <4>2
    <3>4. QED BY <3>2, <3>3
  <2>7. Len(q) <= n /\ n - Len(q) = handed - Len(m) BY <2>3, <2>4
  <2>8. QueueAgrees(q, n) BY <2>4, <2>6, <2>7 DEF QueueAgrees
  <2> HIDE DEF n
  <2>9. QED BY <2>1, <2>2, <2>7, <2>8, SendsKeeps DEF m
<1>3. CASE SendCallback
  <2>1. Sends(m_txQueue) /\ handed' = handed /\ connected' = connected /\ rx' = rx BY <1>3 DEF SendCallback
  <2>2. QED BY <1>1, <2>1, SendsKeeps
<1>4. QED BY <1>2, <1>3

\* The bytes that arrive go from the sender's end of the stream to the receiver's.
LEMMA ArriveKeeps ==
  ASSUME SocketAgrees, NEW n, Arrive(n)
  PROVE  SocketAgrees' /\ Len(rx.delivered) <= Len(rx'.delivered)
<1> DEFINE d == Len(rx.delivered)
           last == handed - Len(m_txQueue)
           x == SubSeq(txBuffer, 1, n)
           y == SubSeq(txBuffer, n + 1, Len(txBuffer))
           p == rx.pendingPacket
           b == rx.buffer
           r == [rx EXCEPT !.buffer = b \o x]
<1>1. /\ connected /\ n \in 1..Len(txBuffer) /\ txBuffer' = y /\ Recv(r)
      /\ handed' = handed /\ m_txQueue' = m_txQueue /\ connected' = connected
  BY DEF Arrive, sender
<1>2. rx \in Rx /\ d \in Nat /\ last \in 0..NumMessages /\ txBuffer \in Seq(Byte) /\ RxAgrees(rx, txBuffer, last)
  BY RxNow DEF SocketAgrees
<1>3. p \in Seq(Byte) /\ b \in Seq(Byte) BY <1>2, UnderWayType
<1>4. n \in 0..Len(txBuffer) BY <1>1
<1>5. x \in Seq(Byte) /\ y \in Seq(Byte) /\ x \o y = txBuffer BY <1>2, <1>4, CutBuffer
<1> DEFINE c == b \o x
<1>6. r.buffer = c /\ r.pendingPacket = p /\ r.pendingBytes = rx.pendingBytes /\ r.delivered = rx.delivered
  BY <1>2 DEF Rx
<1>7. r \in Rx
  <2>1. c \in Seq(Byte) BY <1>3, <1>5, ConcatProperties
  <2> HIDE DEF c
  <2>2. QED BY <1>2, <2>1 DEF Rx, c
<1> HIDE DEF x, y, p, b, r, last, d
<1>8. UnderWay(r, y) = UnderWay(rx, txBuffer)
  <2>1. Associates(b, x, y) BY <1>3, <1>5, BytesAssociate
  <2>2. c \o y = b \o txBuffer BY <1>5, <2>1 DEF Associates
  <2>3. QED BY <1>6, <2>2 DEF UnderWay, p, b
<1>9. RxAgrees(r, y, last)
  <2>1. /\ Len(rx.delivered) <= last /\ \A i \in 1..Len(rx.delivered) : rx.delivered[i] = Bytes(i)
        /\ Stream(UnderWay(rx, txBuffer), Len(rx.delivered), last)
        /\ connected => Complete(UnderWay(rx, txBuffer), Len(rx.delivered), last)
        /\ rx.pendingBytes = 0 => p = <<>>
        /\ rx.pendingBytes > 0 => p # <<>> /\ Len(p) + rx.pendingBytes = Sizes[Len(rx.delivered) + 1]
    BY <1>2 DEF RxAgrees, p
  <2> HIDE DEF c
  <2>2. QED BY <1>6, <1>7, <1>8, <2>1 DEF RxAgrees
<1>10. RecvHandler(r) \in RecvStates(y, last, d) BY <1>2, <1>5, <1>6, <1>9, RecvKeeps DEF d
<1>11. r \in RecvStates(y, last, d)
  <2>1. d <= Len(r.delivered) BY <1>2, <1>6 DEF d
  <2>2. QED BY <1>7, <1>9, <2>1 DEF RecvStates
<1>12. rx' \in RecvStates(y, last, d) BY <1>1, <1>10, <1>11 DEF Recv
<1>13. RxAgrees(rx', txBuffer', last) /\ d <= Len(rx'.delivered) BY <1>1, <1>12 DEF RecvStates
<1>14. RxAgrees(rx, txBuffer, handed - Len(m_txQueue))'
  <2>1. RxAgrees(rx', txBuffer', (handed - Len(m_txQueue))') BY <1>1, <1>13 DEF last
  <2>2. QED BY <1>1, <2>1 DEF RxAgrees
<1>15. (handed \in 0..NumMessages /\ QueueAgrees(m_txQueue, handed))' BY <1>1 DEF SocketAgrees, QueueAgrees
<1>16. (txBuffer \in Seq(Byte) /\ (~connected => txBuffer = <<>>))' BY <1>1, <1>5
<1>17. QED BY <1>13, <1>14, <1>15, <1>16 DEF SocketAgrees, d

\* A RecvHandler that was put off finds the stream as it is by then.
LEMMA RunScheduledKeeps ==
  ASSUME SocketAgrees, RunScheduled
  PROVE  SocketAgrees' /\ Len(rx.delivered) <= Len(rx'.delivered)
<1> DEFINE last == handed - Len(m_txQueue)
<1>1. /\ rx' = RecvHandler(rx) /\ txBuffer' = txBuffer /\ connected' = connected
      /\ handed' = handed /\ m_txQueue' = m_txQueue
  BY DEF RunScheduled, sender
<1>2. last \in 0..NumMessages /\ txBuffer \in Seq(Byte) /\ RxAgrees(rx, txBuffer, last) BY RxNow DEF SocketAgrees
<1> HIDE DEF last
<1>3. rx' \in RecvStates(txBuffer, last, Len(rx.delivered)) BY <1>1, <1>2, RecvKeeps
<1>4. RxAgrees(rx', txBuffer', last) /\ Len(rx.delivered) <= Len(rx'.delivered) BY <1>1, <1>3 DEF RecvStates
<1>5. RxAgrees(rx, txBuffer, handed - Len(m_txQueue))'
  <2>1. RxAgrees(rx', txBuffer', (handed - Len(m_txQueue))') BY <1>1, <1>4 DEF last
  <2>2. QED BY <1>1, <2>1 DEF RxAgrees
<1>6. (handed \in 0..NumMessages /\ QueueAgrees(m_txQueue, handed))' BY <1>1 DEF SocketAgrees, QueueAgrees
<1>7. (txBuffer \in Seq(Byte) /\ (~connected => txBuffer = <<>>))' BY <1>1 DEF SocketAgrees
<1>8. QED BY <1>4, <1>5, <1>6, <1>7 DEF SocketAgrees

\* What the sockets still held is lost: the stream is cut short.
LEMMA DisconnectKeeps ==
  ASSUME SocketAgrees, Disconnect
  PROVE  SocketAgrees'
<1> DEFINE d == Len(rx.delivered)
           last == handed - Len(m_txQueue)
           front == rx.pendingPacket \o rx.buffer
<1>1. connected' = FALSE /\ txBuffer' = <<>> /\ rx' = rx /\ handed' = handed /\ m_txQueue' = m_txQueue
  BY DEF Disconnect, sender
<1>2. rx \in Rx /\ d \in Nat /\ last \in 0..NumMessages /\ txBuffer \in Seq(Byte) /\ RxAgrees(rx, txBuffer, last)
  BY RxNow DEF SocketAgrees
<1>3. <<>> \in Seq(Byte) BY EmptySeq
<1>4. front \in Seq(Byte) /\ front \o txBuffer = UnderWay(rx, txBuffer) /\ front \o <<>> = UnderWay(rx, <<>>)
  BY <1>2, <1>3, RxFront
<1> HIDE DEF front
<1>5. front \o <<>> = front BY <1>4, ConcatEmptySeq
<1>6. Stream(front \o txBuffer, d, last) BY <1>2, <1>4 DEF RxAgrees
<1> HIDE DEF d, last
<1>7. Stream(front, d, last) BY <1>2, <1>4, <1>6, PrefixOfStream
<1>8. Stream(UnderWay(rx, <<>>), d, last) BY <1>4, <1>5, <1>7
<1>9. RxAgrees(rx, txBuffer, handed - Len(m_txQueue))'
  <2>1. Stream(UnderWay(rx', txBuffer'), Len(rx'.delivered), (handed - Len(m_txQueue))') BY <1>1, <1>8 DEF d, last
  <2>2. QED BY <1>1, <1>2, <2>1 DEF RxAgrees, UnderWay, last
<1>10. (handed \in 0..NumMessages /\ QueueAgrees(m_txQueue, handed))' BY <1>1 DEF SocketAgrees, QueueAgrees
<1>11. QED BY <1>1, <1>3, <1>9, <1>10 DEF SocketAgrees

\* The invariant says nothing of the clock.
LEMMA StillAgrees ==
  ASSUME SocketAgrees, UNCHANGED <<handed, m_txQueue, txBuffer, connected, rx>>
  PROVE  SocketAgrees'
BY DEF SocketAgrees, QueueAgrees, RxAgrees, UnderWay

\* Every step keeps the invariant.
LEMMA StepAgrees == SocketAgrees /\ [Next]_vars => SocketAgrees'
<1> SUFFICES ASSUME SocketAgrees, [Next]_vars PROVE SocketAgrees' OBVIOUS
<1>1. CASE SendMessage BY <1>1, SenderKeeps
<1>2. CASE SendCallback BY <1>2, SenderKeeps
<1>3. ASSUME NEW n \in 1..BufferSize, Arrive(n) PROVE SocketAgrees' BY <1>3, ArriveKeeps
<1>4. CASE RunScheduled BY <1>4, RunScheduledKeeps
<1>5. CASE Elapse BY <1>5, StillAgrees DEF Elapse, sender
<1>6. CASE Disconnect BY <1>6, DisconnectKeeps
<1>7. CASE UNCHANGED vars BY <1>7, StillAgrees DEF vars
<1>8. QED BY <1>1, <1>2, <1>3, <1>4, <1>5, <1>6, <1>7 DEF Next

-----------------------------------------------------------------------------
(* The handlers implement the channel *)

\* What is delivered is whole: the refinement mapping counts all of it.
LEMMA Received ==
  SocketAgrees => (IF Whole(Len(rx.delivered)) THEN Len(rx.delivered) ELSE Len(Sizes) + 1) = Len(rx.delivered)
BY RxNow

\* The initial states are initial states of the channel.
LEMMA InitMaps == Init => Channel!Init
<1> SUFFICES ASSUME Init PROVE Channel!Init OBVIOUS
<1>1. handed = 0 /\ connected = TRUE /\ rx.delivered = <<>> BY DEF Init
<1>2. Len(rx.delivered) = 0 BY <1>1, EmptySeq
<1>3. SocketAgrees BY InitAgrees
<1>4. QED BY <1>1, <1>2, <1>3, Received DEF Channel!Init

\* Every step is a step of the channel or none.
LEMMA StepMaps == SocketAgrees /\ SocketAgrees' /\ [Next]_vars => [Channel!Next]_(Channel!vars)
<1> SUFFICES ASSUME SocketAgrees, SocketAgrees', [Next]_vars PROVE [Channel!Next]_(Channel!vars) OBVIOUS
<1> DEFINE received == IF Whole(Len(rx.delivered)) THEN Len(rx.delivered) ELSE Len(Sizes) + 1
           d == Len(rx.delivered)
           Stutter == received' = received /\ handed' = handed /\ connected' = connected
<1>1. received = d BY Received
<1>2. (received = d)' BY Received, PTL
<1>3. d \in Nat BY RxNow
<1>4. (d \in Nat /\ d <= handed - Len(m_txQueue) /\ Len(m_txQueue) \in Nat /\ handed \in Nat)' BY RxNow, PTL
<1>5. d' <= handed' BY <1>4
<1> HIDE DEF received
<1>6. rx' = rx => received' = received BY <1>1, <1>2
<1> HIDE DEF d
<1>7. Stutter => [Channel!Next]_(Channel!vars) BY DEF Channel!vars, received
<1>8. CASE SendMessage
  <2>1. handed < Len(Sizes) /\ handed' = handed + 1 /\ rx' = rx /\ connected' = connected BY <1>8 DEF SendMessage
  <2>2. received' = received BY <1>6, <2>1
  <2>3. Channel!Send BY <2>1, <2>2 DEF Channel!Send, received
  <2>4. QED BY <2>3 DEF Channel!Next
<1>9. CASE SendCallback BY <1>6, <1>7, <1>9 DEF SendCallback
\* A turn of the receiver brings some messages, or none.
<1>10. ASSUME d <= d', handed' = handed, connected' = connected PROVE [Channel!Next]_(Channel!vars)
  <2>1. CASE d' = d BY <1>1, <1>2, <1>7, <1>10, <2>1
  <2>2. CASE d' # d
    <3>1. d' \in d + 1 .. handed BY <1>3, <1>4, <1>5, <1>10, <2>2
    <3>2. received' \in received + 1 .. handed BY <1>1, <1>2, <3>1
    <3>3. Channel!Receive BY <1>10, <3>2 DEF Channel!Receive, received
    <3>4. QED BY <3>3 DEF Channel!Next
  <2>3. QED BY <2>1, <2>2
<1>11. ASSUME NEW n \in 1..BufferSize, Arrive(n) PROVE [Channel!Next]_(Channel!vars)
  <2>1. d <= d' BY <1>11, ArriveKeeps DEF d
  <2>2. handed' = handed /\ connected' = connected BY <1>11 DEF Arrive, sender
  <2>3. QED BY <1>10, <2>1, <2>2
<1>12. CASE RunScheduled
  <2>1. d <= d' BY <1>12, RunScheduledKeeps DEF d
  <2>2. handed' = handed /\ connected' = connected BY <1>12 DEF RunScheduled, sender
  <2>3. QED BY <1>10, <2>1, <2>2
<1>13. CASE Elapse BY <1>6, <1>7, <1>13 DEF Elapse, sender
<1>14. CASE Disconnect
  <2>1. connected /\ connected' = FALSE /\ rx' = rx /\ handed' = handed BY <1>14 DEF Disconnect, sender
  <2>2. received' = received BY <1>6, <2>1
  <2>3. Channel!Break BY <2>1, <2>2 DEF Channel!Break, received
  <2>4. QED BY <2>3 DEF Channel!Next
<1>15. CASE UNCHANGED vars BY <1>6, <1>7, <1>15 DEF vars
<1>16. QED BY <1>8, <1>9, <1>11, <1>12, <1>13, <1>14, <1>15 DEF Next

(***************************************************************************)
(* SocketAgrees holds: the bytes in the sockets, in the receiver's buffer  *)
(* and in its message in the making are, in this order, the bytes of the   *)
(* messages between the last one delivered and the first one that waits in *)
(* m_txQueue; all of them as long as the connection stands; pendingBytes   *)
(* is what the message in the making lacks.                                *)
(***************************************************************************)
THEOREM AgreesHolds == Spec => []SocketAgrees
<1>1. Init => SocketAgrees BY InitAgrees
<1>2. SocketAgrees /\ [Next]_vars => SocketAgrees' BY StepAgrees
<1>3. QED BY <1>1, <1>2, PTL DEF Spec

(***************************************************************************)
(* The two handlers implement the channel: whatever the pieces in which    *)
(* TCP brings the bytes, whenever Recv puts the work off and RecvHandler   *)
(* gets to run, what the receiver's callback is given are the messages     *)
(* that SendMessage was given, whole, each once and in order.  This is     *)
(* ImplementsChannel without its liveness.                                 *)
(***************************************************************************)
THEOREM ChannelHolds == Spec => Channel!Init /\ [][Channel!Next]_(Channel!vars)
<1>1. Init => Channel!Init BY InitMaps
<1>2. SocketAgrees /\ SocketAgrees' /\ [Next]_vars => [Channel!Next]_(Channel!vars) BY StepMaps
<1>3. QED BY <1>1, <1>2, AgreesHolds, PTL DEF Spec

-----------------------------------------------------------------------------
(* The reliable connection *)

RconnMessage == [type : {"HELLO", "OLD_HELLO", "ECHO_REQUEST", "ECHO_REPLY", "MSG"},
                 xid : Nat, counted : {0, 1}]

\* The values that rc can take.
Rconns ==
  [state : {"VOID", "BACKOFF", "CONNECTING", "ACTIVE", "IDLE"},
   elapsed : Nat, quiet : Nat, backoff : Nat, deadline : Nat, reliable : BOOLEAN,
   txq : Seq(RconnMessage), idle_echo_xid : Nat, n_queued : Nat,
   vcs : {"NONE", "CONNECTING", "SEND_HELLO", "RECV_HELLO", "SEND_ERROR", "CONNECTED",
          "DISCONNECTED"},
   link : {"none", "dialling", "up", "broken"},
   in : Seq(RconnMessage), out : Seq(RconnMessage)]

\* A HELLO is the first thing that goes out on a connection, if at all.
HelloFirst(r) ==
  /\ r.vcs \in {"NONE", "CONNECTING", "SEND_HELLO"} => r.out = <<>>
  /\ \A i \in 1..Len(r.out) : r.out[i].type = "HELLO" => i = 1
  /\ \A i \in 1..Len(r.txq) : r.txq[i].type # "HELLO"

\* There is a stream but in VOID and BACKOFF, and nothing waits for one in BACKOFF.
HasStream(r) ==
  /\ r.link = "none" <=> r.state \in {"VOID", "BACKOFF"}
  /\ r.link = "none" => r.vcs = "NONE" /\ r.out = <<>>
  /\ r.state = "BACKOFF" => r.txq = <<>> /\ r.backoff > 0

GoodRconn(r) ==
  /\ r \in Rconns
  /\ HelloFirst(r)
  /\ HasStream(r)
  /\ r.n_queued = Counted(r.txq)

\* What was handed in and has not been read.
Unread(r) == Sent(r) \o r.txq

\* What is not read of r is p.
Agrees(r, p) ==
  /\ GoodRconn(r)
  /\ p \in Seq(RconnMessage)
  /\ r.state # "VOID" => Unread(r) = p

RconnAgrees == Agrees(rc, pending)

-----------------------------------------------------------------------------
(* Numbers *)

LEMMA MinOfPair ==
  ASSUME NEW a \in Nat, NEW b \in Nat
  PROVE  Min({a, b}) = IF a <= b THEN a ELSE b
<1> DEFINE m == IF a <= b THEN a ELSE b
<1>1. m \in {a, b} /\ \A y \in {a, b} : m <= y OBVIOUS
<1>2. \A x \in {a, b} : (\A y \in {a, b} : x <= y) => x = m OBVIOUS
<1> HIDE DEF m
<1>3. (CHOOSE x \in {a, b} : \A y \in {a, b} : x <= y) = m BY <1>1, <1>2
<1>4. QED BY <1>3 DEF Min, m

LEMMA MaxOfPair ==
  ASSUME NEW a \in Nat, NEW b \in Nat
  PROVE  Max({a, b}) = IF a >= b THEN a ELSE b
<1> DEFINE m == IF a >= b THEN a ELSE b
<1>1. m \in {a, b} /\ \A y \in {a, b} : m >= y OBVIOUS
<1>2. \A x \in {a, b} : (\A y \in {a, b} : x >= y) => x = m OBVIOUS
<1> HIDE DEF m
<1>3. (CHOOSE x \in {a, b} : \A y \in {a, b} : x >= y) = m BY <1>1, <1>2
<1>4. QED BY <1>3 DEF Max, m

LEMMA RconnConstants ==
  /\ probe_interval \in Nat \ {0} /\ max_backoff \in Nat \ {0} /\ Window \in Nat \ {0}
  /\ Never \in Nat
<1>1. probe_interval \in Nat \ {0} /\ max_backoff \in Nat \ {0} /\ Window \in Nat \ {0}
  BY RconnAssumption
<1>2. QED BY <1>1 DEF Never

\* A backoff is a second at least.
LEMMA NextBackoffType ==
  ASSUME NEW r \in Rconns
  PROVE  NextBackoff(r) \in Nat \ {0}
<1>1. r.backoff \in Nat BY DEF Rconns
<1>2. 2 * r.backoff \in Nat BY <1>1
<1>3. Max({1, 2 * r.backoff}) \in Nat \ {0} BY <1>2, MaxOfPair
<1>4. Min({max_backoff, Max({1, 2 * r.backoff})}) \in Nat \ {0} BY <1>3, MinOfPair, RconnConstants
<1>5. QED BY <1>4 DEF NextBackoff

-----------------------------------------------------------------------------
(* What is counted *)

LEMMA CountedEmpty == Counted(<<>>) = 0
<1>1. {i \in DOMAIN <<>> : <<>>[i].counted = 1} = {} OBVIOUS
<1>2. QED BY <1>1, FS_EmptySet DEF Counted

\* The number of the elements of a set of positions that was moved by one.
LEMMA CountedTail ==
  ASSUME NEW q \in Seq(RconnMessage), q # <<>>
  PROVE  Counted(q) \in Nat /\ Counted(Tail(q)) \in Nat /\ Counted(q) = Counted(Tail(q)) + Head(q).counted
<1> DEFINE K == {i \in DOMAIN q : q[i].counted = 1}
           L == {i \in DOMAIN Tail(q) : Tail(q)[i].counted = 1}
<1>1. Len(q) \in Nat /\ Len(q) > 0 /\ DOMAIN q = 1..Len(q) /\ DOMAIN Tail(q) = 1..(Len(q) - 1)
      /\ Head(q) = q[1] /\ \A i \in 1..(Len(q) - 1) : Tail(q)[i] = q[i + 1]
  OBVIOUS
<1>2. q[1].counted \in {0, 1}
  <2>1. q[1] \in RconnMessage BY <1>1
  <2>2. QED BY <2>1 DEF RconnMessage
<1>3. K \in SUBSET (1..Len(q)) /\ L \in SUBSET (1..Len(q)) BY <1>1
<1>4. IsFiniteSet(K) /\ IsFiniteSet(L)
  <2> HIDE DEF K, L
  <2>1. IsFiniteSet(1..Len(q)) BY <1>1, FS_Interval
  <2>2. QED BY <1>3, <2>1, FS_Subset
<1>5. Cardinality(L) = Cardinality(K \ {1})
  <2> DEFINE f == [i \in L |-> i + 1]
  <2>1. \A i \in L : i + 1 \in K \ {1} BY <1>1
  <2>2. \A j \in K \ {1} : j - 1 \in L /\ j = (j - 1) + 1 BY <1>1
  <2>3. f \in [L -> K \ {1}] BY <2>1
  <2>4. \A i, j \in L : f[i] = f[j] => i = j BY <1>1
  <2>5. \A j \in K \ {1} : \E i \in L : f[i] = j BY <2>2
  <2> HIDE DEF f, K, L
  <2>6. f \in Bijection(L, K \ {1}) BY <2>3, <2>4, <2>5 DEF Bijection, Injection, Surjection, IsInjective
  <2>7. ExistsBijection(L, K \ {1}) BY <2>6 DEF ExistsBijection
  <2>8. QED BY <1>4, <2>7, FS_Bijection
<1>6. Cardinality(K) \in Nat /\ Cardinality(L) \in Nat BY <1>4, FS_CardinalityType
<1>7. Cardinality(K \ {1}) = IF 1 \in K THEN Cardinality(K) - 1 ELSE Cardinality(K)
  <2> HIDE DEF K
  <2>1. QED BY <1>4, FS_RemoveElement
<1>8. 1 \in K <=> q[1].counted = 1 BY <1>1
<1>9. Counted(q) = Cardinality(K) /\ Counted(Tail(q)) = Cardinality(L) BY DEF Counted
<1> HIDE DEF K, L
<1>10. QED BY <1>1, <1>2, <1>5, <1>6, <1>7, <1>8, <1>9

LEMMA CountedAppend ==
  ASSUME NEW q \in Seq(RconnMessage), NEW m \in RconnMessage
  PROVE  Counted(q) \in Nat /\ Counted(Append(q, m)) = Counted(q) + m.counted
<1> DEFINE a == Append(q, m)
           n == Len(q) + 1
           K == {i \in DOMAIN q : q[i].counted = 1}
           L == {i \in DOMAIN a : a[i].counted = 1}
<1>1. Len(q) \in Nat /\ DOMAIN q = 1..Len(q) /\ DOMAIN a = 1..n
      /\ a[n] = m /\ \A i \in 1..Len(q) : a[i] = q[i]
  OBVIOUS
<1>2. m.counted \in {0, 1} BY DEF RconnMessage
<1>3. n \notin K BY <1>1
<1>4. L = IF m.counted = 1 THEN K \cup {n} ELSE K
  <2>1. \A i \in 1..n : i \in 1..Len(q) \/ i = n BY <1>1
  <2>2. 1..Len(q) \subseteq 1..n BY <1>1
  <2>3. n \in 1..n BY <1>1
  <2> HIDE DEF n, a
  <2>4. QED BY <1>1, <2>1, <2>2, <2>3
<1>5. K \in SUBSET (1..Len(q)) BY <1>1
<1>6. IsFiniteSet(K)
  <2> HIDE DEF K
  <2>1. IsFiniteSet(1..Len(q)) BY <1>1, FS_Interval
  <2>2. QED BY <1>5, <2>1, FS_Subset
<1>7. Cardinality(K) \in Nat BY <1>6, FS_CardinalityType
<1>8. Cardinality(K \cup {n}) = Cardinality(K) + 1
  <2> HIDE DEF K
  <2>1. QED BY <1>3, <1>6, FS_AddElement
<1>9. Counted(q) = Cardinality(K) /\ Counted(a) = Cardinality(L) BY DEF Counted
<1> HIDE DEF K, L
<1>10. QED BY <1>2, <1>4, <1>7, <1>8, <1>9

-----------------------------------------------------------------------------
(* Messages and the stream *)

LEMMA FreshXidType ==
  ASSUME NEW r \in Rconns
  PROVE  FreshXid(r) \in Nat
<1> DEFINE q == r.txq \o r.out \o r.in
           n == Len(q)
           T == {m.xid : m \in Range(q)}
           used == {r.idle_echo_xid} \cup T
           K == (2..(3 + n)) \ used
<1>1. q \in Seq(RconnMessage)
  <2>1. r.txq \in Seq(RconnMessage) /\ r.out \in Seq(RconnMessage) /\ r.in \in Seq(RconnMessage) BY DEF Rconns
  <2>2. QED BY <2>1
<1> HIDE DEF q
<1>2. n \in Nat /\ DOMAIN q = 1..n BY <1>1
<1>3. IsFiniteSet(T) /\ Cardinality(T) <= n
  <2> DEFINE f == [i \in 1..n |-> q[i].xid]
  <2>1. \A i \in 1..n : q[i].xid \in T BY <1>2 DEF Range
  <2>2. \A x \in T : \E i \in 1..n : x = q[i].xid BY <1>2 DEF Range
  <2>3. f \in [1..n -> T] /\ \A x \in T : \E i \in 1..n : f[i] = x BY <2>1, <2>2
  <2> HIDE DEF f, T, n
  <2>4. f \in Surjection(1..n, T) BY <2>3 DEF Surjection
  <2>5. IsFiniteSet(1..n) /\ Cardinality(1..n) = n BY <1>2, FS_Interval
  <2>6. QED BY <2>4, <2>5, FS_Surjection
<1>4. IsFiniteSet(used) /\ Cardinality(used) <= n + 1
  <2> HIDE DEF T, n
  <2>0. Cardinality(T) \in Nat BY <1>3, FS_CardinalityType
  <2>1. CASE r.idle_echo_xid \in T
    <3>1. used = T BY <2>1
    <3> HIDE DEF used
    <3>2. QED BY <1>2, <1>3, <2>0, <3>1
  <2>2. CASE r.idle_echo_xid \notin T
    <3>1. used = T \cup {r.idle_echo_xid} OBVIOUS
    <3>2. IsFiniteSet(used) /\ Cardinality(used) = Cardinality(T) + 1 BY <1>3, <2>2, <3>1, FS_AddElement
    <3> HIDE DEF used
    <3>3. QED BY <1>2, <1>3, <2>0, <3>2
  <2>3. QED BY <2>1, <2>2
<1>5. IsFiniteSet(2..(3 + n)) /\ Cardinality(2..(3 + n)) = n + 2 BY <1>2, FS_Interval
<1>6. K # {}
  <2>1. SUFFICES ASSUME K = {} PROVE FALSE OBVIOUS
  <2> HIDE DEF T
  <2>2. 2..(3 + n) \in SUBSET used BY <2>1
  <2> HIDE DEF used
  <2>3. Cardinality(2..(3 + n)) <= Cardinality(used) BY <1>4, <2>2, FS_Subset
  <2>4. Cardinality(used) \in Nat BY <1>4, FS_CardinalityType
  <2>5. QED BY <1>2, <1>4, <1>5, <2>3, <2>4
<1>7. K \in SUBSET Nat
  <2> HIDE DEF used
  <2>1. QED BY <1>2
<1>8. FreshXid(r) = Min(K) BY DEF FreshXid, q
<1> HIDE DEF K
<1>9. PICK m \in K : \A k \in K : m <= k BY <1>6, <1>7, LeastExists
<1>10. Min(K) \in K BY <1>9 DEF Min
<1>11. QED BY <1>7, <1>8, <1>10

LEMMA ProbeType ==
  ASSUME NEW r \in Rconns
  PROVE  Probe(FreshXid(r)) \in RconnMessage /\ Probe(FreshXid(r)).type = "ECHO_REQUEST"
<1>1. FreshXid(r) \in Nat BY FreshXidType
<1>2. QED BY <1>1 DEF Probe, Msg, RconnMessage

\* The first message of a queue goes to the end of what is before the queue.
LEMMA MoveOver ==
  ASSUME NEW s \in Seq(RconnMessage), NEW q \in Seq(RconnMessage), q # <<>>
  PROVE  Append(s, Head(q)) \o Tail(q) = s \o q
<1> DEFINE a == Append(s, Head(q)) \o Tail(q)
           b == s \o q
<1>1. Len(q) \in Nat /\ Len(q) > 0 /\ Head(q) = q[1] /\ Len(s) \in Nat /\ Head(q) \in RconnMessage
      /\ Tail(q) \in Seq(RconnMessage) /\ Len(Tail(q)) = Len(q) - 1
      /\ \A i \in 1..(Len(q) - 1) : Tail(q)[i] = q[i + 1]
  OBVIOUS
<1>2. Append(s, Head(q)) \in Seq(RconnMessage) /\ Len(Append(s, Head(q))) = Len(s) + 1 BY <1>1
<1>3. a \in Seq(RconnMessage) /\ b \in Seq(RconnMessage) BY <1>1, <1>2
<1>4. Len(a) = Len(s) + Len(q) /\ Len(b) = Len(s) + Len(q) BY <1>1, <1>2
<1>5. \A i \in 1..Len(b) : a[i] = b[i]
  <2>1. SUFFICES ASSUME NEW i \in 1..Len(b) PROVE a[i] = b[i] OBVIOUS
  <2>2. CASE i <= Len(s) BY <1>1, <1>2, <1>4, <2>2
  <2>3. CASE i = Len(s) + 1
    <3>1. a[i] = Head(q) BY <1>1, <1>2, <2>3
    <3>2. b[i] = q[1] BY <1>1, <1>4, <2>3
    <3>3. QED BY <1>1, <3>1, <3>2
  <2>4. CASE i > Len(s) + 1
    <3>1. i - (Len(s) + 1) \in 1..(Len(q) - 1) BY <1>1, <1>4, <2>4
    <3>2. a[i] = Tail(q)[i - (Len(s) + 1)] BY <1>1, <1>2, <1>4, <2>4
    <3>3. b[i] = q[i - Len(s)] BY <1>1, <1>4, <2>4
    <3>4. Tail(q)[i - (Len(s) + 1)] = q[(i - (Len(s) + 1)) + 1] BY <1>1, <3>1
    <3>5. (i - (Len(s) + 1)) + 1 = i - Len(s) BY <1>1, <1>4
    <3>6. QED BY <3>2, <3>3, <3>4, <3>5
  <2>5. QED BY <1>1, <1>4, <2>2, <2>3, <2>4
<1> HIDE DEF a, b
<1>6. QED BY <1>3, <1>4, <1>5 DEF a, b

LEMMA SentType ==
  ASSUME NEW r \in Rconns
  PROVE  Sent(r) \in Seq(RconnMessage)
<1>1. r.out \in Seq(RconnMessage) BY DEF Rconns
<1>2. CASE r.out # <<>> /\ Head(r.out).type = "HELLO"
  <2>1. Tail(r.out) \in Seq(RconnMessage) BY <1>1, <1>2
  <2>2. QED BY <1>2, <2>1 DEF Sent
<1>3. CASE ~(r.out # <<>> /\ Head(r.out).type = "HELLO") BY <1>1, <1>3 DEF Sent
<1>4. QED BY <1>2, <1>3

\* A message put behind the others.
LEMMA SentAppend ==
  ASSUME NEW r \in Rconns, NEW v, NEW m \in RconnMessage, m.type # "HELLO", v.out = Append(r.out, m)
  PROVE  Sent(v) = Append(Sent(r), m)
<1>1. r.out \in Seq(RconnMessage) BY DEF Rconns
<1>2. CASE r.out = <<>>
  <2>1. v.out = <<m>> BY <1>2
  <2>2. v.out # <<>> /\ Head(v.out) = m BY <2>1
  <2>3. Sent(v) = <<m>> BY <2>1, <2>2 DEF Sent
  <2>4. Sent(r) = <<>> BY <1>2 DEF Sent
  <2>5. Append(<<>>, m) = <<m>> OBVIOUS
  <2>6. QED BY <2>3, <2>4, <2>5
<1>3. CASE r.out # <<>>
  <2>1. v.out # <<>> /\ Head(v.out) = Head(r.out) BY <1>1, <1>3
  <2>2. Tail(v.out) = Append(Tail(r.out), m) BY <1>1, <1>3
  <2>3. CASE Head(r.out).type = "HELLO" BY <1>3, <2>1, <2>2, <2>3 DEF Sent
  <2>4. CASE Head(r.out).type # "HELLO" BY <1>3, <2>1, <2>4 DEF Sent
  <2>5. QED BY <2>3, <2>4
<1>4. QED BY <1>2, <1>3

-----------------------------------------------------------------------------
(* The vconn *)

\* What vconn_connect leaves alone, and what it keeps true.
VconnKeeps(r, v) ==
  /\ GoodRconn(v)
  /\ v.link = r.link /\ v.state = r.state /\ v.txq = r.txq
  /\ v.elapsed = r.elapsed /\ v.quiet = r.quiet /\ v.backoff = r.backoff
  /\ Sent(v) = Sent(r)

\* Another state of the vconn.
LEMMA VcsKeeps ==
  ASSUME NEW r, GoodRconn(r), r.link # "none",
         NEW s \in {"CONNECTING", "SEND_HELLO", "RECV_HELLO", "SEND_ERROR", "CONNECTED", "DISCONNECTED"},
         s \in {"CONNECTING", "SEND_HELLO"} => r.out = <<>>
  PROVE  VconnKeeps(r, [r EXCEPT !.vcs = s])
<1> DEFINE v == [r EXCEPT !.vcs = s]
<1>1. r \in Rconns /\ HelloFirst(r) /\ HasStream(r) /\ r.n_queued = Counted(r.txq) BY DEF GoodRconn
<1>2. v \in Rconns BY <1>1 DEF Rconns
<1>3. v.out = r.out /\ v.txq = r.txq /\ v.link = r.link /\ v.state = r.state /\ v.vcs = s /\ v.backoff = r.backoff
      /\ v.elapsed = r.elapsed /\ v.quiet = r.quiet /\ v.n_queued = r.n_queued
  BY <1>1 DEF Rconns
<1> HIDE DEF v
<1>4. HelloFirst(v) BY <1>1, <1>3 DEF HelloFirst
<1>5. HasStream(v) BY <1>1, <1>3 DEF HasStream
<1>6. Sent(v) = Sent(r) BY <1>3 DEF Sent
<1>7. VconnKeeps(r, v) BY <1>1, <1>2, <1>3, <1>4, <1>5, <1>6 DEF VconnKeeps, GoodRconn
<1>8. QED BY <1>7 DEF v

LEMMA ConnectingKeeps ==
  ASSUME NEW r, GoodRconn(r), r.link # "none"
  PROVE  VconnKeeps(r, vcs_connecting(r))
<1>1. VconnKeeps(r, r) BY DEF VconnKeeps
<1>2. r.link \in {"dialling", "up", "broken"} BY DEF GoodRconn, Rconns
<1>3. r.vcs = "CONNECTING" => r.out = <<>> BY DEF GoodRconn, HelloFirst
<1>4. CASE r.vcs # "CONNECTING" \/ r.link = "dialling"
  <2>1. vcs_connecting(r) = r BY <1>4 DEF vcs_connecting
  <2>2. QED BY <1>1, <2>1
<1>5. CASE r.vcs = "CONNECTING" /\ r.link = "up"
  <2>1. vcs_connecting(r) = [r EXCEPT !.vcs = "SEND_HELLO"] BY <1>5 DEF vcs_connecting
  <2>2. QED BY <1>3, <1>5, <2>1, VcsKeeps
<1>6. CASE r.vcs = "CONNECTING" /\ r.link = "broken"
  <2>1. vcs_connecting(r) = [r EXCEPT !.vcs = "DISCONNECTED"] BY <1>6 DEF vcs_connecting
  <2>2. QED BY <2>1, VcsKeeps
<1>7. QED BY <1>2, <1>4, <1>5, <1>6

LEMMA SendHelloKeeps ==
  ASSUME NEW r, GoodRconn(r), r.link # "none"
  PROVE  VconnKeeps(r, vcs_send_hello(r))
<1>1. VconnKeeps(r, r) BY DEF VconnKeeps
<1>2. CASE r.vcs # "SEND_HELLO"
  <2>1. vcs_send_hello(r) = r BY <1>2 DEF vcs_send_hello
  <2>2. QED BY <1>1, <2>1
<1>3. CASE r.vcs = "SEND_HELLO" /\ Broken(r)
  <2>1. vcs_send_hello(r) = [r EXCEPT !.vcs = "DISCONNECTED"] BY <1>3 DEF vcs_send_hello
  <2>2. QED BY <2>1, VcsKeeps
<1>4. CASE r.vcs = "SEND_HELLO" /\ ~Broken(r)
  <2> DEFINE hm == Msg("HELLO", Foreign, 0)
             v == [r EXCEPT !.vcs = "RECV_HELLO", !.out = Append(@, hm)]
  <2>1. vcs_send_hello(r) = v BY <1>4 DEF vcs_send_hello
  <2>2. r \in Rconns /\ HelloFirst(r) /\ HasStream(r) /\ r.n_queued = Counted(r.txq) BY DEF GoodRconn
  <2>3. r.out = <<>> BY <1>4, <2>2 DEF HelloFirst
  <2>4. hm \in RconnMessage /\ hm.type = "HELLO" BY DEF Msg, Foreign, RconnMessage
  <2>5. Append(r.out, hm) = <<hm>> BY <2>3
  <2>6. <<hm>> \in Seq(RconnMessage) BY <2>4
  <2>7. v \in Rconns BY <2>2, <2>5, <2>6 DEF Rconns
  <2>8. v.out = <<hm>> /\ v.txq = r.txq /\ v.link = r.link /\ v.state = r.state /\ v.vcs = "RECV_HELLO" /\ v.backoff = r.backoff
        /\ v.elapsed = r.elapsed /\ v.quiet = r.quiet /\ v.n_queued = r.n_queued
    BY <2>2, <2>5 DEF Rconns
  <2> HIDE DEF v, hm
  <2>9. HelloFirst(v) BY <2>2, <2>8 DEF HelloFirst
  <2>10. HasStream(v) BY <2>2, <2>8 DEF HasStream
  <2>11. Sent(v) = Sent(r)
    <3>1. v.out # <<>> /\ Head(v.out) = hm /\ Tail(v.out) = <<>> BY <2>8
    <3>2. Sent(v) = <<>> BY <2>4, <3>1 DEF Sent
    <3>3. Sent(r) = <<>> BY <2>3 DEF Sent
    <3>4. QED BY <3>2, <3>3
  <2>12. QED BY <2>1, <2>2, <2>7, <2>8, <2>9, <2>10, <2>11 DEF VconnKeeps, GoodRconn
<1>5. QED BY <1>2, <1>3, <1>4

LEMMA RecvHelloKeeps ==
  ASSUME NEW r, GoodRconn(r), r.link # "none"
  PROVE  VconnKeeps(r, vcs_recv_hello(r))
<1>1. VconnKeeps(r, r) BY DEF VconnKeeps
<1>2. CASE r.vcs # "RECV_HELLO" \/ (r.in = <<>> /\ ~Broken(r))
  <2>1. vcs_recv_hello(r) = r BY <1>2 DEF vcs_recv_hello
  <2>2. QED BY <1>1, <2>1
<1>3. CASE r.vcs = "RECV_HELLO" /\ r.in = <<>> /\ Broken(r)
  <2>1. vcs_recv_hello(r) = [r EXCEPT !.vcs = "DISCONNECTED"] BY <1>3 DEF vcs_recv_hello
  <2>2. QED BY <2>1, VcsKeeps
<1>4. CASE r.vcs = "RECV_HELLO" /\ r.in # <<>>
  <2> DEFINE s == CASE Head(r.in).type = "HELLO"     -> "CONNECTED"
                    [] Head(r.in).type = "OLD_HELLO" -> "SEND_ERROR"
                    [] OTHER                         -> "DISCONNECTED"
             v == [r EXCEPT !.in = Tail(@), !.vcs = s]
  <2>1. vcs_recv_hello(r) = v BY <1>4 DEF vcs_recv_hello
  <2>2. r \in Rconns /\ HelloFirst(r) /\ HasStream(r) /\ r.n_queued = Counted(r.txq) BY DEF GoodRconn
  <2>3. s \in {"CONNECTED", "SEND_ERROR", "DISCONNECTED"} OBVIOUS
  <2> HIDE DEF s
  <2>4. Tail(r.in) \in Seq(RconnMessage)
    <3>1. r.in \in Seq(RconnMessage) BY <2>2 DEF Rconns
    <3>2. QED BY <1>4, <3>1
  <2>5. v \in Rconns BY <2>2, <2>3, <2>4 DEF Rconns
  <2>6. v.out = r.out /\ v.txq = r.txq /\ v.link = r.link /\ v.state = r.state /\ v.vcs = s /\ v.backoff = r.backoff
        /\ v.elapsed = r.elapsed /\ v.quiet = r.quiet /\ v.n_queued = r.n_queued
    BY <2>2 DEF Rconns
  <2> HIDE DEF v
  <2>7. HelloFirst(v) BY <2>2, <2>3, <2>6 DEF HelloFirst
  <2>8. HasStream(v) BY <2>2, <2>3, <2>6 DEF HasStream
  <2>9. Sent(v) = Sent(r) BY <2>6 DEF Sent
  <2>10. QED BY <2>1, <2>2, <2>5, <2>6, <2>7, <2>8, <2>9 DEF VconnKeeps, GoodRconn
<1>5. QED BY <1>2, <1>3, <1>4

LEMMA SendErrorKeeps ==
  ASSUME NEW r, GoodRconn(r), r.link # "none"
  PROVE  VconnKeeps(r, vcs_send_error(r))
<1>1. VconnKeeps(r, r) BY DEF VconnKeeps
<1>2. vcs_send_error(r) = r \/ vcs_send_error(r) = [r EXCEPT !.vcs = "DISCONNECTED"] BY DEF vcs_send_error
<1>3. VconnKeeps(r, [r EXCEPT !.vcs = "DISCONNECTED"]) BY VcsKeeps
<1>4. QED BY <1>1, <1>2, <1>3

LEMMA ConnectKeeps ==
  ASSUME NEW r, GoodRconn(r), r.link # "none"
  PROVE  VconnKeeps(r, vconn_connect(r))
<1> DEFINE a == vcs_connecting(r)
           b == vcs_send_hello(a)
           c == vcs_recv_hello(b)
           d == vcs_send_error(c)
<1>1. VconnKeeps(r, a) BY ConnectingKeeps
<1>2. GoodRconn(a) /\ a.link # "none" BY <1>1 DEF VconnKeeps
<1> HIDE DEF a
<1>3. VconnKeeps(a, b) BY <1>2, SendHelloKeeps
<1>4. GoodRconn(b) /\ b.link # "none" BY <1>2, <1>3 DEF VconnKeeps
<1> HIDE DEF b
<1>5. VconnKeeps(b, c) BY <1>4, RecvHelloKeeps
<1>6. GoodRconn(c) /\ c.link # "none" BY <1>4, <1>5 DEF VconnKeeps
<1> HIDE DEF c
<1>7. VconnKeeps(c, d) BY <1>6, SendErrorKeeps
<1>8. vconn_connect(r) = d BY DEF vconn_connect, a, b, c
<1> HIDE DEF d
<1>9. VconnKeeps(r, d) BY <1>1, <1>3, <1>5, <1>7 DEF VconnKeeps
<1>10. QED BY <1>8, <1>9

-----------------------------------------------------------------------------
(* The loss of the connection *)

\* There is no connection any more, and if there is to be one again nothing waits for it.
LostRconn(d) == GoodRconn(d) /\ d.state \in {"VOID", "BACKOFF"} /\ d.elapsed = 0

LEMMA RconnDisconnectLoses ==
  ASSUME NEW r, GoodRconn(r), r.state # "VOID"
  PROVE  LostRconn(rconn_disconnect(r)) /\ rconn_disconnect(r).state = "VOID" /\ rconn_disconnect(r).txq = r.txq
<1> DEFINE d == [state |-> "VOID", elapsed |-> 0, quiet |-> 0, backoff |-> 0, deadline |-> 0,
                 reliable |-> FALSE, txq |-> r.txq, idle_echo_xid |-> r.idle_echo_xid,
                 n_queued |-> r.n_queued, vcs |-> "NONE", link |-> "none", in |-> <<>>, out |-> <<>>]
<1>1. r \in Rconns /\ HelloFirst(r) /\ r.n_queued = Counted(r.txq) BY DEF GoodRconn
<1>2. rconn_disconnect(r) = d
  <2>1. rconn_disconnect(r) =
          state_transition([vconn_close(r) EXCEPT !.reliable = FALSE, !.backoff = 0, !.deadline = 0], "VOID")
    BY DEF rconn_disconnect
  <2>2. QED BY <1>1, <2>1 DEF state_transition, vconn_close, Rconns
<1>3. d \in Rconns
  <2>1. <<>> \in Seq(RconnMessage) OBVIOUS
  <2>2. r.txq \in Seq(RconnMessage) /\ r.idle_echo_xid \in Nat /\ r.n_queued \in Nat BY <1>1 DEF Rconns
  <2>3. QED BY <2>1, <2>2 DEF Rconns
<1>4. d.state = "VOID" /\ d.elapsed = 0 /\ d.txq = r.txq /\ d.n_queued = r.n_queued /\ d.vcs = "NONE" /\ d.link = "none"
      /\ d.out = <<>>
  OBVIOUS
<1> HIDE DEF d
<1>5. HelloFirst(d) BY <1>1, <1>4 DEF HelloFirst
<1>6. HasStream(d) BY <1>4 DEF HasStream
<1>7. QED BY <1>1, <1>2, <1>3, <1>4, <1>5, <1>6 DEF LostRconn, GoodRconn

LEMMA DisconnectLoses ==
  ASSUME NEW r, GoodRconn(r), r.state # "VOID"
  PROVE  LostRconn(disconnect(r))
<1>1. r \in Rconns /\ HelloFirst(r) /\ HasStream(r) /\ r.n_queued = Counted(r.txq) BY DEF GoodRconn
<1>2. CASE ~r.reliable
  <2>1. disconnect(r) = rconn_disconnect(r) BY <1>2 DEF disconnect
  <2>2. QED BY <2>1, RconnDisconnectLoses
<1>3. CASE r.reliable
  <2> DEFINE n == NextBackoff(r)
             c == IF r.state = "BACKOFF" THEN r ELSE DropsConnection(r)
             b == [c EXCEPT !.backoff = n, !.deadline = n]
             d == state_transition(b, "BACKOFF")
  <2>1. n \in Nat \ {0} BY <1>1, NextBackoffType
  <2>2. disconnect(r) = d BY <1>3 DEF disconnect
  <2>3. c \in Rconns /\ c.txq = <<>> /\ c.n_queued = 0 /\ c.vcs = "NONE" /\ c.link = "none" /\ c.out = <<>>
    <3>1. CASE r.state = "BACKOFF" BY <1>1, <3>1, CountedEmpty DEF HasStream
    <3>2. CASE r.state # "BACKOFF"
      <4> DEFINE e == vconn_close(r)
      <4>1. <<>> \in Seq(RconnMessage) OBVIOUS
      <4>2. e \in Rconns BY <1>1, <4>1 DEF vconn_close, Rconns
      <4>3. e.txq = r.txq /\ e.n_queued = r.n_queued /\ e.vcs = "NONE" /\ e.link = "none" /\ e.out = <<>>
        BY <1>1 DEF vconn_close, Rconns
      <4> HIDE DEF e
      <4>4. e.n_queued - Counted(e.txq) = 0
        <5>1. r.n_queued \in Nat BY <1>1 DEF Rconns
        <5>2. QED BY <1>1, <4>3, <5>1
      <4>5. c = [e EXCEPT !.txq = <<>>, !.n_queued = 0]
        BY <3>2, <4>4 DEF DropsConnection, flush_queue, e
      <4> HIDE DEF c
      <4>6. c \in Rconns BY <4>1, <4>2, <4>5 DEF Rconns
      <4>7. QED BY <4>2, <4>3, <4>5, <4>6 DEF Rconns
    <3>3. QED BY <3>1, <3>2
  <2> HIDE DEF c, n
  <2>4. b \in Rconns BY <2>1, <2>3 DEF Rconns
  <2>5. b.txq = <<>> /\ b.n_queued = 0 /\ b.vcs = "NONE" /\ b.link = "none" /\ b.out = <<>> /\ b.backoff = n
    BY <2>3 DEF Rconns
  <2> HIDE DEF b
  <2>6. d \in Rconns BY <2>4 DEF Rconns, state_transition
  <2>7. d.state = "BACKOFF" /\ d.elapsed = 0 /\ d.txq = <<>> /\ d.n_queued = 0 /\ d.vcs = "NONE" /\ d.link = "none"
        /\ d.out = <<>> /\ d.backoff = n
    BY <2>4, <2>5 DEF Rconns, state_transition
  <2> HIDE DEF d
  <2>8. HelloFirst(d) BY <2>7 DEF HelloFirst
  <2>9. HasStream(d) BY <2>1, <2>7 DEF HasStream
  <2>10. d.n_queued = Counted(d.txq) BY <2>7, CountedEmpty
  <2>11. QED BY <2>2, <2>6, <2>7, <2>8, <2>9, <2>10 DEF LostRconn, GoodRconn
<1>4. QED BY <1>2, <1>3, <1>1 DEF Rconns

\* What is no part of the agreement may change.
LEMMA OthersKeep ==
  ASSUME NEW r, GoodRconn(r), NEW v \in Rconns,
         v.state = r.state, v.backoff = r.backoff, v.txq = r.txq, v.n_queued = r.n_queued,
         v.vcs = r.vcs, v.link = r.link, v.out = r.out
  PROVE  GoodRconn(v) /\ Sent(v) = Sent(r)
<1>1. HelloFirst(r) /\ HasStream(r) /\ r.n_queued = Counted(r.txq) BY DEF GoodRconn
<1>2. HelloFirst(v) BY <1>1 DEF HelloFirst
<1>3. HasStream(v) BY <1>1 DEF HasStream
<1>4. QED BY <1>1, <1>2, <1>3 DEF GoodRconn, Sent

-----------------------------------------------------------------------------
(* The queue *)

\* The connection goes on as it was, and what has not been read is the same.
GoesOnSending(r, t) ==
  /\ GoodRconn(t)
  /\ t.link = r.link /\ t.state = r.state /\ t.elapsed = r.elapsed /\ t.quiet = r.quiet
  /\ Unread(t) = Unread(r)

LEMMA TrySendKeeps ==
  ASSUME NEW r, GoodRconn(r), is_connected(r), r.txq # <<>>
  PROVE  LostRconn(try_send(r)) \/ GoesOnSending(r, try_send(r))
<1> DEFINE v == vconn_connect(r)
           m == Head(r.txq)
           w == [v EXCEPT !.idle_echo_xid = NoXid]
<1>1. r.state \in {"ACTIVE", "IDLE"} BY DEF is_connected
<1>2. r \in Rconns /\ HelloFirst(r) /\ HasStream(r) /\ r.n_queued = Counted(r.txq) BY DEF GoodRconn
<1>3. VconnKeeps(r, v) BY <1>1, <1>2, ConnectKeeps DEF HasStream
<1> HIDE DEF v
<1>4. GoodRconn(v) /\ v \in Rconns /\ v.link = r.link /\ v.state = r.state /\ v.txq = r.txq
      /\ v.elapsed = r.elapsed /\ v.quiet = r.quiet /\ v.backoff = r.backoff /\ Sent(v) = Sent(r)
  BY <1>3 DEF VconnKeeps, GoodRconn
<1>5. w \in Rconns BY <1>4 DEF Rconns, NoXid
<1>6. w.state = v.state /\ w.backoff = v.backoff /\ w.txq = v.txq /\ w.n_queued = v.n_queued /\ w.vcs = v.vcs
      /\ w.link = v.link /\ w.out = v.out /\ w.elapsed = v.elapsed /\ w.quiet = v.quiet
  BY <1>4 DEF Rconns
<1> HIDE DEF w
<1>7. GoodRconn(w) /\ Sent(w) = Sent(v) BY <1>4, <1>5, <1>6, OthersKeep
<1>8. GoesOnSending(r, w) BY <1>4, <1>6, <1>7 DEF GoesOnSending, Unread
<1>9. CASE v.vcs = "DISCONNECTED" \/ (v.vcs = "CONNECTED" /\ Broken(v))
  <2>1. try_send(r) = disconnect(w) BY <1>9 DEF try_send, v, w
  <2>2. LostRconn(disconnect(w)) BY <1>1, <1>4, <1>6, <1>7, DisconnectLoses
  <2>3. QED BY <2>1, <2>2
<1>10. CASE v.vcs = "CONNECTED" /\ ~Broken(v) /\ HasRoom(v)
  <2> DEFINE n == v.n_queued - m.counted
             t == [v EXCEPT !.idle_echo_xid = m.xid, !.out = Append(@, m), !.txq = Tail(@), !.n_queued = n]
  <2>1. try_send(r) = t BY <1>10 DEF try_send, v, m
  <2>2. v.txq \in Seq(RconnMessage) /\ v.txq # <<>> /\ m = Head(v.txq) /\ v.out \in Seq(RconnMessage)
    BY <1>4 DEF Rconns
  <2>3. Len(v.txq) \in Nat /\ Len(v.txq) > 0 /\ m = v.txq[1] /\ m \in RconnMessage /\ Tail(v.txq) \in Seq(RconnMessage)
        /\ Len(Tail(v.txq)) = Len(v.txq) - 1 /\ \A i \in 1..(Len(v.txq) - 1) : Tail(v.txq)[i] = v.txq[i + 1]
    BY <2>2
  <2>4. m.xid \in Nat /\ m.counted \in {0, 1} BY <2>3 DEF RconnMessage
  <2> HIDE DEF m
  <2>5. Append(v.out, m) \in Seq(RconnMessage) /\ Len(Append(v.out, m)) = Len(v.out) + 1
        /\ \A i \in 1..Len(v.out) : Append(v.out, m)[i] = v.out[i]
        /\ Append(v.out, m)[Len(v.out) + 1] = m
    BY <2>2, <2>3
  <2>6. n = Counted(Tail(v.txq)) /\ n \in Nat
    <3>1. v.n_queued = Counted(v.txq) BY <1>4 DEF GoodRconn
    <3>2. Counted(v.txq) = Counted(Tail(v.txq)) + m.counted /\ Counted(Tail(v.txq)) \in Nat BY <2>2, CountedTail
    <3>3. QED BY <2>4, <3>1, <3>2
  <2> HIDE DEF n
  <2>7. t \in Rconns BY <1>4, <2>3, <2>4, <2>5, <2>6 DEF Rconns
  <2>8. t.out = Append(v.out, m) /\ t.txq = Tail(v.txq) /\ t.n_queued = n /\ t.vcs = v.vcs /\ t.link = v.link
        /\ t.state = v.state /\ t.backoff = v.backoff /\ t.elapsed = v.elapsed /\ t.quiet = v.quiet
    BY <1>4 DEF Rconns
  <2> HIDE DEF t
  <2>9. HelloFirst(v) /\ HasStream(v) BY <1>4 DEF GoodRconn
  <2>10. m.type # "HELLO" BY <2>3, <2>9 DEF HelloFirst
  <2>11. HelloFirst(t)
    <3>1. \A i \in 1..Len(t.out) : t.out[i].type = "HELLO" => i = 1
      <4>1. \A i \in 1..Len(t.out) : i \in 1..Len(v.out) \/ i = Len(v.out) + 1 BY <2>2, <2>5, <2>8
      <4>2. \A i \in 1..Len(v.out) : v.out[i].type = "HELLO" => i = 1 BY <2>9 DEF HelloFirst
      <4>3. QED BY <2>5, <2>8, <2>10, <4>1, <4>2
    <3>2. \A i \in 1..Len(t.txq) : t.txq[i].type # "HELLO"
      <4>1. \A i \in 1..Len(v.txq) : v.txq[i].type # "HELLO" BY <2>9 DEF HelloFirst
      <4>2. \A i \in 1..(Len(v.txq) - 1) : i + 1 \in 1..Len(v.txq) BY <2>3
      <4>3. QED BY <2>3, <2>8, <4>1, <4>2
    <3>3. t.vcs = "CONNECTED" BY <1>10, <2>8
    <3>4. QED BY <3>1, <3>2, <3>3 DEF HelloFirst
  <2>12. HasStream(t)
    <3>1. t.state # "BACKOFF" /\ t.link # "none" BY <1>1, <1>4, <2>8, <2>9 DEF HasStream
    <3>2. QED BY <2>8, <2>9, <3>1 DEF HasStream
  <2>13. Unread(t) = Unread(v)
    <3>1. Sent(t) = Append(Sent(v), m) BY <1>4, <2>3, <2>8, <2>10, SentAppend
    <3>2. Sent(v) \in Seq(RconnMessage) BY <1>4, SentType
    <3>3. Append(Sent(v), m) \o Tail(v.txq) = Sent(v) \o v.txq BY <2>2, <3>2, MoveOver
    <3>4. QED BY <2>8, <3>1, <3>3 DEF Unread
  <2>14. GoodRconn(t) BY <2>6, <2>7, <2>8, <2>11, <2>12 DEF GoodRconn
  <2>15. Unread(v) = Unread(r) BY <1>4 DEF Unread
  <2>16. GoesOnSending(r, t) BY <1>4, <2>8, <2>13, <2>14, <2>15 DEF GoesOnSending
  <2>17. QED BY <2>1, <2>16
<1>11. CASE ~(v.vcs = "DISCONNECTED" \/ (v.vcs = "CONNECTED" /\ Broken(v))) /\ ~(v.vcs = "CONNECTED" /\ ~Broken(v) /\ HasRoom(v))
  <2>1. try_send(r) = w BY <1>11 DEF try_send, v, w
  <2>2. QED BY <1>8, <2>1
<1>12. QED BY <1>9, <1>10, <1>11

\* So does the loop.
LEMMA TxWorkKeeps ==
  ASSUME NEW r, GoodRconn(r), is_connected(r)
  PROVE  LostRconn(do_tx_work(r)) \/ GoesOnSending(r, do_tx_work(r))
<1> DEFINE S == {t \in Rconns : LostRconn(t) \/ GoesOnSending(r, t)}
           L == Len(r.txq)
           G(t) == IF t.txq = <<>> \/ ~is_connected(t) THEN t ELSE try_send(t)
           F == [t \in S |-> G(t)]
           After == CHOOSE f : f = [k \in 0..L |-> IF k = 0 THEN r ELSE G(f[k - 1])]
<1>1. L \in Nat
  <2>1. r.txq \in Seq(RconnMessage) BY DEF GoodRconn, Rconns
  <2>2. QED BY <2>1
<1>2. r \in S BY DEF GoodRconn, GoesOnSending
<1>3. \A t \in S : G(t) \in S
  <2>1. SUFFICES ASSUME NEW t \in S PROVE G(t) \in S OBVIOUS
  <2>2. CASE t.txq = <<>> \/ ~is_connected(t) BY <2>2
  <2>3. CASE t.txq # <<>> /\ is_connected(t)
    <3>1. ~LostRconn(t) BY <2>3 DEF LostRconn, is_connected
    <3>2. GoesOnSending(r, t) BY <3>1
    <3>3. LostRconn(try_send(t)) \/ GoesOnSending(t, try_send(t)) BY <2>3, <3>2, TrySendKeeps DEF GoesOnSending
    <3>4. LostRconn(try_send(t)) \/ GoesOnSending(r, try_send(t)) BY <3>2, <3>3 DEF GoesOnSending
    <3>5. try_send(t) \in Rconns BY <3>3 DEF LostRconn, GoesOnSending, GoodRconn
    <3>6. G(t) = try_send(t) BY <2>3
    <3>7. QED BY <3>4, <3>5, <3>6
  <2>4. QED BY <2>2, <2>3
<1>4. do_tx_work(r) = After[L] BY DEF do_tx_work
<1>5. After = CHOOSE f : f = [k \in 0..L |-> IF k = 0 THEN r ELSE G(f[k - 1])] OBVIOUS
<1> HIDE DEF S, L, G, After
<1>6. F \in [S -> S] BY <1>3
<1>7. PICK a : a \in [0..L -> S] /\ a[0] = r /\ \A k \in 1..L : a[k] = F[a[k - 1]]
  <2> HIDE DEF F
  <2>1. \E a : IsLoop(a, L, S, r, F) BY <1>1, <1>2, <1>6, LoopExists
  <2>2. QED BY <2>1 DEF IsLoop
<1>8. a = [k \in 0..L |-> IF k = 0 THEN r ELSE G(a[k - 1])]
  <2>1. \A k \in 1..L : a[k] = G(a[k - 1])
    <3>1. SUFFICES ASSUME NEW k \in 1..L PROVE a[k] = G(a[k - 1]) OBVIOUS
    <3>2. a[k - 1] \in S BY <1>1, <1>7
    <3>3. QED BY <1>7, <3>2
  <2>2. \A k \in 0..L : a[k] = IF k = 0 THEN r ELSE G(a[k - 1])
    <3>1. SUFFICES ASSUME NEW k \in 0..L PROVE a[k] = IF k = 0 THEN r ELSE G(a[k - 1]) OBVIOUS
    <3>2. CASE k = 0 BY <1>7, <3>2
    <3>3. CASE k # 0
      <4>1. k \in 1..L BY <1>1, <3>3
      <4>2. QED BY <2>1, <3>3, <4>1
    <3>4. QED BY <3>2, <3>3
  <2>3. QED BY <1>7, <2>2
<1>9. After = [k \in 0..L |-> IF k = 0 THEN r ELSE G(After[k - 1])] BY <1>5, <1>8
<1>10. After[0] = r BY <1>1, <1>9
<1>11. ASSUME NEW k \in 1..L, After[k - 1] \in S PROVE After[k] \in S
  <2>1. k \in 0..L /\ k # 0 BY <1>1
  <2>2. After[k] = G(After[k - 1]) BY <1>9, <2>1
  <2>3. QED BY <1>3, <1>11, <2>2
<1>12. \A k \in 0..L : After[k] \in S BY <1>1, <1>2, <1>10, <1>11, LoopStays
<1>13. L \in 0..L BY <1>1
<1>14. do_tx_work(r) \in S BY <1>4, <1>12, <1>13
<1>15. QED BY <1>14 DEF S

LEMMA AppendLast ==
  ASSUME NEW s \in Seq(RconnMessage), NEW q \in Seq(RconnMessage), NEW m \in RconnMessage
  PROVE  s \o Append(q, m) = (s \o q) \o <<m>>
<1> DEFINE a == s \o Append(q, m)
           b == (s \o q) \o <<m>>
<1>1. Append(q, m) \in Seq(RconnMessage) /\ Len(Append(q, m)) = Len(q) + 1 /\ Append(q, m)[Len(q) + 1] = m
      /\ \A i \in 1..Len(q) : Append(q, m)[i] = q[i]
  OBVIOUS
<1>2. s \o q \in Seq(RconnMessage) /\ Len(s \o q) = Len(s) + Len(q) /\ <<m>> \in Seq(RconnMessage)
      /\ Len(<<m>>) = 1 /\ <<m>>[1] = m /\ Len(s) \in Nat /\ Len(q) \in Nat
  OBVIOUS
<1>3. a \in Seq(RconnMessage) /\ b \in Seq(RconnMessage) BY <1>1, <1>2
<1>4. Len(a) = Len(s) + Len(q) + 1 /\ Len(b) = Len(s) + Len(q) + 1 BY <1>1, <1>2
<1>5. \A i \in 1..Len(b) : a[i] = b[i]
  <2>1. SUFFICES ASSUME NEW i \in 1..Len(b) PROVE a[i] = b[i] OBVIOUS
  <2>2. CASE i <= Len(s)
    <3>1. a[i] = s[i] BY <1>1, <1>2, <1>4, <2>2
    <3>2. (s \o q)[i] = s[i] BY <1>2, <1>4, <2>2
    <3>3. b[i] = (s \o q)[i] BY <1>2, <1>4, <2>2
    <3>4. QED BY <3>1, <3>2, <3>3
  <2>3. CASE i > Len(s) /\ i <= Len(s) + Len(q)
    <3>1. i - Len(s) \in 1..Len(q) BY <1>2, <1>4, <2>3
    <3>2. a[i] = Append(q, m)[i - Len(s)] BY <1>1, <1>2, <1>4, <2>3
    <3>3. b[i] = (s \o q)[i] BY <1>2, <1>4, <2>3
    <3>4. (s \o q)[i] = q[i - Len(s)] BY <1>2, <1>4, <2>3
    <3>5. QED BY <1>1, <3>1, <3>2, <3>3, <3>4
  <2>4. CASE i = Len(s) + Len(q) + 1
    <3>1. a[i] = m BY <1>1, <1>2, <2>4
    <3>2. b[i] = m BY <1>2, <2>4
    <3>3. QED BY <3>1, <3>2
  <2>5. QED BY <1>2, <1>4, <2>2, <2>3, <2>4
<1> HIDE DEF a, b
<1>6. QED BY <1>3, <1>4, <1>5 DEF a, b

LEMMA TailOfBoth ==
  ASSUME NEW s \in Seq(RconnMessage), NEW q \in Seq(RconnMessage), s # <<>>
  PROVE  Tail(s \o q) = Tail(s) \o q
<1> DEFINE a == Tail(s \o q)
           b == Tail(s) \o q
<1>1. Len(s) \in Nat /\ Len(s) > 0 /\ Len(q) \in Nat /\ Tail(s) \in Seq(RconnMessage) /\ Len(Tail(s)) = Len(s) - 1
      /\ \A i \in 1..(Len(s) - 1) : Tail(s)[i] = s[i + 1]
  OBVIOUS
<1>2. s \o q \in Seq(RconnMessage) /\ Len(s \o q) = Len(s) + Len(q) BY <1>1
<1>3. s \o q # <<>> BY <1>1, <1>2
<1>4. a \in Seq(RconnMessage) /\ Len(a) = Len(s) + Len(q) - 1
      /\ \A i \in 1..(Len(s) + Len(q) - 1) : a[i] = (s \o q)[i + 1]
  BY <1>1, <1>2, <1>3
<1>5. b \in Seq(RconnMessage) /\ Len(b) = Len(s) + Len(q) - 1 BY <1>1
<1>6. \A i \in 1..Len(b) : a[i] = b[i]
  <2>1. SUFFICES ASSUME NEW i \in 1..Len(b) PROVE a[i] = b[i] OBVIOUS
  <2>2. a[i] = (s \o q)[i + 1] BY <1>4, <1>5
  <2>3. CASE i <= Len(s) - 1
    <3>1. (s \o q)[i + 1] = s[i + 1] BY <1>1, <1>5, <2>3
    <3>2. b[i] = Tail(s)[i] BY <1>1, <1>5, <2>3
    <3>3. QED BY <1>1, <1>5, <2>2, <2>3, <3>1, <3>2
  <2>4. CASE i > Len(s) - 1
    <3>1. (s \o q)[i + 1] = q[i + 1 - Len(s)] BY <1>1, <1>5, <2>4
    <3>2. b[i] = q[i - (Len(s) - 1)] BY <1>1, <1>5, <2>4
    <3>3. i + 1 - Len(s) = i - (Len(s) - 1) BY <1>1, <1>5
    <3>4. QED BY <2>2, <3>1, <3>2, <3>3
  <2>5. QED BY <1>1, <1>5, <2>3, <2>4
<1> HIDE DEF a, b
<1>7. QED BY <1>4, <1>5, <1>6 DEF a, b

LEMMA UnreadType ==
  ASSUME NEW r \in Rconns
  PROVE  Unread(r) \in Seq(RconnMessage)
<1>1. Sent(r) \in Seq(RconnMessage) BY SentType
<1>2. r.txq \in Seq(RconnMessage) BY DEF Rconns
<1>3. QED BY <1>1, <1>2 DEF Unread

\* m is the last thing handed in.
HandsIn(r, t, m) ==
  /\ GoodRconn(t)
  /\ t.link = r.link /\ t.state = r.state /\ t.elapsed = r.elapsed /\ t.quiet = r.quiet
  /\ Unread(t) = Unread(r) \o <<m>>

LEMMA RconnSendKeeps ==
  ASSUME NEW r, GoodRconn(r), is_connected(r), NEW m \in RconnMessage, m.type # "HELLO"
  PROVE  LostRconn(rconn_send(r, m)) \/ HandsIn(r, rconn_send(r, m), m)
<1> DEFINE n == r.n_queued + m.counted
           q == [r EXCEPT !.txq = Append(@, m), !.n_queued = n]
<1>1. r.state \in {"ACTIVE", "IDLE"} BY DEF is_connected
<1>2. r \in Rconns /\ HelloFirst(r) /\ HasStream(r) /\ r.n_queued = Counted(r.txq) BY DEF GoodRconn
<1>3. r.txq \in Seq(RconnMessage) /\ Len(r.txq) \in Nat BY <1>2 DEF Rconns
<1>4. Append(r.txq, m) \in Seq(RconnMessage) /\ Len(Append(r.txq, m)) = Len(r.txq) + 1
      /\ Append(r.txq, m)[Len(r.txq) + 1] = m /\ \A i \in 1..Len(r.txq) : Append(r.txq, m)[i] = r.txq[i]
  BY <1>3
<1>5. n = Counted(Append(r.txq, m)) /\ n \in Nat
  <2>1. m.counted \in {0, 1} BY DEF RconnMessage
  <2>2. Counted(r.txq) \in Nat /\ Counted(Append(r.txq, m)) = Counted(r.txq) + m.counted BY <1>3, CountedAppend
  <2>3. QED BY <1>2, <2>1, <2>2
<1> HIDE DEF n
<1>6. q \in Rconns BY <1>2, <1>4, <1>5 DEF Rconns
<1>7. q.txq = Append(r.txq, m) /\ q.n_queued = n /\ q.out = r.out /\ q.vcs = r.vcs /\ q.link = r.link
      /\ q.state = r.state /\ q.backoff = r.backoff /\ q.elapsed = r.elapsed /\ q.quiet = r.quiet
  BY <1>2 DEF Rconns
<1>8. rconn_send(r, m) = IF Len(q.txq) = 1 THEN try_send(q) ELSE q BY DEF rconn_send, n
<1> HIDE DEF q
<1>9. HelloFirst(q)
  <2>1. \A i \in 1..Len(q.txq) : i \in 1..Len(r.txq) \/ i = Len(r.txq) + 1 BY <1>3, <1>4, <1>7
  <2>2. \A i \in 1..Len(r.txq) : r.txq[i].type # "HELLO" BY <1>2 DEF HelloFirst
  <2>3. \A i \in 1..Len(q.txq) : q.txq[i].type # "HELLO" BY <1>4, <1>7, <2>1, <2>2
  <2>4. QED BY <1>2, <1>7, <2>3 DEF HelloFirst
<1>10. HasStream(q) BY <1>1, <1>2, <1>7 DEF HasStream
<1>11. GoodRconn(q) BY <1>5, <1>6, <1>7, <1>9, <1>10 DEF GoodRconn
<1>12. Unread(q) = Unread(r) \o <<m>>
  <2>1. Sent(q) = Sent(r) BY <1>7 DEF Sent
  <2>2. Sent(r) \in Seq(RconnMessage) BY <1>2, SentType
  <2>3. Sent(r) \o Append(r.txq, m) = (Sent(r) \o r.txq) \o <<m>> BY <1>3, <2>2, AppendLast
  <2>4. QED BY <1>7, <2>1, <2>3 DEF Unread
<1>13. HandsIn(r, q, m) BY <1>7, <1>11, <1>12 DEF HandsIn
<1>14. LostRconn(try_send(q)) \/ GoesOnSending(q, try_send(q))
  <2>1. q.txq # <<>> BY <1>3, <1>4, <1>7
  <2>2. is_connected(q) BY <1>1, <1>7 DEF is_connected
  <2>3. QED BY <1>11, <2>1, <2>2, TrySendKeeps
<1>15. LostRconn(try_send(q)) \/ HandsIn(r, try_send(q), m) BY <1>13, <1>14 DEF HandsIn, GoesOnSending
<1>16. QED BY <1>8, <1>13, <1>15

-----------------------------------------------------------------------------
(* A round of rconn_run *)

JustEntered(s) == GoodRconn(s) /\ is_connected(s) /\ s.elapsed = 0 /\ s.quiet = 0

LEMMA TransitionKeeps ==
  ASSUME NEW r, GoodRconn(r), r.state \in {"CONNECTING", "ACTIVE", "IDLE"}, NEW s \in {"ACTIVE", "IDLE"}
  PROVE  LET t == state_transition(r, s)
         IN  JustEntered(t) /\ t.state = s /\ t.link = r.link /\ Unread(t) = Unread(r)
<1> DEFINE t == state_transition(r, s)
<1>1. r \in Rconns /\ HelloFirst(r) /\ HasStream(r) /\ r.n_queued = Counted(r.txq) BY DEF GoodRconn
<1>2. t \in Rconns BY <1>1 DEF Rconns, state_transition
<1>3. t.state = s /\ t.elapsed = 0 /\ t.quiet = 0 /\ t.txq = r.txq /\ t.n_queued = r.n_queued /\ t.out = r.out
      /\ t.vcs = r.vcs /\ t.link = r.link /\ t.backoff = r.backoff
  BY <1>1 DEF Rconns, state_transition
<1> HIDE DEF t
<1>4. HelloFirst(t) BY <1>1, <1>3 DEF HelloFirst
<1>5. HasStream(t) BY <1>1, <1>3 DEF HasStream
<1>6. GoodRconn(t) BY <1>1, <1>2, <1>3, <1>4, <1>5 DEF GoodRconn
<1>7. Unread(t) = Unread(r) BY <1>3 DEF Unread, Sent
<1>8. JustEntered(t) /\ t.state = s /\ t.link = r.link /\ Unread(t) = Unread(r)
  BY <1>3, <1>6, <1>7 DEF JustEntered, is_connected
<1>9. QED BY <1>8 DEF t

\* A new attempt at a connection has nothing in its stream yet.
Dials(t) == GoodRconn(t) /\ t.state = "CONNECTING" /\ t.elapsed = 0 /\ t.link = "dialling" /\ t.vcs = "CONNECTING"

LEMMA ReconnectDials ==
  ASSUME NEW r, GoodRconn(r), r.link = "none"
  PROVE  Dials(reconnect(r, FALSE)) /\ Unread(reconnect(r, FALSE)) = r.txq
<1> DEFINE b == [r EXCEPT !.vcs = "CONNECTING", !.link = "dialling", !.deadline = r.backoff]
           t == state_transition(b, "CONNECTING")
<1>1. r \in Rconns /\ HelloFirst(r) /\ HasStream(r) /\ r.n_queued = Counted(r.txq) BY DEF GoodRconn
<1>2. reconnect(r, FALSE) = t BY DEF reconnect
<1>3. r.backoff \in Nat BY <1>1 DEF Rconns
<1>4. b \in Rconns BY <1>1, <1>3 DEF Rconns
<1>5. b.vcs = "CONNECTING" /\ b.link = "dialling" /\ b.txq = r.txq /\ b.n_queued = r.n_queued /\ b.out = r.out
  BY <1>1 DEF Rconns
<1> HIDE DEF b
<1>6. t \in Rconns BY <1>4 DEF Rconns, state_transition
<1>7. t.state = "CONNECTING" /\ t.elapsed = 0 /\ t.vcs = "CONNECTING" /\ t.link = "dialling" /\ t.txq = r.txq
      /\ t.n_queued = r.n_queued /\ t.out = r.out
  BY <1>4, <1>5 DEF Rconns, state_transition
<1> HIDE DEF t
<1>8. r.out = <<>> /\ r.txq \in Seq(RconnMessage) BY <1>1 DEF HasStream, Rconns
<1>9. HelloFirst(t) BY <1>1, <1>7, <1>8 DEF HelloFirst
<1>10. HasStream(t) BY <1>7 DEF HasStream
<1>11. Sent(t) = <<>> BY <1>7, <1>8 DEF Sent
<1>12. Unread(t) = r.txq BY <1>7, <1>8, <1>11 DEF Unread
<1>13. QED BY <1>1, <1>2, <1>6, <1>7, <1>9, <1>10, <1>12 DEF Dials, GoodRconn

\* What one round makes of r.
RoundOf(r, s) ==
  \/ r.state \in {"VOID", "BACKOFF"} /\ s = r
  \/ r.state # "VOID" /\ LostRconn(s)
  \/ r.state = "BACKOFF" /\ Dials(s) /\ Unread(s) = <<>>
  \/ r.state \in {"CONNECTING", "ACTIVE", "IDLE"} /\ GoesOnSending(r, s)
  \/ /\ r.state = "CONNECTING" /\ s.state = "ACTIVE"
     /\ JustEntered(s) /\ s.link = r.link /\ Unread(s) = Unread(r)
  \/ /\ r.state = "ACTIVE" /\ s.state = "IDLE"
     /\ JustEntered(s) /\ s.link = r.link /\ Unread(s) = Unread(r) \o <<Probe(FreshXid(r))>>

LEMMA BackoffRound ==
  ASSUME NEW r, GoodRconn(r), r.state = "BACKOFF", NEW refused \in BOOLEAN
  PROVE  RoundOf(r, RunOnce(r, refused))
<1>1. r \in Rconns /\ HasStream(r) BY DEF GoodRconn
<1>2. r.link = "none" /\ r.txq = <<>> BY <1>1 DEF HasStream
<1>3. RunOnce(r, refused) = IF timed_out(r) THEN reconnect(r, refused) ELSE r BY DEF RunOnce
<1>4. CASE ~timed_out(r) BY <1>3, <1>4 DEF RoundOf
<1>5. CASE timed_out(r) /\ refused = TRUE
  <2> DEFINE w == [r EXCEPT !.deadline = Never]
  <2>1. RunOnce(r, refused) = disconnect(w) BY <1>3, <1>5 DEF reconnect
  <2>2. w \in Rconns BY <1>1, RconnConstants DEF Rconns
  <2>3. w.state = r.state /\ w.backoff = r.backoff /\ w.txq = r.txq /\ w.n_queued = r.n_queued /\ w.vcs = r.vcs
        /\ w.link = r.link /\ w.out = r.out
    BY <1>1 DEF Rconns
  <2> HIDE DEF w
  <2>4. GoodRconn(w) BY <2>2, <2>3, OthersKeep
  <2>5. LostRconn(disconnect(w)) BY <2>3, <2>4, DisconnectLoses
  <2>6. QED BY <2>1, <2>5 DEF RoundOf
<1>6. CASE timed_out(r) /\ refused = FALSE
  <2>1. RunOnce(r, refused) = reconnect(r, FALSE) BY <1>3, <1>6
  <2>2. Dials(reconnect(r, FALSE)) /\ Unread(reconnect(r, FALSE)) = <<>> BY <1>2, ReconnectDials
  <2>3. QED BY <2>1, <2>2 DEF RoundOf
<1>7. QED BY <1>4, <1>5, <1>6

LEMMA ConnectingRound ==
  ASSUME NEW r, GoodRconn(r), r.state = "CONNECTING", NEW refused \in BOOLEAN
  PROVE  RoundOf(r, RunOnce(r, refused))
<1> DEFINE v == vconn_connect(r)
<1>1. r \in Rconns /\ HasStream(r) BY DEF GoodRconn
<1>2. VconnKeeps(r, v) BY <1>1, ConnectKeeps DEF HasStream
<1>3. RunOnce(r, refused) = run_CONNECTING(r) BY DEF RunOnce
<1>4. run_CONNECTING(r) = CASE v.vcs = "CONNECTED"    -> state_transition(v, "ACTIVE")
                            [] v.vcs = "DISCONNECTED" -> disconnect(v)
                            [] OTHER -> IF timed_out(v) THEN disconnect([v EXCEPT !.deadline = Never]) ELSE v
  BY DEF run_CONNECTING
<1> HIDE DEF v
<1>5. GoodRconn(v) /\ v \in Rconns /\ v.state = "CONNECTING" /\ v.link = r.link /\ Unread(v) = Unread(r)
  BY <1>2 DEF VconnKeeps, GoodRconn, Unread
<1>6. CASE v.vcs = "CONNECTED"
  <2> DEFINE t == state_transition(v, "ACTIVE")
  <2>1. JustEntered(t) /\ t.state = "ACTIVE" /\ t.link = v.link /\ Unread(t) = Unread(v) BY <1>5, TransitionKeeps
  <2>2. RunOnce(r, refused) = t BY <1>3, <1>4, <1>6
  <2> HIDE DEF t
  <2>3. QED BY <1>5, <2>1, <2>2 DEF RoundOf
<1>7. CASE v.vcs = "DISCONNECTED"
  <2>1. RunOnce(r, refused) = disconnect(v) BY <1>3, <1>4, <1>7
  <2>2. LostRconn(disconnect(v)) BY <1>5, DisconnectLoses
  <2>3. QED BY <2>1, <2>2 DEF RoundOf
<1>8. CASE v.vcs \notin {"CONNECTED", "DISCONNECTED"} /\ timed_out(v)
  <2> DEFINE w == [v EXCEPT !.deadline = Never]
  <2>1. RunOnce(r, refused) = disconnect(w) BY <1>3, <1>4, <1>8
  <2>2. w \in Rconns BY <1>5, RconnConstants DEF Rconns
  <2>3. w.state = v.state /\ w.backoff = v.backoff /\ w.txq = v.txq /\ w.n_queued = v.n_queued /\ w.vcs = v.vcs
        /\ w.link = v.link /\ w.out = v.out
    BY <1>5 DEF Rconns
  <2> HIDE DEF w
  <2>4. GoodRconn(w) BY <1>5, <2>2, <2>3, OthersKeep
  <2>5. LostRconn(disconnect(w)) BY <1>5, <2>3, <2>4, DisconnectLoses
  <2>6. QED BY <2>1, <2>5 DEF RoundOf
<1>9. CASE v.vcs \notin {"CONNECTED", "DISCONNECTED"} /\ ~timed_out(v)
  <2>1. RunOnce(r, refused) = v BY <1>3, <1>4, <1>9
  <2>2. GoesOnSending(r, v) BY <1>2, <1>5 DEF VconnKeeps, GoesOnSending
  <2>3. QED BY <2>1, <2>2 DEF RoundOf
<1>10. QED BY <1>6, <1>7, <1>8, <1>9

LEMMA WorkRound ==
  ASSUME NEW r, GoodRconn(r), is_connected(r)
  PROVE  RoundOf(r, do_tx_work(r))
<1>1. LostRconn(do_tx_work(r)) \/ GoesOnSending(r, do_tx_work(r)) BY TxWorkKeeps
<1>2. QED BY <1>1 DEF RoundOf, is_connected

LEMMA ActiveRound ==
  ASSUME NEW r, GoodRconn(r), r.state = "ACTIVE", NEW refused \in BOOLEAN
  PROVE  RoundOf(r, RunOnce(r, refused))
<1>1. RunOnce(r, refused) = run_ACTIVE(r) BY DEF RunOnce
<1>2. CASE ~timed_out(r)
  <2>1. RunOnce(r, refused) = do_tx_work(r) BY <1>1, <1>2 DEF run_ACTIVE
  <2>2. QED BY <2>1, WorkRound DEF is_connected
<1>3. CASE timed_out(r)
  <2> DEFINE i == state_transition(r, "IDLE")
             m == Probe(FreshXid(r))
             s == rconn_send(i, m)
  <2>1. RunOnce(r, refused) = s BY <1>1, <1>3 DEF run_ACTIVE
  <2>2. JustEntered(i) /\ i.state = "IDLE" /\ i.link = r.link /\ Unread(i) = Unread(r) BY TransitionKeeps
  <2>3. m \in RconnMessage /\ m.type # "HELLO" BY ProbeType DEF GoodRconn
  <2> HIDE DEF i
  <2>4. LostRconn(s) \/ HandsIn(i, s, m)
    <3> HIDE DEF m
    <3>1. QED BY <2>2, <2>3, RconnSendKeeps DEF JustEntered
  <2> HIDE DEF s
  <2>5. CASE LostRconn(s) BY <2>1, <2>5 DEF RoundOf
  <2>6. CASE HandsIn(i, s, m)
    <3>1. JustEntered(s) /\ s.state = "IDLE" /\ s.link = r.link BY <2>2, <2>6 DEF HandsIn, JustEntered, is_connected
    <3>2. Unread(s) = Unread(r) \o <<Probe(FreshXid(r))>> BY <2>2, <2>6 DEF HandsIn
    <3>3. QED BY <2>1, <3>1, <3>2 DEF RoundOf
  <2>7. QED BY <2>4, <2>5, <2>6
<1>4. QED BY <1>2, <1>3

LEMMA IdleRound ==
  ASSUME NEW r, GoodRconn(r), r.state = "IDLE", NEW refused \in BOOLEAN
  PROVE  RoundOf(r, RunOnce(r, refused))
<1>1. RunOnce(r, refused) = run_IDLE(r) BY DEF RunOnce
<1>2. CASE ~timed_out(r)
  <2>1. RunOnce(r, refused) = do_tx_work(r) BY <1>1, <1>2 DEF run_IDLE
  <2>2. QED BY <2>1, WorkRound DEF is_connected
<1>3. CASE timed_out(r)
  <2>1. RunOnce(r, refused) = disconnect(r) BY <1>1, <1>3 DEF run_IDLE
  <2>2. LostRconn(disconnect(r)) BY DisconnectLoses
  <2>3. QED BY <2>1, <2>2 DEF RoundOf
<1>4. QED BY <1>2, <1>3

LEMMA EachRound ==
  ASSUME NEW r, GoodRconn(r), NEW refused \in BOOLEAN
  PROVE  RoundOf(r, RunOnce(r, refused))
<1>1. r.state \in {"VOID", "BACKOFF", "CONNECTING", "ACTIVE", "IDLE"} BY DEF GoodRconn, Rconns
<1>2. CASE r.state = "VOID" BY <1>2 DEF RunOnce, RoundOf
<1>3. QED BY <1>1, <1>2, BackoffRound, ConnectingRound, ActiveRound, IdleRound

\* A state just entered has not timed out.
LEMMA LostStays ==
  ASSUME NEW r, LostRconn(r), NEW refused \in BOOLEAN
  PROVE  RunOnce(r, refused) = r
<1>1. CASE r.state = "VOID" BY <1>1 DEF RunOnce
<1>2. CASE r.state = "BACKOFF"
  <2>1. r.elapsed = 0 /\ r.backoff \in Nat /\ r.backoff > 0 BY <1>2 DEF LostRconn, GoodRconn, Rconns, HasStream
  <2>2. timed_out(r) <=> r.elapsed >= r.backoff BY <1>2 DEF timed_out
  <2>3. ~timed_out(r) BY <2>1, <2>2
  <2>4. QED BY <1>2, <2>3 DEF RunOnce
<1>3. QED BY <1>1, <1>2 DEF LostRconn

LEMMA DialsStays ==
  ASSUME NEW r, Dials(r), NEW refused \in BOOLEAN
  PROVE  RunOnce(r, refused) = r
<1>1. r.state = "CONNECTING" /\ r.elapsed = 0 /\ r.link = "dialling" /\ r.vcs = "CONNECTING" /\ r.backoff \in Nat
  BY DEF Dials, GoodRconn, Rconns
<1>2. vcs_connecting(r) = r BY <1>1 DEF vcs_connecting
<1>3. vcs_send_hello(r) = r BY <1>1 DEF vcs_send_hello
<1>4. vcs_recv_hello(r) = r BY <1>1 DEF vcs_recv_hello
<1>5. vcs_send_error(r) = r BY <1>1 DEF vcs_send_error
<1>6. vconn_connect(r) = r BY <1>2, <1>3, <1>4, <1>5 DEF vconn_connect
<1>7. timed_out(r) <=> r.elapsed >= Max({1, r.backoff}) BY <1>1 DEF timed_out
<1>8. Max({1, r.backoff}) \in Nat \ {0} BY <1>1, MaxOfPair
<1>9. ~timed_out(r) BY <1>1, <1>7, <1>8
<1>10. run_CONNECTING(r) = r BY <1>1, <1>6, <1>9 DEF run_CONNECTING
<1>11. QED BY <1>1, <1>10 DEF RunOnce

LEMMA JustEnteredWorks ==
  ASSUME NEW r, JustEntered(r), NEW refused \in BOOLEAN
  PROVE  LostRconn(RunOnce(r, refused)) \/ GoesOnSending(r, RunOnce(r, refused))
<1>1. GoodRconn(r) /\ is_connected(r) /\ r.elapsed = 0 /\ r.quiet = 0 BY DEF JustEntered
<1>2. r.state \in {"ACTIVE", "IDLE"} BY <1>1 DEF is_connected
<1>3. ~timed_out(r)
  <2>1. CASE r.state = "ACTIVE"
    <3>1. timed_out(r) <=> r.quiet >= probe_interval BY <2>1 DEF timed_out
    <3>2. QED BY <1>1, <3>1, RconnConstants
  <2>2. CASE r.state = "IDLE"
    <3>1. timed_out(r) <=> r.elapsed >= probe_interval BY <2>2 DEF timed_out
    <3>2. QED BY <1>1, <3>1, RconnConstants
  <2>3. QED BY <1>2, <2>1, <2>2
<1>4. RunOnce(r, refused) = do_tx_work(r) BY <1>2, <1>3 DEF RunOnce, run_ACTIVE, run_IDLE
<1>5. QED BY <1>1, <1>4, TxWorkKeeps

-----------------------------------------------------------------------------
(* The calls *)

\* What a call of rconn_run makes of r.
RunOf(r, s) ==
  \/ s = r
  \/ r.state # "VOID" /\ LostRconn(s)
  \/ r.state = "BACKOFF" /\ Dials(s) /\ Unread(s) = <<>>
  \/ /\ r.state \in {"CONNECTING", "ACTIVE", "IDLE"} /\ ~(r.state = "ACTIVE" /\ s.state = "IDLE")
     /\ GoodRconn(s) /\ s.link = r.link /\ Unread(s) = Unread(r)
  \/ /\ r.state = "ACTIVE" /\ s.state = "IDLE"
     /\ GoodRconn(s) /\ s.link = r.link /\ Unread(s) = Unread(r) \o <<Probe(FreshXid(r))>>

\* The loop of rconn_run ends: the third round, if there is one, leaves the
\* state alone.
LEMMA RunShape ==
  ASSUME NEW r, GoodRconn(r), NEW refused \in BOOLEAN
  PROVE  LET first  == RunOnce(r, refused)
             second == Again(r, first, refused)
             third  == Again(first, second, refused)
         IN  third.state = second.state /\ rconn_run(r, refused) = third /\ RunOf(r, third)
<1> DEFINE first  == RunOnce(r, refused)
           second == Again(r, first, refused)
           third  == Again(first, second, refused)
<1>1. rconn_run(r, refused) = third BY DEF rconn_run
<1>2. RoundOf(r, first) BY EachRound
<1>3. second = IF first.state = r.state THEN first ELSE RunOnce(first, refused) BY DEF Again
<1>4. third = IF second.state = first.state THEN second ELSE RunOnce(second, refused) BY DEF Again
<1> HIDE DEF first, second, third
<1>5. CASE first.state = r.state
  <2>1. second = first /\ third = first BY <1>3, <1>4, <1>5
  <2>2. RunOf(r, first) BY <1>2, <1>5 DEF RoundOf, RunOf, GoesOnSending
  <2>3. QED BY <1>1, <2>1, <2>2 DEF first, second, third
<1>6. CASE first.state # r.state
  <2>1. second = RunOnce(first, refused) BY <1>3, <1>6
  <2>2. CASE r.state # "VOID" /\ LostRconn(first)
    <3>1. second = first BY <2>1, <2>2, LostStays
    <3>2. third = first BY <1>4, <3>1
    <3>3. RunOf(r, first) BY <2>2 DEF RunOf
    <3>4. QED BY <1>1, <3>1, <3>2, <3>3 DEF first, second, third
  <2>3. CASE r.state = "BACKOFF" /\ Dials(first) /\ Unread(first) = <<>>
    <3>1. second = first BY <2>1, <2>3, DialsStays
    <3>2. third = first BY <1>4, <3>1
    <3>3. RunOf(r, first) BY <2>3 DEF RunOf
    <3>4. QED BY <1>1, <3>1, <3>2, <3>3 DEF first, second, third
  <2>4. ASSUME JustEntered(first), r.state # "VOID",
               \A s : GoodRconn(s) /\ s.link = first.link /\ s.state = first.state /\ Unread(s) = Unread(first) => RunOf(r, s)
        PROVE  third.state = second.state /\ RunOf(r, third)
    <3>1. LostRconn(second) \/ GoesOnSending(first, second) BY <2>1, <2>4, JustEnteredWorks
    <3>2. CASE LostRconn(second)
      <4>1. RunOnce(second, refused) = second BY <3>2, LostStays
      <4>2. third = second BY <1>4, <4>1
      <4>3. QED BY <2>4, <3>2, <4>2 DEF RunOf
    <3>3. CASE GoesOnSending(first, second)
      <4>1. second.state = first.state /\ third = second BY <1>4, <3>3 DEF GoesOnSending
      <4>2. RunOf(r, second) BY <2>4, <3>3 DEF GoesOnSending
      <4>3. QED BY <4>1, <4>2
    <3>4. QED BY <3>1, <3>2, <3>3
  <2>5. CASE /\ r.state = "CONNECTING" /\ first.state = "ACTIVE"
             /\ JustEntered(first) /\ first.link = r.link /\ Unread(first) = Unread(r)
    <3>1. \A s : GoodRconn(s) /\ s.link = first.link /\ s.state = first.state /\ Unread(s) = Unread(first) => RunOf(r, s)
      BY <2>5 DEF RunOf
    <3>2. third.state = second.state /\ RunOf(r, third) BY <2>4, <2>5, <3>1
    <3>3. QED BY <1>1, <3>2 DEF first, second, third
  <2>6. CASE /\ r.state = "ACTIVE" /\ first.state = "IDLE"
             /\ JustEntered(first) /\ first.link = r.link /\ Unread(first) = Unread(r) \o <<Probe(FreshXid(r))>>
    <3>1. \A s : GoodRconn(s) /\ s.link = first.link /\ s.state = first.state /\ Unread(s) = Unread(first) => RunOf(r, s)
      BY <2>6 DEF RunOf
    <3>2. third.state = second.state /\ RunOf(r, third) BY <2>4, <2>6, <3>1
    <3>3. QED BY <1>1, <3>2 DEF first, second, third
  <2>7. QED BY <1>2, <1>6, <2>2, <2>3, <2>5, <2>6 DEF RoundOf, GoesOnSending
<1>7. QED BY <1>5, <1>6

\* What a call of rconn_recv makes of r.
RecvOf(r, s) ==
  \/ s = r
  \/ r.state # "VOID" /\ LostRconn(s)
  \/ is_connected(r) /\ GoodRconn(s) /\ s.link = r.link /\ Unread(s) = Unread(r)

LEMMA HeardKeeps ==
  ASSUME NEW r, GoodRconn(r), is_connected(r), NEW m \in RconnMessage
  PROVE  GoodRconn(Heard(r, m)) /\ Heard(r, m).link = r.link /\ Unread(Heard(r, m)) = Unread(r)
<1> DEFINE t == state_transition(r, "ACTIVE")
           h == IF r.idle_echo_xid = m.xid THEN t ELSE r
           w == [h EXCEPT !.idle_echo_xid = NoXid]
<1>1. r.state \in {"ACTIVE", "IDLE"} BY DEF is_connected
<1>2. GoodRconn(t) /\ t.link = r.link /\ Unread(t) = Unread(r) BY <1>1, TransitionKeeps DEF JustEntered
<1>3. CASE r.state = "ACTIVE"
  <2>1. Heard(r, m) = r BY <1>3 DEF Heard
  <2>2. QED BY <2>1
<1>4. CASE r.state = "IDLE" /\ (m.type # "ECHO_REPLY" \/ r.idle_echo_xid = NoXid)
  <2>1. Heard(r, m) = t BY <1>4 DEF Heard
  <2>2. QED BY <1>2, <2>1
<1>5. CASE r.state = "IDLE" /\ m.type = "ECHO_REPLY" /\ r.idle_echo_xid # NoXid
  <2>1. Heard(r, m) = w BY <1>5 DEF Heard
  <2> HIDE DEF t
  <2>2. GoodRconn(h) /\ h.link = r.link /\ Unread(h) = Unread(r) BY <1>2
  <2> HIDE DEF h
  <2>3. h \in Rconns BY <2>2 DEF GoodRconn
  <2>4. w \in Rconns BY <2>3 DEF Rconns, NoXid
  <2>5. w.state = h.state /\ w.backoff = h.backoff /\ w.txq = h.txq /\ w.n_queued = h.n_queued /\ w.vcs = h.vcs
        /\ w.link = h.link /\ w.out = h.out
    BY <2>3 DEF Rconns
  <2> HIDE DEF w
  <2>6. GoodRconn(w) /\ Sent(w) = Sent(h) BY <2>2, <2>4, <2>5, OthersKeep
  <2>7. QED BY <2>1, <2>2, <2>5, <2>6 DEF Unread
<1>6. QED BY <1>1, <1>3, <1>4, <1>5

LEMMA RecvShape ==
  ASSUME NEW r, GoodRconn(r)
  PROVE  RecvOf(r, rconn_recv(r))
<1> DEFINE v == vconn_connect(r)
           w == [v EXCEPT !.in = Tail(@), !.quiet = 0]
<1>1. CASE ~is_connected(r)
  <2>1. rconn_recv(r) = r BY <1>1 DEF rconn_recv
  <2>2. QED BY <2>1 DEF RecvOf
<1>2. CASE is_connected(r)
  <2>1. r \in Rconns /\ HasStream(r) /\ r.state \in {"ACTIVE", "IDLE"} BY <1>2 DEF GoodRconn, is_connected
  <2>2. VconnKeeps(r, v) BY <2>1, ConnectKeeps DEF HasStream
  <2>3. rconn_recv(r) = CASE v.vcs = "DISCONNECTED" -> disconnect(v)
                          [] v.vcs = "CONNECTED" /\ v.in # <<>> -> Heard(w, Head(v.in))
                          [] v.vcs = "CONNECTED" /\ v.in = <<>> /\ Broken(v) -> disconnect(v)
                          [] OTHER -> v
    BY <1>2 DEF rconn_recv
  <2> HIDE DEF v
  <2>4. GoodRconn(v) /\ v \in Rconns /\ v.state = r.state /\ v.link = r.link /\ Unread(v) = Unread(r)
    BY <2>2 DEF VconnKeeps, GoodRconn, Unread
  <2>5. LostRconn(disconnect(v)) BY <2>1, <2>4, DisconnectLoses
  <2>6. CASE v.vcs = "DISCONNECTED"
    <3>1. rconn_recv(r) = disconnect(v) BY <2>3, <2>6
    <3>2. QED BY <2>1, <2>5, <3>1 DEF RecvOf
  <2>7. CASE v.vcs = "CONNECTED" /\ v.in # <<>>
    <3>1. rconn_recv(r) = Heard(w, Head(v.in)) BY <2>3, <2>7
    <3>2. v.in \in Seq(RconnMessage) BY <2>4 DEF Rconns
    <3>3. Head(v.in) \in RconnMessage /\ Tail(v.in) \in Seq(RconnMessage) BY <2>7, <3>2
    <3>4. w \in Rconns BY <2>4, <3>3 DEF Rconns
    <3>5. w.state = v.state /\ w.backoff = v.backoff /\ w.txq = v.txq /\ w.n_queued = v.n_queued /\ w.vcs = v.vcs
          /\ w.link = v.link /\ w.out = v.out
      BY <2>4 DEF Rconns
    <3> HIDE DEF w
    <3>6. GoodRconn(w) /\ Sent(w) = Sent(v) BY <2>4, <3>4, <3>5, OthersKeep
    <3>7. is_connected(w) BY <2>1, <2>4, <3>5 DEF is_connected
    <3> DEFINE h == Heard(w, Head(v.in))
    <3>8. GoodRconn(h) /\ h.link = w.link /\ Unread(h) = Unread(w) BY <3>3, <3>6, <3>7, HeardKeeps
    <3>9. Unread(w) = Unread(v) BY <3>5, <3>6 DEF Unread
    <3> HIDE DEF h
    <3>10. GoodRconn(h) /\ h.link = r.link /\ Unread(h) = Unread(r) BY <2>4, <3>5, <3>8, <3>9
    <3>11. QED BY <1>2, <3>1, <3>10 DEF RecvOf, h
  <2>8. CASE v.vcs = "CONNECTED" /\ v.in = <<>> /\ Broken(v)
    <3>1. rconn_recv(r) = disconnect(v) BY <2>3, <2>8
    <3>2. QED BY <2>1, <2>5, <3>1 DEF RecvOf
  <2>9. CASE v.vcs # "DISCONNECTED" /\ ~(v.vcs = "CONNECTED" /\ v.in # <<>>) /\ ~(v.vcs = "CONNECTED" /\ v.in = <<>> /\ Broken(v))
    <3>1. rconn_recv(r) = v BY <2>3, <2>9
    <3>2. QED BY <1>2, <2>4, <3>1 DEF RecvOf
  <2>10. QED BY <2>6, <2>7, <2>8, <2>9
<1>3. QED BY <1>1, <1>2

-----------------------------------------------------------------------------
(* The steps *)

\* A connection that was lost, that goes on, or that begins.
LEMMA BecomesKeeps ==
  ASSUME RconnAgrees, NEW s, NEW given, given \in Seq(RconnMessage), Becomes(s, given),
         \/ rc.state # "VOID" /\ LostRconn(s) /\ given = <<>>
         \/ GoodRconn(s) /\ s.link = rc.link /\ rc.link # "none" /\ Unread(s) = Unread(rc) \o given
         \/ GoodRconn(s) /\ s.link # rc.link /\ Unread(s) = <<>>
  PROVE  Agrees(rc', pending')
<1>1. GoodRconn(rc) /\ HasStream(rc) /\ pending \in Seq(RconnMessage) /\ (rc.state # "VOID" => Unread(rc) = pending)
  BY DEF RconnAgrees, Agrees, GoodRconn
<1>2. rc' = s /\ pending' = IF s.link = rc.link THEN pending \o given ELSE <<>> BY DEF Becomes
<1>3. pending \o given \in Seq(RconnMessage) /\ <<>> \in Seq(RconnMessage) /\ pending \o <<>> = pending BY <1>1
<1>4. pending' \in Seq(RconnMessage) BY <1>2, <1>3
<1>5. CASE rc.state # "VOID" /\ LostRconn(s) /\ given = <<>>
  <2>1. GoodRconn(s) /\ HasStream(s) /\ s.state \in {"VOID", "BACKOFF"} BY <1>5 DEF LostRconn, GoodRconn
  <2>2. CASE s.state = "VOID" BY <1>2, <1>4, <2>1, <2>2 DEF Agrees
  <2>3. CASE s.state = "BACKOFF"
    <3>1. s.link = "none" /\ s.txq = <<>> /\ s.out = <<>> BY <2>1, <2>3 DEF HasStream
    <3>2. Unread(s) = <<>> BY <3>1 DEF Unread, Sent
    <3>3. pending' = <<>>
      <4>1. CASE rc.link # "none" BY <1>2, <3>1, <4>1
      <4>2. CASE rc.link = "none"
        <5>1. rc.state = "BACKOFF" BY <1>1, <1>5, <4>2 DEF HasStream
        <5>2. rc.out = <<>> /\ rc.txq = <<>> BY <1>1, <5>1 DEF HasStream
        <5>3. Unread(rc) = <<>> BY <5>2 DEF Unread, Sent
        <5>4. pending = <<>> BY <1>1, <5>1, <5>3
        <5>5. QED BY <1>2, <1>3, <1>5, <3>1, <4>2, <5>4
      <4>3. QED BY <4>1, <4>2
    <3>4. QED BY <1>2, <1>4, <2>1, <3>2, <3>3 DEF Agrees
  <2>4. QED BY <2>1, <2>2, <2>3
<1>6. CASE GoodRconn(s) /\ s.link = rc.link /\ rc.link # "none" /\ Unread(s) = Unread(rc) \o given
  <2>1. rc.state # "VOID" BY <1>1, <1>6 DEF HasStream
  <2>2. Unread(s) = pending' BY <1>1, <1>2, <1>6, <2>1
  <2>3. QED BY <1>2, <1>4, <1>6, <2>2 DEF Agrees
<1>7. CASE GoodRconn(s) /\ s.link # rc.link /\ Unread(s) = <<>> BY <1>2, <1>4, <1>7 DEF Agrees
<1>8. QED BY <1>5, <1>6, <1>7

LEMMA RunAgrees ==
  ASSUME RconnAgrees, Run
  PROVE  Agrees(rc', pending')
<1>1. PICK refused \in BOOLEAN :
        LET r == rconn_run(rc, refused)
            probed == rc.state = "ACTIVE" /\ r.state = "IDLE"
        IN  Becomes(r, IF probed THEN <<Probe(FreshXid(rc))>> ELSE <<>>)
  BY DEF Run
<1> DEFINE s == rconn_run(rc, refused)
           given == IF rc.state = "ACTIVE" /\ s.state = "IDLE" THEN <<Probe(FreshXid(rc))>> ELSE <<>>
<1>2. Becomes(s, given) BY <1>1
<1>3. GoodRconn(rc) /\ rc \in Rconns /\ HasStream(rc) BY DEF RconnAgrees, Agrees, GoodRconn
<1>4. RunOf(rc, s) BY <1>3, RunShape
<1> HIDE DEF s
<1>5. s # rc BY <1>2 DEF Becomes
<1>6. Probe(FreshXid(rc)) \in RconnMessage BY <1>3, ProbeType
<1>7. given \in Seq(RconnMessage)
  <2>1. <<>> \in Seq(RconnMessage) /\ <<Probe(FreshXid(rc))>> \in Seq(RconnMessage) BY <1>6
  <2>2. QED BY <2>1
<1>8. CASE rc.state # "VOID" /\ LostRconn(s)
  <2>1. given = <<>> BY <1>8 DEF LostRconn
  <2> HIDE DEF given
  <2>2. QED BY <1>2, <1>7, <1>8, <2>1, BecomesKeeps
<1>9. CASE rc.state = "BACKOFF" /\ Dials(s) /\ Unread(s) = <<>>
  <2>1. GoodRconn(s) /\ s.link # rc.link BY <1>3, <1>9 DEF Dials, HasStream
  <2> HIDE DEF given
  <2>2. QED BY <1>2, <1>7, <1>9, <2>1, BecomesKeeps
<1>10. CASE /\ rc.state \in {"CONNECTING", "ACTIVE", "IDLE"} /\ ~(rc.state = "ACTIVE" /\ s.state = "IDLE")
            /\ GoodRconn(s) /\ s.link = rc.link /\ Unread(s) = Unread(rc)
  <2>1. given = <<>> BY <1>10
  <2>2. rc.link # "none" BY <1>3, <1>10 DEF HasStream
  <2> HIDE DEF given
  <2>3. Unread(s) = Unread(rc) \o given
    <3>1. Unread(rc) \in Seq(RconnMessage) BY <1>3, UnreadType
    <3>2. QED BY <1>10, <2>1, <3>1
  <2>4. QED BY <1>2, <1>7, <1>10, <2>2, <2>3, BecomesKeeps
<1>11. CASE /\ rc.state = "ACTIVE" /\ s.state = "IDLE"
            /\ GoodRconn(s) /\ s.link = rc.link /\ Unread(s) = Unread(rc) \o <<Probe(FreshXid(rc))>>
  <2>1. given = <<Probe(FreshXid(rc))>> BY <1>11
  <2>2. rc.link # "none" BY <1>3, <1>11 DEF HasStream
  <2> HIDE DEF given
  <2>3. QED BY <1>2, <1>7, <1>11, <2>1, <2>2, BecomesKeeps
<1>12. QED BY <1>4, <1>5, <1>8, <1>9, <1>10, <1>11 DEF RunOf

LEMMA ReceiveAgrees ==
  ASSUME RconnAgrees, ReceiveMsg
  PROVE  Agrees(rc', pending')
<1> DEFINE s == rconn_recv(rc)
<1>1. Becomes(s, <<>>) BY DEF ReceiveMsg
<1>2. GoodRconn(rc) /\ rc \in Rconns /\ HasStream(rc) BY DEF RconnAgrees, Agrees, GoodRconn
<1>3. RecvOf(rc, s) BY <1>2, RecvShape
<1> HIDE DEF s
<1>4. s # rc BY <1>1 DEF Becomes
<1>5. <<>> \in Seq(RconnMessage) OBVIOUS
<1>6. CASE rc.state # "VOID" /\ LostRconn(s) BY <1>1, <1>5, <1>6, BecomesKeeps
<1>7. CASE is_connected(rc) /\ GoodRconn(s) /\ s.link = rc.link /\ Unread(s) = Unread(rc)
  <2>1. rc.link # "none" BY <1>2, <1>7 DEF HasStream, is_connected
  <2>2. Unread(s) = Unread(rc) \o <<>>
    <3>1. Unread(rc) \in Seq(RconnMessage) BY <1>2, UnreadType
    <3>2. QED BY <1>7, <3>1
  <2>3. QED BY <1>1, <1>5, <1>7, <2>1, <2>2, BecomesKeeps
<1>8. QED BY <1>3, <1>4, <1>6, <1>7 DEF RecvOf

LEMMA SendAgrees ==
  ASSUME RconnAgrees, SendMsg
  PROVE  Agrees(rc', pending')
<1> DEFINE m == Msg("MSG", Foreign, 1)
           s == rconn_send(rc, m)
<1>1. is_connected(rc) /\ Becomes(s, <<m>>) BY DEF SendMsg
<1>2. GoodRconn(rc) /\ HasStream(rc) BY DEF RconnAgrees, Agrees, GoodRconn
<1>3. m \in RconnMessage /\ m.type # "HELLO" BY DEF Msg, Foreign, RconnMessage
<1> HIDE DEF m
<1>4. LostRconn(s) \/ HandsIn(rc, s, m) BY <1>1, <1>2, <1>3, RconnSendKeeps
<1> HIDE DEF s
<1>5. <<m>> \in Seq(RconnMessage) BY <1>3
<1>6. rc.state \in {"ACTIVE", "IDLE"} /\ rc.link # "none" BY <1>1, <1>2 DEF is_connected, HasStream
<1>7. CASE HandsIn(rc, s, m)
  <2>1. GoodRconn(s) /\ s.link = rc.link /\ Unread(s) = Unread(rc) \o <<m>> BY <1>7 DEF HandsIn
  <2>2. QED BY <1>1, <1>5, <1>6, <2>1, BecomesKeeps
<1>8. CASE LostRconn(s)
  <2>1. GoodRconn(s) /\ HasStream(s) /\ s.state \in {"VOID", "BACKOFF"} BY <1>8 DEF LostRconn, GoodRconn
  <2>2. s.link = "none" BY <2>1 DEF HasStream
  <2>3. rc' = s /\ pending' = <<>> BY <1>1, <1>6, <2>2 DEF Becomes
  <2>4. <<>> \in Seq(RconnMessage) OBVIOUS
  <2>5. CASE s.state = "VOID" BY <2>1, <2>3, <2>4, <2>5 DEF Agrees
  <2>6. CASE s.state = "BACKOFF"
    <3>1. s.txq = <<>> /\ s.out = <<>> BY <2>1, <2>2, <2>6 DEF HasStream
    <3>2. Unread(s) = <<>> BY <3>1 DEF Unread, Sent
    <3>3. QED BY <2>1, <2>3, <2>4, <3>2 DEF Agrees
  <2>7. QED BY <2>1, <2>5, <2>6
<1>9. QED BY <1>4, <1>7, <1>8

LEMMA RedialAgrees ==
  ASSUME RconnAgrees, Redial
  PROVE  Agrees(rc', pending')
<1> DEFINE d == rconn_disconnect(rc)
           w == [d EXCEPT !.reliable = TRUE]
<1>1. is_connected(rc) /\ rc' = reconnect(w, FALSE) /\ pending' = rc.txq BY DEF Redial
<1>2. GoodRconn(rc) /\ rc \in Rconns BY DEF RconnAgrees, Agrees, GoodRconn
<1>3. rc.state # "VOID" BY <1>1 DEF is_connected
<1>4. LostRconn(d) /\ d.txq = rc.txq BY <1>2, <1>3, RconnDisconnectLoses
<1> HIDE DEF d
<1>5. GoodRconn(d) /\ d \in Rconns /\ d.link = "none" BY <1>4 DEF LostRconn, GoodRconn, HasStream
<1>6. w \in Rconns BY <1>5 DEF Rconns
<1>7. w.state = d.state /\ w.backoff = d.backoff /\ w.txq = d.txq /\ w.n_queued = d.n_queued /\ w.vcs = d.vcs
      /\ w.link = d.link /\ w.out = d.out
  BY <1>5 DEF Rconns
<1> HIDE DEF w
<1>8. GoodRconn(w) BY <1>5, <1>6, <1>7, OthersKeep
<1>9. Dials(rc') /\ Unread(rc') = w.txq BY <1>1, <1>5, <1>7, <1>8, ReconnectDials
<1>10. rc.txq \in Seq(RconnMessage) BY <1>2 DEF Rconns
<1>11. QED BY <1>1, <1>4, <1>7, <1>9, <1>10 DEF Agrees, Dials

LEMMA AcceptedAgrees == GoodRconn(Accepted) /\ Unread(Accepted) = <<>> /\ Accepted.link = "up"
<1>1. <<>> \in Seq(RconnMessage) OBVIOUS
<1>2. Accepted \in Rconns BY <1>1 DEF Accepted, Fresh, NoXid, Rconns
<1>3. Accepted.out = <<>> /\ Accepted.txq = <<>> /\ Accepted.vcs = "SEND_HELLO" /\ Accepted.link = "up"
      /\ Accepted.state = "ACTIVE" /\ Accepted.n_queued = 0
  BY DEF Accepted, Fresh
<1>4. HelloFirst(Accepted) BY <1>3 DEF HelloFirst
<1>5. HasStream(Accepted) BY <1>3 DEF HasStream
<1>6. Unread(Accepted) = <<>> BY <1>3 DEF Unread, Sent
<1>7. QED BY <1>2, <1>3, <1>4, <1>5, <1>6, CountedEmpty DEF GoodRconn

LEMMA DialledAgrees == GoodRconn(Dialled) /\ Unread(Dialled) = <<>>
<1> DEFINE f == [Fresh("VOID", "NONE", "none") EXCEPT !.reliable = TRUE]
<1>1. <<>> \in Seq(RconnMessage) OBVIOUS
<1>2. Fresh("VOID", "NONE", "none") \in Rconns BY <1>1 DEF Fresh, NoXid, Rconns
<1>3. f \in Rconns BY <1>2 DEF Rconns
<1>4. f.out = <<>> /\ f.txq = <<>> /\ f.vcs = "NONE" /\ f.link = "none" /\ f.state = "VOID" /\ f.n_queued = 0
  BY DEF Fresh
<1>5. Dialled = reconnect(f, FALSE) BY DEF Dialled
<1> HIDE DEF f
<1>6. HelloFirst(f) BY <1>4 DEF HelloFirst
<1>7. HasStream(f) BY <1>4 DEF HasStream
<1>8. GoodRconn(f) BY <1>3, <1>4, <1>6, <1>7, CountedEmpty DEF GoodRconn
<1>9. Dials(Dialled) /\ Unread(Dialled) = <<>> BY <1>4, <1>5, <1>8, ReconnectDials
<1>10. QED BY <1>9 DEF Dials

LEMMA AcceptAgrees ==
  ASSUME RconnAgrees, Accept
  PROVE  Agrees(rc', pending')
<1>1. Becomes(Accepted, <<>>) /\ rc.state = "VOID" BY DEF Accept
<1>2. HasStream(rc) BY DEF RconnAgrees, Agrees, GoodRconn
<1>3. Accepted.link # rc.link BY <1>1, <1>2, AcceptedAgrees DEF HasStream
<1>4. <<>> \in Seq(RconnMessage) OBVIOUS
<1>5. QED BY <1>1, <1>3, <1>4, AcceptedAgrees, BecomesKeeps

\* What changes the stream, but not what goes out, and the times.
LEMMA LinkAgrees ==
  ASSUME RconnAgrees, NEW w, w \in Rconns, pending' = pending, rc' = w,
         w.state = rc.state, w.backoff = rc.backoff, w.txq = rc.txq, w.n_queued = rc.n_queued,
         w.vcs = rc.vcs, w.out = rc.out, w.link = "none" <=> rc.link = "none"
  PROVE  Agrees(rc', pending')
<1>1. HelloFirst(rc) /\ HasStream(rc) /\ rc.n_queued = Counted(rc.txq) /\ pending \in Seq(RconnMessage)
      /\ (rc.state # "VOID" => Unread(rc) = pending)
  BY DEF RconnAgrees, Agrees, GoodRconn
<1>2. HelloFirst(w) BY <1>1 DEF HelloFirst
<1>3. HasStream(w) BY <1>1 DEF HasStream
<1>4. GoodRconn(w) BY <1>1, <1>2, <1>3 DEF GoodRconn
<1>5. Unread(w) = Unread(rc) BY DEF Unread, Sent
<1>6. QED BY <1>1, <1>4, <1>5 DEF Agrees

LEMMA PeerConnectsAgrees ==
  ASSUME RconnAgrees, PeerConnects
  PROVE  Agrees(rc', pending')
<1> DEFINE l == IF mode = "absent" THEN "broken" ELSE "up"
           w == [rc EXCEPT !.link = l]
<1>1. rc.link = "dialling" /\ rc' = w /\ pending' = pending BY DEF PeerConnects
<1>2. rc \in Rconns BY DEF RconnAgrees, Agrees, GoodRconn
<1>3. l \in {"broken", "up"} OBVIOUS
<1> HIDE DEF l
<1>4. w \in Rconns BY <1>2, <1>3 DEF Rconns
<1>5. w.state = rc.state /\ w.backoff = rc.backoff /\ w.txq = rc.txq /\ w.n_queued = rc.n_queued
      /\ w.vcs = rc.vcs /\ w.out = rc.out /\ w.link = l
  BY <1>2 DEF Rconns
<1> HIDE DEF w
<1>6. w.link = "none" <=> rc.link = "none" BY <1>1, <1>3, <1>5
<1>7. QED BY <1>1, <1>4, <1>5, <1>6, LinkAgrees

LEMMA SaysAgrees ==
  ASSUME RconnAgrees, NEW m \in RconnMessage, PeerSays(m), pending' = pending
  PROVE  Agrees(rc', pending')
<1> DEFINE w == [rc EXCEPT !.in = Append(@, m)]
<1>1. rc' = w BY DEF PeerSays
<1>2. rc \in Rconns BY DEF RconnAgrees, Agrees, GoodRconn
<1>3. Append(rc.in, m) \in Seq(RconnMessage)
  <2>1. rc.in \in Seq(RconnMessage) BY <1>2 DEF Rconns
  <2>2. QED BY <2>1
<1>4. w \in Rconns BY <1>2, <1>3 DEF Rconns
<1>5. w.state = rc.state /\ w.backoff = rc.backoff /\ w.txq = rc.txq /\ w.n_queued = rc.n_queued
      /\ w.vcs = rc.vcs /\ w.out = rc.out /\ w.link = rc.link
  BY <1>2 DEF Rconns
<1> HIDE DEF w
<1>6. QED BY <1>1, <1>4, <1>5, LinkAgrees

LEMMA PeerReadsAgrees ==
  ASSUME RconnAgrees, PeerReads
  PROVE  Agrees(rc', pending')
<1> DEFINE m == Head(rc.out)
           asked == m.type = "ECHO_REQUEST"
           inn == IF asked THEN Append(rc.in, Msg("ECHO_REPLY", m.xid, 0)) ELSE rc.in
           w == [rc EXCEPT !.out = Tail(@), !.in = inn]
<1>1. rc.link = "up" /\ rc.out # <<>> /\ rc' = w
      /\ pending' = IF m.type = "HELLO" \/ pending = <<>> THEN pending ELSE Tail(pending)
  BY DEF PeerReads
<1>2. rc \in Rconns /\ HelloFirst(rc) /\ HasStream(rc) /\ rc.n_queued = Counted(rc.txq)
      /\ pending \in Seq(RconnMessage) /\ (rc.state # "VOID" => Unread(rc) = pending)
  BY DEF RconnAgrees, Agrees, GoodRconn
<1>3. rc.out \in Seq(RconnMessage) /\ rc.in \in Seq(RconnMessage) /\ rc.txq \in Seq(RconnMessage) BY <1>2 DEF Rconns
<1>4. Len(rc.out) \in Nat /\ Len(rc.out) > 0 /\ m = rc.out[1] /\ m \in RconnMessage /\ Tail(rc.out) \in Seq(RconnMessage)
      /\ Len(Tail(rc.out)) = Len(rc.out) - 1 /\ \A i \in 1..(Len(rc.out) - 1) : Tail(rc.out)[i] = rc.out[i + 1]
  BY <1>1, <1>3
<1>5. m.xid \in Nat BY <1>4 DEF RconnMessage
<1> HIDE DEF m
<1>6. inn \in Seq(RconnMessage)
  <2>1. Msg("ECHO_REPLY", m.xid, 0) \in RconnMessage BY <1>5 DEF Msg, RconnMessage
  <2>2. Append(rc.in, Msg("ECHO_REPLY", m.xid, 0)) \in Seq(RconnMessage) BY <1>3, <2>1
  <2>3. QED BY <1>3, <2>2
<1> HIDE DEF inn
<1>7. w \in Rconns BY <1>2, <1>4, <1>6 DEF Rconns
<1>8. w.state = rc.state /\ w.backoff = rc.backoff /\ w.txq = rc.txq /\ w.n_queued = rc.n_queued
      /\ w.vcs = rc.vcs /\ w.out = Tail(rc.out) /\ w.link = rc.link
  BY <1>2 DEF Rconns
<1> HIDE DEF w
<1>9. \A i \in 1..Len(w.out) : w.out[i].type # "HELLO"
  <2>1. SUFFICES ASSUME NEW i \in 1..Len(w.out) PROVE w.out[i].type # "HELLO" OBVIOUS
  <2>2. i \in 1..(Len(rc.out) - 1) /\ i + 1 \in 1..Len(rc.out) /\ i + 1 # 1 BY <1>4, <1>8
  <2>3. w.out[i] = rc.out[i + 1] BY <1>4, <1>8, <2>2
  <2>4. QED BY <1>2, <2>2, <2>3 DEF HelloFirst
<1>10. HelloFirst(w)
  <2>1. rc.vcs \notin {"NONE", "CONNECTING", "SEND_HELLO"} BY <1>1, <1>2 DEF HelloFirst
  <2>2. QED BY <1>2, <1>8, <1>9, <2>1 DEF HelloFirst
<1>11. HasStream(w) BY <1>1, <1>2, <1>8 DEF HasStream
<1>12. GoodRconn(w) BY <1>2, <1>7, <1>8, <1>10, <1>11 DEF GoodRconn
<1>13. rc.state # "VOID" BY <1>1, <1>2 DEF HasStream
<1>14. Sent(w) = Tail(rc.out)
  <2>1. CASE w.out = <<>> BY <1>8, <2>1 DEF Sent
  <2>2. CASE w.out # <<>>
    <3>1. Len(w.out) \in Nat /\ Len(w.out) > 0 /\ Head(w.out) = w.out[1]
      <4>1. w.out \in Seq(RconnMessage) BY <1>4, <1>8
      <4>2. QED BY <2>2, <4>1
    <3>2. Head(w.out).type # "HELLO" BY <1>9, <3>1
    <3>3. QED BY <1>8, <3>2 DEF Sent
  <2>3. QED BY <2>1, <2>2
<1>15. Unread(w) = pending'
  <2>1. CASE m.type = "HELLO"
    <3>1. Sent(rc) = Tail(rc.out) BY <1>1, <2>1 DEF Sent, m
    <3>2. QED BY <1>1, <1>2, <1>8, <1>13, <1>14, <2>1, <3>1 DEF Unread
  <2>2. CASE m.type # "HELLO"
    <3>1. Sent(rc) = rc.out BY <1>1, <2>2 DEF Sent, m
    <3>2. pending = rc.out \o rc.txq BY <1>2, <1>13, <3>1 DEF Unread
    <3>3. pending # <<>> BY <1>3, <1>4, <3>2
    <3>4. Tail(rc.out \o rc.txq) = Tail(rc.out) \o rc.txq BY <1>1, <1>3, TailOfBoth
    <3>5. QED BY <1>1, <1>8, <1>14, <2>2, <3>2, <3>3, <3>4 DEF Unread
  <2>3. QED BY <2>1, <2>2
<1>16. pending' \in Seq(RconnMessage)
  <2>1. Unread(w) \in Seq(RconnMessage) BY <1>7, UnreadType
  <2>2. QED BY <1>15, <2>1
<1>17. QED BY <1>1, <1>12, <1>15, <1>16 DEF Agrees

LEMMA PeerChangesAgrees ==
  ASSUME RconnAgrees, PeerChanges
  PROVE  Agrees(rc', pending')
<1> DEFINE w == [rc EXCEPT !.link = "broken"]
<1>1. pending' = pending /\ (rc' = rc \/ (rc.link # "none" /\ rc' = w)) BY DEF PeerChanges
<1>2. rc \in Rconns BY DEF RconnAgrees, Agrees, GoodRconn
<1>3. w \in Rconns BY <1>2 DEF Rconns
<1>4. w.state = rc.state /\ w.backoff = rc.backoff /\ w.txq = rc.txq /\ w.n_queued = rc.n_queued
      /\ w.vcs = rc.vcs /\ w.out = rc.out /\ w.link = "broken"
  BY <1>2 DEF Rconns
<1> HIDE DEF w
<1>5. CASE rc' = rc BY <1>1, <1>5 DEF RconnAgrees
<1>6. CASE rc.link # "none" /\ rc' = w BY <1>1, <1>3, <1>4, <1>6, LinkAgrees
<1>7. QED BY <1>1, <1>5, <1>6

LEMMA TickAgrees ==
  ASSUME RconnAgrees, Tick
  PROVE  Agrees(rc', pending')
<1> DEFINE e == Min({rc.elapsed + 1, Longest})
           q == Min({rc.quiet + 1, Longest})
           d == IF rc.deadline = 0 THEN 0 ELSE rc.deadline - 1
           w == [rc EXCEPT !.elapsed = e, !.quiet = q, !.deadline = d]
<1>1. rc' = w /\ pending' = pending BY DEF Tick, Later
<1>2. rc \in Rconns BY DEF RconnAgrees, Agrees, GoodRconn
<1>3. Longest \in Nat BY RconnConstants, MaxOfPair DEF Longest
<1>4. rc.elapsed \in Nat /\ rc.quiet \in Nat /\ rc.deadline \in Nat BY <1>2 DEF Rconns
<1>5. e \in Nat BY <1>3, <1>4, MinOfPair
<1>6. q \in Nat BY <1>3, <1>4, MinOfPair
<1>7. d \in Nat BY <1>4
<1> HIDE DEF e, q, d
<1>8. w \in Rconns BY <1>2, <1>5, <1>6, <1>7 DEF Rconns
<1>9. w.state = rc.state /\ w.backoff = rc.backoff /\ w.txq = rc.txq /\ w.n_queued = rc.n_queued
      /\ w.vcs = rc.vcs /\ w.out = rc.out /\ w.link = rc.link
  BY <1>2 DEF Rconns
<1> HIDE DEF w
<1>10. QED BY <1>1, <1>8, <1>9, LinkAgrees

LEMMA RconnInitAgrees == RconnInit => RconnAgrees
<1>1. SUFFICES ASSUME RconnInit PROVE RconnAgrees OBVIOUS
<1>2. rc = IF dialer THEN Dialled ELSE Accepted BY <1>1 DEF RconnInit
<1>3. pending = <<>> BY <1>1 DEF RconnInit
<1>4. <<>> \in Seq(RconnMessage) OBVIOUS
<1>5. GoodRconn(rc) /\ Unread(rc) = <<>> BY <1>2, AcceptedAgrees, DialledAgrees
<1>6. QED BY <1>3, <1>4, <1>5 DEF RconnAgrees, Agrees

LEMMA RconnStepAgrees == RconnAgrees /\ [RconnNext]_rconn_vars => RconnAgrees'
<1>1. SUFFICES ASSUME RconnAgrees, [RconnNext]_rconn_vars PROVE Agrees(rc', pending') BY DEF RconnAgrees
<1>2. Msg("MSG", Foreign, 0) \in RconnMessage /\ Msg("HELLO", Foreign, 0) \in RconnMessage
      /\ Msg("OLD_HELLO", Foreign, 0) \in RconnMessage
  BY DEF Msg, Foreign, RconnMessage
<1>3. CASE PeerHello
  <2>1. pending' = pending /\ (PeerSays(Msg("HELLO", Foreign, 0)) \/ PeerSays(Msg("OLD_HELLO", Foreign, 0)))
    BY <1>3 DEF PeerHello
  <2>2. QED BY <1>1, <1>2, <2>1, SaysAgrees
<1>4. CASE PeerTalks
  <2>1. pending' = pending /\ PeerSays(Msg("MSG", Foreign, 0)) BY <1>4 DEF PeerTalks
  <2>2. QED BY <1>1, <1>2, <2>1, SaysAgrees
<1>5. CASE UNCHANGED rconn_vars BY <1>1, <1>5 DEF rconn_vars, RconnAgrees
<1>6. QED
  BY <1>1, <1>3, <1>4, <1>5, RunAgrees, ReceiveAgrees, SendAgrees, RedialAgrees, AcceptAgrees,
     PeerConnectsAgrees, PeerReadsAgrees, PeerChangesAgrees, TickAgrees
  DEF RconnNext, Event

(***************************************************************************)
(* HandedInOrder holds: whatever the peer and the network do, what         *)
(* rconn_send was given since the connection stood, and the peer has not   *)
(* read, is in the stream and then in txq, in order, each message once.    *)
(***************************************************************************)
THEOREM HandedInOrderHolds == RconnSpec => []HandedInOrder
<1>1. RconnAgrees => HandedInOrder BY DEF RconnAgrees, Agrees, GoodRconn, HandedInOrder, Unread
<1>2. QED BY <1>1, RconnInitAgrees, RconnStepAgrees, PTL DEF RconnSpec

\* The loop of rconn_run ends with its third round at the latest.
LoopEnds ==
  \A refused \in BOOLEAN :
    LET first  == RunOnce(rc, refused)
        second == Again(rc, first, refused)
    IN  Again(first, second, refused).state = second.state

(***************************************************************************)
(* LoopEnds holds: however a call of rconn_run finds the connection, its   *)
(* do-while loop stops, because a state it has just entered has not timed  *)
(* out; the three rounds of the operator rconn_run are all the code makes. *)
(***************************************************************************)
THEOREM RunEndsHolds == RconnSpec => []LoopEnds
<1>1. RconnAgrees => LoopEnds
  <2>1. SUFFICES ASSUME RconnAgrees PROVE LoopEnds OBVIOUS
  <2>2. GoodRconn(rc) BY <2>1 DEF RconnAgrees, Agrees
  <2>3. QED BY <2>2, RunShape DEF LoopEnds
<1>2. QED BY <1>1, RconnInitAgrees, RconnStepAgrees, PTL DEF RconnSpec
=============================================================================
