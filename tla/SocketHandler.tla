---------------------------- MODULE SocketHandler ----------------------------
(***************************************************************************)
(* The socket handlers at the two ends of an OpenFlow connection of ns-3   *)
(* (model/ofswitch13-socket-handler.cc), in one direction: messages handed *)
(* to SendMessage wait in m_txQueue for room in the socket, TCP moves the  *)
(* bytes in pieces of any length, and the receiving handler makes messages *)
(* of them again, at once or -- when it is held to be busy -- at a time it *)
(* puts off with the simulator's scheduler.                                *)
(*                                                                         *)
(* Message i has Sizes[i] bytes, the k-th of which is <<i, k>>; the header *)
(* is of the first HeaderSize of them and tells the size.  TCP is external *)
(* and reliable while the connection stands.  Time counts in units of the  *)
(* simulation.                                                             *)
(***************************************************************************)
EXTENDS Naturals, Sequences, FiniteSets, FiniteSetsExt

CONSTANTS
    Sizes,              \* the size of each message, in the order of sending
    HeaderSize,         \* of struct ofp_header
    BufferSize,         \* of the sending socket: every message fits in it
    PktProcDelay,       \* m_pktProcDelay
    MaxTime             \* bound: the clock stops here unless something is scheduled

ASSUME SocketAssumption ==
    /\ HeaderSize \in Nat \ {0} /\ BufferSize \in Nat
    /\ Sizes \in Seq(HeaderSize .. BufferSize)
    /\ PktProcDelay \in Nat /\ MaxTime \in Nat

VARIABLES
    handed,             \* how many messages SendMessage has been given
    m_txQueue,          \* those that wait, a sequence of message numbers
    txBuffer,           \* bytes in the sending socket or on their way
    connected,
    rx,                 \* the receiver: its buffer, its message in the making
    m_lastRecTime,
    now,
    scheduled           \* the times at which RecvHandler is to run

vars == <<handed, m_txQueue, txBuffer, connected, rx, m_lastRecTime, now, scheduled>>
sender == <<handed, m_txQueue>>
clock == <<m_lastRecTime, now, scheduled>>

Bytes(i) == [k \in 1 .. Sizes[i] |-> <<i, k>>]
Least(a, b) == IF a <= b THEN a ELSE b

-----------------------------------------------------------------------------
(* The sending end.                                                        *)

(* One turn of the loop of Send; a socket that is gone loses the message.  *)
SendTurn(s) ==
    IF s.queue = << >> THEN s
    ELSE LET packet == Bytes(Head(s.queue))
         IN  IF BufferSize - Len(s.buffer) < Len(packet) THEN s
             ELSE [queue |-> Tail(s.queue),
                   buffer |-> IF connected THEN s.buffer \o packet ELSE s.buffer]

(* Send: as many turns as the queue has messages are enough.               *)
Send(queue, buffer) ==
    LET After[n \in 0 .. Len(queue)] ==
            IF n = 0 THEN [queue |-> queue, buffer |-> buffer]
            ELSE SendTurn(After[n - 1])
    IN  After[Len(queue)]

Sends(queue) ==
    LET s == Send(queue, txBuffer)
    IN  m_txQueue' = s.queue /\ txBuffer' = s.buffer

SendMessage ==
    /\ handed < Len(Sizes)
    /\ handed' = handed + 1
    /\ Sends(Append(m_txQueue, handed + 1))
    /\ UNCHANGED <<connected, rx, clock>>

(* The socket has room again and calls Send.                               *)
SendCallback ==
    /\ m_txQueue # << >>
    /\ Sends(m_txQueue)
    /\ UNCHANGED <<handed, connected, rx, clock>>

-----------------------------------------------------------------------------
(* The receiving end.  A length field that is none of a header is garbage. *)

LengthField(header) ==
    IF \E i \in DOMAIN Sizes : header = SubSeq(Bytes(i), 1, HeaderSize)
    THEN Sizes[header[1][1]] ELSE HeaderSize

(* Mutant: the length of the message without the header's taken off.       *)
StartWithoutHeader(r) ==
    IF r.pendingBytes > 0 THEN r
    ELSE LET header == SubSeq(r.buffer, 1, HeaderSize)
         IN  [r EXCEPT !.buffer = SubSeq(@, HeaderSize + 1, Len(@)),
                       !.pendingPacket = header,
                       !.pendingBytes = LengthField(header)]

(* A new message starts with its header.                                   *)
StartMessage(r) ==
    IF r.pendingBytes > 0 THEN r
    ELSE LET header == SubSeq(r.buffer, 1, HeaderSize)
         IN  [r EXCEPT !.buffer = SubSeq(@, HeaderSize + 1, Len(@)),
                       !.pendingPacket = header,
                       !.pendingBytes = LengthField(header) - HeaderSize]

(* Then what there is of its other bytes, and if that is all of them the   *)
(* callback gets the message.                                              *)
ReadMessage(r) ==
    LET read == Least(r.pendingBytes, Len(r.buffer))
        packet == r.pendingPacket \o SubSeq(r.buffer, 1, read)
        rest == [r EXCEPT !.buffer = SubSeq(@, read + 1, Len(@)),
                          !.pendingBytes = @ - read]
    IN  IF rest.pendingBytes > 0 THEN [rest EXCEPT !.pendingPacket = packet]
        ELSE [rest EXCEPT !.pendingPacket = << >>,
                          !.delivered = Append(@, packet)]

(* Nothing to read, or less than a header when one is due.                 *)
MustWait(r) ==
    \/ r.buffer = << >>
    \/ r.pendingBytes = 0 /\ Len(r.buffer) < HeaderSize

(* RecvHandler: every turn takes a byte at least.                          *)
RecvHandler(r) ==
    LET After[n \in 0 .. Len(r.buffer)] ==
            IF n = 0 THEN r
            ELSE LET s == After[n - 1]
                 IN  IF MustWait(s) THEN s ELSE ReadMessage(StartMessage(s))
    IN  After[Len(r.buffer)]

Busy == m_lastRecTime # 0 /\ m_lastRecTime + PktProcDelay > now

(* Recv: a busy handler moves m_lastRecTime on and has RecvHandler run     *)
(* when that much time has passed from now.                                *)
Recv(r) ==
    IF Busy
    THEN /\ rx' = r
         /\ m_lastRecTime' = m_lastRecTime + PktProcDelay
         /\ scheduled' = scheduled \union {now + m_lastRecTime'}
    ELSE /\ rx' = RecvHandler(r)
         /\ m_lastRecTime' = now
         /\ UNCHANGED scheduled

(* TCP brings the next n bytes and calls Recv.                             *)
Arrive(n) ==
    /\ connected
    /\ n \in 1 .. Len(txBuffer)
    /\ txBuffer' = SubSeq(txBuffer, n + 1, Len(txBuffer))
    /\ Recv([rx EXCEPT !.buffer = @ \o SubSeq(txBuffer, 1, n)])
    /\ UNCHANGED <<sender, connected, now>>

(* The simulator runs a RecvHandler that is due.                           *)
RunScheduled ==
    /\ now \in scheduled
    /\ rx' = RecvHandler(rx)
    /\ scheduled' = scheduled \ {now}
    /\ UNCHANGED <<sender, txBuffer, connected, m_lastRecTime, now>>

Elapse ==
    /\ now \notin scheduled
    /\ now < MaxTime \/ scheduled # {}
    /\ now' = now + 1
    /\ UNCHANGED <<sender, txBuffer, connected, rx, m_lastRecTime, scheduled>>

(* The connection breaks; what TCP still held is lost.                     *)
Disconnect ==
    /\ connected
    /\ connected' = FALSE
    /\ txBuffer' = << >>
    /\ UNCHANGED <<sender, rx, clock>>

-----------------------------------------------------------------------------
Init ==
    /\ handed = 0 /\ m_txQueue = << >>
    /\ txBuffer = << >> /\ connected = TRUE
    /\ rx = [buffer |-> << >>, pendingPacket |-> << >>, pendingBytes |-> 0,
             delivered |-> << >>]
    /\ m_lastRecTime = 0 /\ now = 1 /\ scheduled = {}

Next ==
    \/ SendMessage
    \/ SendCallback
    \/ \E n \in 1 .. BufferSize : Arrive(n)
    \/ RunScheduled
    \/ Elapse
    \/ Disconnect

Spec == Init /\ [][Next]_vars

(* TCP delivers what it holds and calls back when it has room again, and   *)
(* the simulator's clock reaches every event that is scheduled: the weak   *)
(* fairness of Arrive, SendCallback, RunScheduled and Elapse, written out. *)
CanArrive == connected /\ txBuffer # << >>
CanSend == m_txQueue # << >> /\ Sizes[Head(m_txQueue)] <= BufferSize - Len(txBuffer)
CanElapse == now \notin scheduled /\ (now < MaxTime \/ scheduled # {})

FairSpec ==
    /\ Spec
    /\ []<> ~ CanArrive \/ []<><<connected' /\ Len(txBuffer') < Len(txBuffer)>>_vars
    /\ []<> ~ CanSend \/ []<><<handed' = handed /\ m_txQueue' # m_txQueue>>_vars
    /\ []<>(now \notin scheduled) \/ []<><<now \in scheduled \ scheduled'>>_vars
    /\ []<> ~ CanElapse \/ []<><<now' > now>>_vars

-----------------------------------------------------------------------------
(* The two handlers make a channel: whatever the pieces in which the bytes *)
(* arrive and whenever the handler finds time for them, the messages come  *)
(* out whole and in order, and all of them in the end.  A packet that is   *)
(* none of the messages, or a message out of turn, ends the count.         *)
Whole(n) == \A i \in 1 .. n : rx.delivered[i] = Bytes(i)

Channel == INSTANCE MessageChannel WITH
    Count <- Len(Sizes), sent <- handed,
    received <- IF Whole(Len(rx.delivered)) THEN Len(rx.delivered) ELSE Len(Sizes) + 1

ImplementsChannel == Channel!Spec

=============================================================================
