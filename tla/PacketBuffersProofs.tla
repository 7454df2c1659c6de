------------------------- MODULE PacketBuffersProofs -------------------------
(***************************************************************************)
(* Proofs about PacketBuffers, for every number of slots and cookies, any  *)
(* number of packets and copies, and every clock: the library's books and  *)
(* the device's always agree, a controller that answers a buffer id gets   *)
(* its packet or none, and what leaves by a port is what was sent there.   *)
(***************************************************************************)
EXTENDS PacketBuffers, SequenceTheorems, TLAPS

\* The packets being worked on are live and different.  One of them that is in a
\* slot was saved during this work, so it is not over, and it was the last copy
\* in the pipeline.  A packet-out's own data never shares the pipeline.
WorkAgrees ==
  /\ \A i, j \in 1..Len(working) : working[i] = working[j] => i = j
  /\ ToSet(working) \subseteq DOMAIN packets
  /\ \A u \in ToSet(working) : packets[u].buffer_id # NoBuffer => IsSaved(u) /\ ~pipe.valid
  /\ 0 \in ToSet(working) => ~pipe.valid

\* The ns-3 packet that the device keeps for a library packet is the one that
\* library packet came from.
OriginsAgree ==
  /\ pipe.valid => pipe.packet # NoUid
  /\ \A u \in pipe.ids : packets[u].origin = pipe.packet
  /\ \A u \in DOMAIN kept : kept[u] = packets[u].origin
  /\ 0 \in DOMAIN packets => packets[0].origin = 0

\* A new id is the id of no packet, and a packet without an ns-3 packet is in no
\* slot.
UidsAgree ==
  /\ \A u \in DOMAIN packets : u <= last_uid
  /\ \A s \in Slots : slots[s].pkt # 0

\* The cookie that was in use back saves before c.
CookieBefore(c, back) == IF back <= c THEN c - back ELSE c - back + (NumCookies - 1)

\* What controllers were told of a slot with cookie c and packet p: of its last
\* saves, with one cookie after the other, the last of them of p if it is there.
SlotTold(t, c, p) ==
  /\ Len(t) < NumCookies
  /\ Len(t) = 0 <=> c = -1
  /\ \A i \in 1..Len(t) : t[i].cookie = CookieBefore(c, Len(t) - i)
  /\ p # NoUid => Len(t) # 0 /\ t[Len(t)].uid = p

ToldAgrees == \A s \in Slots : SlotTold(told[s], slots[s].cookie, slots[s].pkt)

\* The last step's outcome is still what the books say of it: every message that
\* controllers were told with the cookie of a packet that was taken out was about
\* that packet, and what was sent is what the library packet came from.
OutAgrees ==
  /\ \A g \in out.got : \A t \in ToSet(told[g.id[1]]) : t.cookie = g.id[2] => t.uid = g.uid
  /\ \A s \in out.sent : s.packet = packets[s.uid].origin

\* The inductive invariant is IInv with OutAgrees, which reads no other step.
IInv == BooksAgree /\ WorkAgrees /\ OriginsAgree /\ UidsAgree /\ ToldAgrees

-----------------------------------------------------------------------------
\* Facts about the arithmetic of the ring and the clock.
LEMMA ClockAndRing ==
  ASSUME TypeOK
  PROVE  /\ TimeNow \in Nat
         /\ NextSlot \in Slots
         /\ 2 * OverwriteSecs * TicksPerSec \in Nat
<1> USE SlotsAssumption, TimeAssumption
<1>1. now \in Nat /\ buffer_idx \in Slots BY DEF TypeOK
<1>2. TimeNow \in Nat BY <1>1 DEF TimeNow
<1>3. NextSlot \in Slots BY <1>1 DEF NextSlot, Slots
<1>4. QED BY <1>2, <1>3

\* Starting, nesting and ending the work on a packet.
LEMMA WorkStarts ==
  ASSUME NEW S, NEW x \in S
  PROVE  <<x>> \in Seq(S) /\ Len(<<x>>) = 1 /\ <<x>>[1] = x /\ ToSet(<<x>>) = {x}
<1>1. <<x>> \in Seq(S) /\ Len(<<x>>) = 1 /\ <<x>>[1] = x OBVIOUS
<1>2. QED BY <1>1 DEF ToSet

LEMMA WorkNests ==
  ASSUME NEW S, NEW w \in Seq(S), NEW x \in S
  PROVE  /\ <<x>> \o w \in Seq(S) /\ Len(<<x>> \o w) = Len(w) + 1
         /\ \A i \in 1..(Len(w) + 1) : (<<x>> \o w)[i] = IF i = 1 THEN x ELSE w[i - 1]
         /\ ToSet(<<x>> \o w) = {x} \cup ToSet(w)
<1> DEFINE v == <<x>> \o w
<1>1. <<x>> \in Seq(S) /\ Len(<<x>>) = 1 /\ <<x>>[1] = x OBVIOUS
<1>3. v \in Seq(S) /\ Len(v) = Len(w) + 1
  BY <1>1, ConcatProperties
<1>4. \A i \in 1..(Len(w) + 1) : v[i] = IF i = 1 THEN x ELSE w[i - 1]
  BY <1>1, ConcatProperties
<1> HIDE DEF v
<1>5. ASSUME NEW y \in ToSet(v) PROVE y \in {x} \cup ToSet(w)
  <2>1. PICK i \in 1..(Len(w) + 1) : y = v[i] BY <1>3 DEF ToSet
  <2>2. i # 1 => i - 1 \in 1..Len(w) OBVIOUS
  <2>3. QED BY <2>1, <2>2, <1>4 DEF ToSet
<1>6. x \in ToSet(v) BY <1>3, <1>4 DEF ToSet
<1>7. ASSUME NEW y \in ToSet(w) PROVE y \in ToSet(v)
  <2>1. PICK i \in 1..Len(w) : y = w[i] BY DEF ToSet
  <2>2. i + 1 \in 1..(Len(w) + 1) /\ v[i + 1] = w[i] BY <1>4
  <2>3. QED BY <2>1, <2>2, <1>3 DEF ToSet
<1>8. QED BY <1>3, <1>4, <1>5, <1>6, <1>7 DEF v

LEMMA WorkEnds ==
  ASSUME NEW S, NEW w \in Seq(S), w # <<>>,
         \A i, j \in 1..Len(w) : w[i] = w[j] => i = j
  PROVE  /\ Head(w) \in S /\ Head(w) \in ToSet(w)
         /\ Tail(w) \in Seq(S)
         /\ ToSet(Tail(w)) = ToSet(w) \ {Head(w)}
         /\ \A i, j \in 1..Len(Tail(w)) : Tail(w)[i] = Tail(w)[j] => i = j
         /\ ToSet(w) = {Head(w)} => Tail(w) = <<>>
<1> DEFINE t == Tail(w)
<1>1. /\ t \in Seq(S) /\ Len(t) = Len(w) - 1 /\ Len(w) \in Nat \ {0}
      /\ Head(w) = w[1] /\ Head(w) \in S
      /\ \A i \in 1..Len(t) : t[i] = w[i + 1]
  BY HeadTailProperties
<1> HIDE DEF t
<1>2. Head(w) \in ToSet(w) BY <1>1 DEF ToSet
<1>3. ASSUME NEW i \in 1..Len(t), NEW j \in 1..Len(t), t[i] = t[j] PROVE i = j
  <2>1. i + 1 \in 1..Len(w) /\ j + 1 \in 1..Len(w) BY <1>1
  <2>2. w[i + 1] = w[j + 1] BY <1>1, <1>3
  <2>3. QED BY <2>1, <2>2
<1>4. ASSUME NEW y \in ToSet(t) PROVE y \in ToSet(w) \ {Head(w)}
  <2>1. PICK i \in 1..Len(t) : y = t[i] BY DEF ToSet
  <2>2. i + 1 \in 1..Len(w) /\ 1 \in 1..Len(w) /\ i + 1 # 1 /\ y = w[i + 1] BY <2>1, <1>1
  <2>3. y # w[1] BY <2>2
  <2>4. QED BY <2>2, <2>3, <1>1 DEF ToSet
<1>5. ASSUME NEW y \in ToSet(w), y # Head(w) PROVE y \in ToSet(t)
  <2>1. PICK i \in 1..Len(w) : y = w[i] BY DEF ToSet
  <2>2. i # 1 BY <2>1, <1>5, <1>1
  <2>3. i - 1 \in 1..Len(t) /\ t[i - 1] = w[i] BY <2>2, <1>1
  <2>4. QED BY <2>1, <2>3, <1>1 DEF ToSet
<1>6. ToSet(t) = ToSet(w) \ {Head(w)} BY <1>4, <1>5
<1>7. ASSUME ToSet(w) = {Head(w)} PROVE t = <<>>
  <2>1. ToSet(t) = {} BY <1>6, <1>7
  <2>2. Len(t) = 0 BY <2>1, <1>1 DEF ToSet
  <2>3. QED BY <2>2, <1>1, EmptySeq
<1>8. QED BY <1>1, <1>2, <1>3, <1>6, <1>7 DEF t

-----------------------------------------------------------------------------
LEMMA InitHolds == Init => IInv
<1> SUFFICES ASSUME Init PROVE IInv OBVIOUS
<1> USE SlotsAssumption, TimeAssumption, UidsAssumption
<1>1. TypeOK BY DEF Init, TypeOK, Slots, Slot, Pipe, NoPipe, Uids, NoUid
<1>2. ToSet(working) = {} /\ Len(working) = 0 BY DEF Init, ToSet
<1>3. SlotsAgree /\ NoPacketIsLost /\ PipelineAgrees /\ KeptIsBuffered /\ KeptHasTimer
  BY DEF Init, SlotsAgree, NoPacketIsLost, PipelineAgrees, KeptIsBuffered, KeptHasTimer, NoPipe, NoUid
<1>4. WorkAgrees /\ OriginsAgree /\ UidsAgree
  BY <1>2 DEF Init, WorkAgrees, OriginsAgree, UidsAgree, NoPipe, NoUid
<1>5. ToldAgrees BY DEF Init, ToldAgrees, SlotTold, NoUid
<1>6. QED BY <1>1, <1>3, <1>4, <1>5 DEF IInv, BooksAgree

LEMMA NoPipeType == NoPipe \in Pipe
BY DEF NoPipe, Pipe, NoUid

\* The device keeps ns-3 packets of live library packets only.
LEMMA KeptIsLive ==
  ASSUME TypeOK, SlotsAgree, KeptIsBuffered
  PROVE  \A u \in DOMAIN kept : u \in DOMAIN packets
<1> SUFFICES ASSUME NEW u \in DOMAIN kept PROVE u \in DOMAIN packets OBVIOUS
<1>1. PICK s \in Slots : slots[s].pkt = u BY DEF KeptIsBuffered
<1>2. u # NoUid BY DEF TypeOK, Uids, NoUid
<1>3. QED BY <1>1, <1>2 DEF SlotsAgree

\* A step that leaves all the books alone.
LEMMA QuietKeeps ==
  ASSUME IInv, UNCHANGED <<now, ring, packets, working, device, last_uid, told>>
  PROVE  IInv'
<1> USE DEF ring, device
<1>1. TimeNow' = TimeNow BY DEF TimeNow
<1>2. TypeOK' /\ SlotsAgree' /\ NoPacketIsLost' /\ PipelineAgrees' /\ KeptIsBuffered' /\ KeptHasTimer'
  BY DEF IInv, BooksAgree, TypeOK, SlotsAgree, NoPacketIsLost, PipelineAgrees, KeptIsBuffered, KeptHasTimer
<1>3. WorkAgrees' BY <1>1 DEF IInv, WorkAgrees, IsSaved, IsAlive
<1>4. OriginsAgree' /\ UidsAgree' /\ ToldAgrees'
  BY DEF IInv, OriginsAgree, UidsAgree, ToldAgrees
<1>5. QED BY <1>2, <1>3, <1>4 DEF IInv, BooksAgree

\* A new packet that is worked on, and is in no slot.
LEMMA AddedKeeps ==
  ASSUME TypeOK, SlotsAgree, NoPacketIsLost, KeptIsBuffered, KeptHasTimer,
         NEW new \in Uids, new \notin DOMAIN packets,
         DOMAIN packets' = DOMAIN packets \cup {new},
         packets'[new].buffer_id = NoBuffer,
         \A u \in DOMAIN packets : packets'[u] = packets[u],
         ToSet(working') = {new} \cup ToSet(working),
         UNCHANGED <<now, slots, kept, timers>>
  PROVE  SlotsAgree' /\ NoPacketIsLost' /\ KeptIsBuffered' /\ KeptHasTimer'
<1>1. SlotsAgree'
  <2>1. ASSUME NEW s \in Slots, slots[s].pkt # NoUid
        PROVE  /\ slots[s].pkt \in DOMAIN packets'
               /\ packets'[slots[s].pkt].buffer_id = <<s, slots[s].cookie>>
    BY <2>1 DEF SlotsAgree
  <2>2. ASSUME NEW u \in DOMAIN packets', packets'[u].buffer_id # NoBuffer
        PROVE  slots[packets'[u].buffer_id[1]].pkt = u
    <3>1. u \in DOMAIN packets BY <2>2
    <3>2. QED BY <2>2, <3>1 DEF SlotsAgree
  <2>3. QED BY <2>1, <2>2 DEF SlotsAgree
<1>2. NoPacketIsLost' BY DEF NoPacketIsLost
<1>3. KeptIsBuffered' /\ KeptHasTimer' BY DEF KeptIsBuffered, KeptHasTimer
<1>4. QED BY <1>1, <1>2, <1>3

\* Receive gives its packet a new id, on an empty pipeline.
LEMMA ReceiveKeeps == IInv /\ Receive => IInv'
<1> SUFFICES ASSUME IInv, Receive PROVE IInv' OBVIOUS
<1> USE SlotsAssumption, TimeAssumption, UidsAssumption DEF ring, device
<1> DEFINE new == last_uid + 1
<1>1. /\ TypeOK /\ SlotsAgree /\ NoPacketIsLost /\ PipelineAgrees /\ KeptIsBuffered /\ KeptHasTimer
      /\ WorkAgrees /\ OriginsAgree /\ UidsAgree /\ ToldAgrees
  BY DEF IInv, BooksAgree
<1>2. /\ last_uid \in Nat /\ new \in Uids /\ new # 0
      /\ last_uid' = new /\ working' = <<new>>
      /\ UNCHANGED <<now, slots, buffer_idx, kept, timers, told, aborted>>
  BY <1>1 DEF TypeOK, Receive, Uids
<1>3. working = <<>> /\ ToSet(working) = {} BY DEF Receive, Idle, ToSet
<1>4. pipe = NoPipe BY <1>1, <1>3 DEF PipelineAgrees
<1>5. pipe' = [valid |-> TRUE, ids |-> {new}, packet |-> new]
  BY <1>2, <1>4 DEF Receive, SetPacket, NoPipe
<1>6. /\ DOMAIN packets' = DOMAIN packets \cup {new}
      /\ packets'[new] = [buffer_id |-> NoBuffer, origin |-> new]
      /\ \A u \in DOMAIN packets : u # new /\ packets'[u] = packets[u]
  <2>1. \A u \in DOMAIN packets : u \in Nat /\ u <= last_uid BY <1>1 DEF TypeOK, UidsAgree, Uids
  <2>2. new \notin DOMAIN packets BY <2>1, <1>2
  <2>3. QED BY <1>2, <2>2 DEF Receive
<1>7. ToSet(working') = {new} /\ Len(working') = 1 /\ working' \in Seq(Uids) BY <1>2, WorkStarts
<1> HIDE DEF new
<1>8. TypeOK'
  <2>1. DOMAIN packets' \subseteq Uids /\ packets' \in [DOMAIN packets' -> Packet]
    <3>1. DOMAIN packets' \subseteq Uids BY <1>1, <1>2, <1>6 DEF TypeOK
    <3>2. \A u \in DOMAIN packets' : packets'[u] \in Packet BY <1>1, <1>2, <1>6 DEF TypeOK, Packet
    <3>3. packets' = [u \in DOMAIN packets' |-> packets'[u]] BY DEF Receive
    <3>4. QED BY <3>1, <3>2, <3>3
  <2>2. pipe' \in Pipe BY <1>2, <1>5 DEF Pipe
  <2>3. QED BY <1>1, <1>2, <1>7, <2>1, <2>2 DEF TypeOK
<1>9. SlotsAgree' /\ NoPacketIsLost' /\ KeptIsBuffered' /\ KeptHasTimer'
  BY <1>1, <1>2, <1>3, <1>6, <1>7, AddedKeeps
<1>10. PipelineAgrees' BY <1>2, <1>5, <1>7 DEF PipelineAgrees
<1>11. WorkAgrees' BY <1>2, <1>6, <1>7 DEF WorkAgrees
<1>12. OriginsAgree'
  <2>1. \A u \in DOMAIN kept : kept'[u] = packets'[u].origin
    BY <1>1, <1>2, <1>6, KeptIsLive DEF OriginsAgree
  <2>2. 0 \in DOMAIN packets' => packets'[0].origin = 0
    BY <1>1, <1>2, <1>6 DEF OriginsAgree
  <2>3. new # NoUid BY <1>2 DEF Uids, NoUid
  <2>4. QED BY <1>2, <1>5, <1>6, <2>1, <2>2, <2>3 DEF OriginsAgree
<1>13. UidsAgree'
  <2>1. \A u \in DOMAIN packets : u \in Nat /\ u <= last_uid BY <1>1 DEF TypeOK, UidsAgree, Uids
  <2>2. QED BY <1>1, <1>2, <1>6, <2>1 DEF UidsAgree, new
<1>14. ToldAgrees' BY <1>1, <1>2 DEF ToldAgrees
<1>15. QED BY <1>8, <1>9, <1>10, <1>11, <1>12, <1>13, <1>14 DEF IInv, BooksAgree

\* PacketOutData makes a packet without an ns-3 packet, beside the pipeline.
LEMMA PacketOutDataKeeps == IInv /\ PacketOutData => IInv'
<1> SUFFICES ASSUME IInv, PacketOutData PROVE IInv' OBVIOUS
<1> USE SlotsAssumption, TimeAssumption, UidsAssumption DEF ring, device
<1>1. /\ TypeOK /\ SlotsAgree /\ NoPacketIsLost /\ PipelineAgrees /\ KeptIsBuffered /\ KeptHasTimer
      /\ WorkAgrees /\ OriginsAgree /\ UidsAgree /\ ToldAgrees
  BY DEF IInv, BooksAgree
<1>2. /\ working' = <<0>> /\ 0 \in Uids /\ last_uid \in Nat
      /\ UNCHANGED <<now, slots, buffer_idx, pipe, kept, timers, last_uid, told, aborted>>
  BY <1>1 DEF PacketOutData, Uids, TypeOK
<1>3. working = <<>> /\ ToSet(working) = {} BY DEF PacketOutData, Idle, ToSet
<1>4. pipe = NoPipe BY <1>1, <1>3 DEF PipelineAgrees
<1>5. 0 \notin DOMAIN packets BY <1>1, <1>3 DEF NoPacketIsLost, UidsAgree
<1>6. /\ DOMAIN packets' = DOMAIN packets \cup {0}
      /\ packets'[0] = [buffer_id |-> NoBuffer, origin |-> 0]
      /\ \A u \in DOMAIN packets : packets'[u] = packets[u]
  BY <1>5 DEF PacketOutData
<1>7. ToSet(working') = {0} /\ Len(working') = 1 /\ working' \in Seq(Uids) BY <1>2, WorkStarts
<1>8. TypeOK'
  <2>1. DOMAIN packets' \subseteq Uids BY <1>1, <1>2, <1>6 DEF TypeOK
  <2>2. \A u \in DOMAIN packets' : packets'[u] \in Packet BY <1>1, <1>2, <1>6 DEF TypeOK, Packet
  <2>3. packets' = [u \in DOMAIN packets' |-> packets'[u]] BY DEF PacketOutData
  <2>4. packets' \in [DOMAIN packets' -> Packet] BY <2>2, <2>3
  <2>5. QED BY <1>1, <1>2, <1>7, <2>1, <2>4 DEF TypeOK
<1>9. SlotsAgree' /\ NoPacketIsLost' /\ KeptIsBuffered' /\ KeptHasTimer'
  BY <1>1, <1>2, <1>3, <1>6, <1>7, AddedKeeps
<1>10. PipelineAgrees' BY <1>2, <1>4 DEF PipelineAgrees, NoPipe
<1>11. WorkAgrees' BY <1>2, <1>4, <1>6, <1>7 DEF WorkAgrees, NoPipe
<1>12. OriginsAgree'
  <2>1. \A u \in DOMAIN kept : kept'[u] = packets'[u].origin
    BY <1>1, <1>2, <1>6, KeptIsLive DEF OriginsAgree
  <2>2. QED BY <1>2, <1>4, <1>6, <2>1 DEF OriginsAgree, NoPipe
<1>13. UidsAgree' BY <1>1, <1>2, <1>6 DEF UidsAgree
<1>14. ToldAgrees' BY <1>1, <1>2 DEF ToldAgrees
<1>15. QED BY <1>8, <1>9, <1>10, <1>11, <1>12, <1>13, <1>14 DEF IInv, BooksAgree

\* Clone adds a copy with the origin of the packet that is copied.
LEMMA CloneKeeps == IInv /\ Clone => IInv'
<1> SUFFICES ASSUME IInv, Clone PROVE IInv' OBVIOUS
<1> USE SlotsAssumption, TimeAssumption, UidsAssumption DEF ring, device
<1> DEFINE new == last_uid + 1
           W == ToSet(working)
<1>1. /\ TypeOK /\ SlotsAgree /\ NoPacketIsLost /\ PipelineAgrees /\ KeptIsBuffered /\ KeptHasTimer
      /\ WorkAgrees /\ OriginsAgree /\ UidsAgree /\ ToldAgrees
  BY DEF IInv, BooksAgree
<1>2. /\ last_uid \in Nat /\ new \in Uids /\ new # 0
      /\ last_uid' = new /\ working' = <<new>> \o working
      /\ UNCHANGED <<now, slots, buffer_idx, kept, timers, told, aborted>>
  BY <1>1 DEF TypeOK, Clone, Uids
<1>3. /\ working \in Seq(Uids) /\ working # <<>> /\ pipe.valid /\ pipe.ids = W
      /\ Top \in W
  <2>1. working \in Seq(Uids) /\ working # <<>> BY <1>1 DEF Clone, Busy, TypeOK
  <2>2. Top \in W BY <2>1, <1>1, WorkEnds DEF Top, WorkAgrees
  <2>3. QED BY <2>1, <2>2, <1>1 DEF Clone, PipelineAgrees
<1>4. /\ pipe \in Pipe
      /\ pipe'.valid /\ pipe'.ids = W \cup {new} /\ pipe'.packet = pipe.packet /\ pipe' \in Pipe
  BY <1>1, <1>2, <1>3 DEF Clone, TypeOK, Pipe
<1>5. new \notin DOMAIN packets
  <2>1. \A u \in DOMAIN packets : u \in Nat /\ u <= last_uid BY <1>1 DEF TypeOK, UidsAgree, Uids
  <2>2. QED BY <2>1, <1>2
<1>6. /\ DOMAIN packets' = DOMAIN packets \cup {new}
      /\ packets'[new] = [buffer_id |-> NoBuffer, origin |-> packets[Top].origin]
      /\ \A u \in DOMAIN packets : packets'[u] = packets[u]
  BY <1>2, <1>5 DEF Clone
<1>7. /\ working' \in Seq(Uids) /\ Len(working') = Len(working) + 1
      /\ \A i \in 1..(Len(working) + 1) : working'[i] = IF i = 1 THEN new ELSE working[i - 1]
      /\ ToSet(working') = {new} \cup W
  BY <1>2, <1>3, WorkNests
<1>8. Top \in DOMAIN packets /\ W \subseteq DOMAIN packets BY <1>1, <1>3 DEF WorkAgrees
<1>9. TypeOK'
  <2>1. DOMAIN packets' \subseteq Uids BY <1>1, <1>2, <1>6 DEF TypeOK
  <2>2. \A u \in DOMAIN packets' : packets'[u] \in Packet
    BY <1>1, <1>2, <1>6, <1>8 DEF TypeOK, Packet
  <2>3. packets' = [u \in DOMAIN packets' |-> packets'[u]] BY DEF Clone
  <2>4. packets' \in [DOMAIN packets' -> Packet] BY <2>2, <2>3
  <2>5. QED BY <1>1, <1>2, <1>4, <1>7, <2>1, <2>4 DEF TypeOK
<1> HIDE DEF new
<1>10. SlotsAgree' /\ NoPacketIsLost' /\ KeptIsBuffered' /\ KeptHasTimer'
  BY <1>1, <1>2, <1>5, <1>6, <1>7, AddedKeeps
<1>11. PipelineAgrees'
  <2>1. working' # <<>> BY <1>7, <1>3
  <2>2. QED BY <1>4, <1>7, <2>1 DEF PipelineAgrees
<1>12. WorkAgrees'
  <2>1. ASSUME NEW i \in 1..Len(working'), NEW j \in 1..Len(working'), working'[i] = working'[j]
        PROVE  i = j
    <3>1. \A k \in 1..Len(working) : working[k] # new
      BY <1>3, <1>5, <1>8 DEF ToSet
    <3>2. \A k \in 1..(Len(working) + 1) : k # 1 => k - 1 \in 1..Len(working) BY <1>3
    <3>3. \A k, l \in 1..Len(working) : working[k] = working[l] => k = l BY <1>1 DEF WorkAgrees
    <3>4. i = 1 <=> j = 1 BY <1>7, <2>1, <3>1, <3>2
    <3>5. i # 1 => i - 1 = j - 1 BY <1>7, <2>1, <3>2, <3>3, <3>4
    <3>6. QED BY <3>4, <3>5, <1>3, <1>7
  <2>2. ToSet(working') \subseteq DOMAIN packets' BY <1>6, <1>7, <1>8
  <2>3. \A u \in ToSet(working') : packets'[u].buffer_id = NoBuffer
    BY <1>1, <1>3, <1>6, <1>7, <1>8 DEF WorkAgrees
  <2>4. 0 \notin ToSet(working') BY <1>1, <1>2, <1>3, <1>7 DEF WorkAgrees
  <2>5. QED BY <2>1, <2>2, <2>3, <2>4 DEF WorkAgrees
<1>13. OriginsAgree'
  <2>1. \A u \in DOMAIN kept : kept'[u] = packets'[u].origin
    BY <1>1, <1>2, <1>6, KeptIsLive DEF OriginsAgree
  <2>2. \A u \in W : packets[u].origin = pipe.packet BY <1>1, <1>3 DEF OriginsAgree
  <2>3. \A u \in pipe'.ids : packets'[u].origin = pipe'.packet
    BY <1>3, <1>4, <1>6, <1>8, <2>2
  <2>4. 0 \in DOMAIN packets' => packets'[0].origin = 0
    BY <1>1, <1>2, <1>6 DEF OriginsAgree
  <2>5. pipe'.packet # NoUid BY <1>1, <1>3, <1>4 DEF OriginsAgree
  <2>6. QED BY <1>2, <2>1, <2>3, <2>4, <2>5 DEF OriginsAgree
<1>14. UidsAgree'
  <2>1. \A u \in DOMAIN packets : u \in Nat /\ u <= last_uid BY <1>1 DEF TypeOK, UidsAgree, Uids
  <2>2. QED BY <1>1, <1>2, <1>6, <2>1 DEF UidsAgree, new
<1>15. ToldAgrees' BY <1>1, <1>2 DEF ToldAgrees
<1>16. QED BY <1>9, <1>10, <1>11, <1>12, <1>13, <1>14, <1>15 DEF IInv, BooksAgree

-----------------------------------------------------------------------------
\* The log of a slot after a save: the new cookie is at its end, and the cookies
\* before it are one further back.
LEMMA ToldNext ==
  ASSUME NEW t \in Seq([uid : Uids, cookie : Nat]), NEW c \in -1..(NumCookies - 2), NEW p,
         SlotTold(t, c, p), NEW u \in Uids
  PROVE  LET all == Append(t, [uid |-> u, cookie |-> NextCookie(c)])
             next == IF Len(all) < NumCookies THEN all ELSE Tail(all)
         IN  /\ next \in Seq([uid : Uids, cookie : Nat])
             /\ SlotTold(next, NextCookie(c), u)
             /\ NextCookie(c) \in 0..(NumCookies - 2)
<1> USE SlotsAssumption
<1> DEFINE d == NextCookie(c)
           e == [uid |-> u, cookie |-> d]
           all == Append(t, e)
           n == Len(t)
           next == IF Len(all) < NumCookies THEN all ELSE Tail(all)
<1>1. d \in 0..(NumCookies - 2) BY DEF NextCookie
<1>2. e \in [uid : Uids, cookie : Nat] /\ e.uid = u /\ e.cookie = d BY <1>1
<1>3. /\ n \in Nat /\ all \in Seq([uid : Uids, cookie : Nat]) /\ Len(all) = n + 1
      /\ \A i \in 1..n : all[i] = t[i]
      /\ all[n + 1] = e
      /\ all # <<>>
  BY <1>2, AppendProperties
<1>4. /\ n < NumCookies
      /\ n = 0 <=> c = -1
      /\ \A i \in 1..n : t[i].cookie = CookieBefore(c, n - i)
  BY DEF SlotTold
<1>5. ASSUME NEW i \in 1..n PROVE t[i].cookie = CookieBefore(d, n + 1 - i)
  <2>1. c # -1 BY <1>3, <1>4
  <2>2. n - i \in 0..(NumCookies - 2) /\ n + 1 - i = (n - i) + 1 BY <1>3, <1>4
  <2>3. \A back \in 0..(NumCookies - 2) : CookieBefore(c, back) = CookieBefore(d, back + 1)
    BY <2>1 DEF CookieBefore, NextCookie
  <2>4. QED BY <2>2, <2>3, <1>4
<1>6. CookieBefore(d, 0) = d BY <1>1 DEF CookieBefore
<1> HIDE DEF e, d, all
<1>7. CASE Len(all) < NumCookies
  <2>1. next = all BY <1>7
  <2>2. \A i \in 1..(n + 1) : all[i].cookie = CookieBefore(d, n + 1 - i)
    <3>1. TAKE i \in 1..(n + 1)
    <3>2. CASE i = n + 1
      <4>1. n + 1 - i = 0 /\ all[i].cookie = d BY <3>2, <1>2, <1>3
      <4>2. QED BY <4>1, <1>6
    <3>3. CASE i # n + 1
      <4>1. i \in 1..n BY <3>3, <1>3
      <4>2. QED BY <4>1, <1>3, <1>5
    <3>4. QED BY <3>2, <3>3
  <2>3. SlotTold(all, d, u) BY <1>1, <1>2, <1>3, <1>7, <2>2 DEF SlotTold
  <2>4. QED BY <1>1, <1>3, <2>1, <2>3 DEF e, d, all
<1>8. CASE ~(Len(all) < NumCookies)
  <2>1. next = Tail(all) /\ n = NumCookies - 1
    <3>1. next = Tail(all) BY <1>8
    <3>2. n + 1 >= NumCookies /\ n < NumCookies /\ n \in Nat /\ NumCookies \in Nat BY <1>8, <1>3, <1>4
    <3>3. QED BY <3>1, <3>2
  <2>2. /\ Tail(all) \in Seq([uid : Uids, cookie : Nat]) /\ Len(Tail(all)) = n
        /\ \A i \in 1..n : Tail(all)[i] = all[i + 1]
    BY <1>3, HeadTailProperties
  <2>3. \A i \in 1..n : all[i + 1].cookie = CookieBefore(d, n - i)
    <3>1. TAKE i \in 1..n
    <3>2. CASE i = n BY <3>2, <1>2, <1>3, <1>6
    <3>3. CASE i # n
      <4>1. i + 1 \in 1..n /\ n + 1 - (i + 1) = n - i BY <3>3, <1>3
      <4>2. QED BY <4>1, <1>3, <1>5
    <3>4. QED BY <3>2, <3>3
  <2>4. n \in 1..n /\ n # 0 BY <2>1, <1>3
  <2>5. Tail(all)[n] = e BY <2>2, <2>4, <1>3
  <2>6. SlotTold(Tail(all), d, u)
    <3>1. Len(Tail(all)) = n /\ n < NumCookies /\ n # 0 /\ d # -1 BY <1>1, <1>4, <2>2, <2>4
    <3>2. Tail(all)[n].uid = u BY <1>2, <2>5
    <3>3. QED BY <3>1, <3>2, <2>2, <2>3 DEF SlotTold
  <2>7. QED BY <1>1, <2>1, <2>2, <2>6 DEF e, d, all
<1>9. QED BY <1>7, <1>8

\* OutputController saves its packet into the next slot.
LEMMA SaveKeeps ==
  ASSUME IInv, Busy, ~IsSaved(Top), pipe.valid, pipe.ids = {Top},
         buffer_idx' = NextSlot, SaveInto(NextSlot), UNCHANGED <<now, working, last_uid>>
  PROVE  IInv'
<1> USE SlotsAssumption, TimeAssumption, UidsAssumption DEF device
<1> DEFINE s == NextSlot
           c == NextCookie(slots[s].cookie)
           id == <<s, c>>
           old == Overwritten(s)
           W == ToSet(working)
<1>1. /\ TypeOK /\ SlotsAgree /\ NoPacketIsLost /\ PipelineAgrees /\ KeptIsBuffered /\ KeptHasTimer
      /\ WorkAgrees /\ OriginsAgree /\ UidsAgree /\ ToldAgrees
  BY DEF IInv, BooksAgree
<1>2. s \in Slots /\ TimeNow \in Nat /\ 2 * OverwriteSecs * TicksPerSec \in Nat
  BY <1>1, ClockAndRing
<1>3. W = {Top} /\ Top \in Uids /\ Top \in DOMAIN packets /\ Top # NoUid /\ Top # 0
  <2>1. W = {Top} BY <1>1 DEF PipelineAgrees
  <2>2. Top \in DOMAIN packets /\ Top # 0 BY <2>1, <1>1 DEF WorkAgrees
  <2>3. QED BY <2>1, <2>2, <1>1 DEF TypeOK, Uids, NoUid
<1>4. packets[Top].buffer_id = NoBuffer BY <1>1, <1>3 DEF WorkAgrees
<1>5. \A r \in Slots : slots[r].pkt # Top
  <2>1. SUFFICES ASSUME NEW r \in Slots, slots[r].pkt = Top PROVE FALSE OBVIOUS
  <2>2. packets[Top].buffer_id = <<r, slots[r].cookie>> BY <2>1, <1>1, <1>3 DEF SlotsAgree
  <2>3. <<r, slots[r].cookie>> # <<>> OBVIOUS
  <2>4. QED BY <2>2, <2>3, <1>4 DEF NoBuffer
<1>6. Top \notin old /\ old = {slots[s].pkt} \ {NoUid} BY <1>2, <1>5 DEF Overwritten
<1>7. slots[s].cookie \in -1..(NumCookies - 2) /\ slots[s] \in Slot BY <1>1, <1>2 DEF TypeOK, Slot
<1>8. c \in 0..(NumCookies - 2) BY <1>7 DEF NextCookie
<1>9. id \in BufferIds /\ id # NoBuffer /\ id[1] = s /\ id[2] = c BY <1>2, <1>8 DEF BufferIds, NoBuffer
<1>10. /\ slots' = [slots EXCEPT ![s] = [pkt |-> Top, cookie |-> c, timeout |-> TimeNow + OverwriteSecs]]
       /\ packets' = [Except(packets, old) EXCEPT ![Top].buffer_id = id]
       /\ pipe' = NoPipe
       /\ kept' = KeptAfterSave(Top, old)
       /\ timers' = timers \cup {[uid |-> Top, due |-> now + 2 * OverwriteSecs * TicksPerSec]}
       /\ told' = ToldAfterSave(s, Top, c)
       /\ UNCHANGED <<now, working, last_uid>> /\ buffer_idx' = s
  BY DEF SaveInto, DelCopy, TimersAfterSave
<1> HIDE DEF s, c, id, old, W
<1>11. /\ slots'[s].pkt = Top /\ slots'[s].cookie = c /\ slots'[s].timeout = TimeNow + OverwriteSecs
       /\ \A r \in Slots \ {s} : slots'[r] = slots[r]
  BY <1>1, <1>2, <1>10 DEF TypeOK
<1>12. /\ DOMAIN packets' = DOMAIN packets \ old
       /\ packets'[Top].buffer_id = id /\ packets'[Top].origin = packets[Top].origin
       /\ packets'[Top] \in Packet
       /\ \A u \in DOMAIN packets \ (old \cup {Top}) : packets'[u] = packets[u]
  BY <1>1, <1>3, <1>6, <1>9, <1>10 DEF TypeOK, Except, Packet
<1>13. /\ DOMAIN kept' = (DOMAIN kept \ old) \cup {Top}
       /\ kept'[Top] = pipe.packet
       /\ \A u \in DOMAIN kept \ (old \cup {Top}) : kept'[u] = kept[u]
  BY <1>10 DEF KeptAfterSave
<1>14. pipe.packet = packets[Top].origin /\ pipe.packet \in Uids
  BY <1>1 DEF OriginsAgree, TypeOK, Pipe
<1>15. TypeOK'
  <2>1. slots' \in [Slots -> Slot]
    <3>1. [pkt |-> Top, cookie |-> c, timeout |-> TimeNow + OverwriteSecs] \in Slot
      BY <1>2, <1>3, <1>8 DEF Slot
    <3>2. QED BY <3>1, <1>1, <1>10 DEF TypeOK
  <2>2. DOMAIN packets' \subseteq Uids /\ packets' \in [DOMAIN packets' -> Packet]
    <3>1. \A u \in DOMAIN packets' : packets'[u] \in Packet BY <1>1, <1>12 DEF TypeOK
    <3>2. packets' = [u \in DOMAIN packets' |-> packets'[u]] BY <1>10 DEF Except
    <3>3. QED BY <3>1, <3>2, <1>12, <1>1 DEF TypeOK
  <2>3. DOMAIN kept' \subseteq Uids /\ kept' \in [DOMAIN kept' -> Uids]
    <3>1. \A u \in DOMAIN kept' : kept'[u] \in Uids BY <1>1, <1>13, <1>14 DEF TypeOK
    <3>2. kept' = [u \in DOMAIN kept' |-> kept'[u]] BY <1>10 DEF KeptAfterSave
    <3>3. QED BY <3>1, <3>2, <1>13, <1>1, <1>3 DEF TypeOK
  <2>4. timers' \subseteq [uid : Uids, due : Nat]
    <3> DEFINE due == now + 2 * OverwriteSecs * TicksPerSec
    <3>1. timers \subseteq [uid : Uids, due : Nat] /\ now \in Nat BY <1>1 DEF TypeOK
    <3>2. due \in Nat BY <1>2, <3>1
    <3>3. timers' = timers \cup {[uid |-> Top, due |-> due]} BY <1>10
    <3> HIDE DEF due
    <3>4. [uid |-> Top, due |-> due] \in [uid : Uids, due : Nat] BY <1>3, <3>2
    <3>5. QED BY <3>1, <3>3, <3>4
  <2>5. told' \in [Slots -> Seq([uid : Uids, cookie : Nat])]
    BY <1>1, <1>2, <1>3, <1>7, <1>10, ToldNext DEF ToldAgrees, TypeOK, ToldAfterSave, c
  <2>6. pipe' \in Pipe BY <1>10 DEF Pipe, NoPipe, NoUid
  <2>7. QED BY <2>1, <2>2, <2>3, <2>4, <2>5, <2>6, <1>1, <1>2, <1>10 DEF TypeOK
<1>16. SlotsAgree'
  <2>1. ASSUME NEW r \in Slots, slots'[r].pkt # NoUid
        PROVE  /\ slots'[r].pkt \in DOMAIN packets'
               /\ packets'[slots'[r].pkt].buffer_id = <<r, slots'[r].cookie>>
    <3>1. CASE r = s BY <3>1, <1>3, <1>6, <1>11, <1>12 DEF id
    <3>2. CASE r # s
      <4>1. /\ slots'[r] = slots[r] /\ slots[r].pkt \in DOMAIN packets
            /\ packets[slots[r].pkt].buffer_id = <<r, slots[r].cookie>>
        BY <3>2, <2>1, <1>1, <1>11 DEF SlotsAgree
      <4>2. slots[r].pkt \notin old
        <5>1. slots[s].pkt # NoUid => packets[slots[s].pkt].buffer_id = <<s, slots[s].cookie>>
          BY <1>1, <1>2 DEF SlotsAgree
        <5>2. QED BY <4>1, <5>1, <3>2, <1>6
      <4>3. slots[r].pkt # Top BY <1>5
      <4>4. QED BY <4>1, <4>2, <4>3, <1>12
    <3>3. QED BY <3>1, <3>2
  <2>2. ASSUME NEW u \in DOMAIN packets', packets'[u].buffer_id # NoBuffer
        PROVE  slots'[packets'[u].buffer_id[1]].pkt = u
    <3>1. CASE u = Top BY <3>1, <1>9, <1>11, <1>12
    <3>2. CASE u # Top
      <4>1. u \in DOMAIN packets /\ u \notin old /\ packets'[u] = packets[u] BY <3>2, <1>12
      <4>2. packets[u].buffer_id[1] \in Slots /\ slots[packets[u].buffer_id[1]].pkt = u
        BY <4>1, <2>2, <1>1 DEF SlotsAgree, TypeOK, Packet, BufferIds
      <4>3. u # NoUid BY <4>1, <1>1 DEF TypeOK, Uids, NoUid
      <4>4. packets[u].buffer_id[1] # s BY <4>1, <4>2, <4>3, <1>6
      <4>5. QED BY <4>1, <4>2, <4>4, <1>11
    <3>3. QED BY <3>1, <3>2
  <2>3. QED BY <2>1, <2>2 DEF SlotsAgree
<1>17. NoPacketIsLost'
  <2>1. SUFFICES ASSUME NEW u \in DOMAIN packets'
                 PROVE  u \in ToSet(working') \/ \E r \in Slots : slots'[r].pkt = u
    BY DEF NoPacketIsLost
  <2>2. CASE u = Top BY <2>2, <1>3, <1>10 DEF W
  <2>3. CASE u # Top
    <3>1. u \in DOMAIN packets /\ u \notin old /\ u # NoUid
      BY <1>12, <1>1 DEF TypeOK, Uids, NoUid
    <3>2. PICK r \in Slots : slots[r].pkt = u BY <3>1, <2>3, <1>1, <1>3 DEF NoPacketIsLost, W
    <3>3. r # s BY <3>1, <3>2, <1>6
    <3>4. QED BY <3>2, <3>3, <1>11
  <2>4. QED BY <2>2, <2>3
<1>18. PipelineAgrees' BY <1>10 DEF PipelineAgrees, NoPipe
<1>19. KeptIsBuffered'
  <2>1. SUFFICES ASSUME NEW u \in DOMAIN kept' PROVE \E r \in Slots : slots'[r].pkt = u
    BY DEF KeptIsBuffered
  <2>2. CASE u = Top BY <2>2, <1>2, <1>11
  <2>3. CASE u # Top
    <3>1. u \in DOMAIN kept /\ u \notin old /\ u # NoUid
      BY <2>3, <1>13, <1>1 DEF TypeOK, Uids, NoUid
    <3>2. PICK r \in Slots : slots[r].pkt = u BY <3>1, <1>1 DEF KeptIsBuffered
    <3>3. r # s BY <3>1, <3>2, <1>6
    <3>4. QED BY <3>2, <3>3, <1>11
  <2>4. QED BY <2>2, <2>3
<1>20. KeptHasTimer'
  <2>1. SUFFICES ASSUME NEW u \in DOMAIN kept' PROVE \E t \in timers' : t.uid = u /\ t.due >= now'
    BY DEF KeptHasTimer
  <2>2. CASE u = Top
    <3> DEFINE t == [uid |-> Top, due |-> now + 2 * OverwriteSecs * TicksPerSec]
    <3>1. t \in timers' /\ t.uid = u /\ t.due = now + 2 * OverwriteSecs * TicksPerSec BY <2>2, <1>10
    <3>2. now \in Nat BY <1>1 DEF TypeOK
    <3>3. t.due >= now BY <3>1, <3>2, <1>2
    <3>4. QED BY <3>1, <3>3, <1>10
  <2>3. CASE u # Top BY <2>3, <1>1, <1>10, <1>13 DEF KeptHasTimer
  <2>4. QED BY <2>2, <2>3
<1>21. WorkAgrees'
  <2>1. IsSaved(Top)'
    <3>1. TimeNow' = TimeNow BY <1>10 DEF TimeNow
    <3>2. TimeNow < TimeNow + OverwriteSecs BY <1>2
    <3>3. Top' = Top BY <1>10 DEF Top
    <3>4. QED BY <3>1, <3>2, <3>3, <1>9, <1>11, <1>12 DEF IsSaved, IsAlive
  <2>2. ToSet(working') = {Top} /\ Top' = Top BY <1>3, <1>10 DEF W, Top
  <2>3. Top \in DOMAIN packets' BY <1>3, <1>6, <1>12
  <2>4. ~pipe'.valid BY <1>10 DEF NoPipe
  <2>5. QED BY <2>1, <2>2, <2>3, <2>4, <1>1, <1>10 DEF WorkAgrees
<1>22. OriginsAgree'
  <2>1. \A u \in DOMAIN kept' : kept'[u] = packets'[u].origin
    <3>1. TAKE u \in DOMAIN kept'
    <3>2. CASE u = Top BY <3>2, <1>12, <1>13, <1>14
    <3>3. CASE u # Top
      <4>1. u \in DOMAIN kept /\ u \notin old BY <3>3, <1>13
      <4>2. u \in DOMAIN packets BY <4>1, <1>1, KeptIsLive
      <4>3. QED BY <4>1, <4>2, <3>3, <1>1, <1>12, <1>13 DEF OriginsAgree
    <3>4. QED BY <3>2, <3>3
  <2>2. 0 \in DOMAIN packets' => packets'[0].origin = 0
    BY <1>1, <1>3, <1>12 DEF OriginsAgree
  <2>3. QED BY <2>1, <2>2, <1>10 DEF OriginsAgree, NoPipe
<1>23. UidsAgree' BY <1>1, <1>3, <1>10, <1>11, <1>12 DEF UidsAgree
<1>24. ToldAgrees'
  <2>1. SlotTold(told'[s], c, Top)
    BY <1>1, <1>2, <1>3, <1>7, <1>10, ToldNext DEF ToldAgrees, TypeOK, ToldAfterSave, c
  <2>2. \A r \in Slots \ {s} : told'[r] = told[r] BY <1>1, <1>10 DEF ToldAfterSave, TypeOK
  <2>3. QED BY <2>1, <2>2, <1>1, <1>11 DEF ToldAgrees
<1>25. QED
  BY <1>15, <1>16, <1>17, <1>18, <1>19, <1>20, <1>21, <1>22, <1>23, <1>24 DEF IInv, BooksAgree

LEMMA OutputControllerKeeps == IInv /\ OutputController => IInv'
<1> SUFFICES ASSUME IInv, OutputController PROVE IInv' OBVIOUS
<1> USE SlotsAssumption DEF ring, device
<1>1. UNCHANGED <<now, working, last_uid>> BY DEF OutputController
<1>2. CASE IsSaved(Top) /\ UNCHANGED <<ring, packets, device, told, aborted>>
  BY <1>1, <1>2, QuietKeeps
<1>3. CASE buffer_idx' = NextSlot /\ UNCHANGED <<slots, packets, device, told, aborted>>
  <2>1. TimeNow' = TimeNow /\ Top' = Top BY <1>1 DEF TimeNow, Top
  <2>2. NextSlot \in Slots BY ClockAndRing DEF IInv, BooksAgree
  <2>3. TypeOK' BY <1>1, <1>3, <2>2 DEF IInv, BooksAgree, TypeOK
  <2>4. SlotsAgree' /\ NoPacketIsLost' /\ PipelineAgrees' /\ KeptIsBuffered' /\ KeptHasTimer'
    BY <1>1, <1>3
    DEF IInv, BooksAgree, SlotsAgree, NoPacketIsLost, PipelineAgrees, KeptIsBuffered, KeptHasTimer
  <2>5. WorkAgrees' BY <1>1, <1>3, <2>1 DEF IInv, WorkAgrees, IsSaved, IsAlive
  <2>6. OriginsAgree' /\ UidsAgree' /\ ToldAgrees'
    BY <1>1, <1>3 DEF IInv, OriginsAgree, UidsAgree, ToldAgrees
  <2>7. QED BY <2>3, <2>4, <2>5, <2>6 DEF IInv, BooksAgree
<1>4. CASE /\ ~IsSaved(Top) /\ pipe.valid /\ pipe.ids = {Top}
           /\ buffer_idx' = NextSlot /\ SaveInto(NextSlot)
  BY <1>1, <1>4, SaveKeeps DEF OutputController
<1>5. QED BY <1>2, <1>3, <1>4 DEF OutputController

\* Answer takes a packet out of its slot, into an empty pipeline.
LEMMA AnswerKeeps == ASSUME IInv, NEW id \in BufferIds, Answer(id) PROVE IInv'
<1> USE SlotsAssumption, TimeAssumption, UidsAssumption DEF ring, device
<1> DEFINE s == id[1]
           uid == slots[s].pkt
<1>1. /\ TypeOK /\ SlotsAgree /\ NoPacketIsLost /\ PipelineAgrees /\ KeptIsBuffered /\ KeptHasTimer
      /\ WorkAgrees /\ OriginsAgree /\ UidsAgree /\ ToldAgrees
  BY DEF IInv, BooksAgree
<1>2. CASE ~IsNamed(id)
  <2>1. UNCHANGED <<now, ring, packets, working, device, last_uid, told>> BY <1>2 DEF Answer
  <2>2. QED BY <2>1, QuietKeeps
<1>3. CASE IsNamed(id)
  <2>1. s \in Slots /\ uid # NoUid BY <1>3 DEF IsNamed, BufferIds
  <2>2. uid \in DOMAIN packets /\ uid \in Uids /\ uid # 0
    BY <2>1, <1>1 DEF SlotsAgree, UidsAgree, TypeOK
  <2>3. /\ slots' = [slots EXCEPT ![s].pkt = NoUid]
        /\ packets' = [packets EXCEPT ![uid].buffer_id = NoBuffer]
        /\ working' = <<uid>>
        /\ pipe' = IF uid \in DOMAIN kept THEN SetPacket(uid, kept[uid]) ELSE pipe
        /\ kept' = Except(kept, {uid})
        /\ UNCHANGED <<now, buffer_idx, timers, last_uid, told>>
    BY <1>3 DEF Answer
  <2>4. working = <<>> /\ ToSet(working) = {} BY DEF Answer, Idle, ToSet
  <2>5. pipe = NoPipe BY <1>1, <2>4 DEF PipelineAgrees
  <2>6. working' \in Seq(Uids) /\ Len(working') = 1 /\ ToSet(working') = {uid}
    BY <2>2, <2>3, WorkStarts
  <2> HIDE DEF s, uid
  <2>7. /\ slots'[s].pkt = NoUid /\ slots'[s].cookie = slots[s].cookie
        /\ slots' \in [Slots -> Slot]
        /\ \A r \in Slots \ {s} : slots'[r] = slots[r]
    BY <1>1, <2>1, <2>3 DEF TypeOK, Slot
  <2>8. /\ DOMAIN packets' = DOMAIN packets
        /\ packets'[uid].buffer_id = NoBuffer /\ packets'[uid].origin = packets[uid].origin
        /\ packets' \in [DOMAIN packets -> Packet]
        /\ \A u \in DOMAIN packets \ {uid} : packets'[u] = packets[u]
    BY <1>1, <2>2, <2>3 DEF TypeOK, Packet
  <2>9. DOMAIN kept' = DOMAIN kept \ {uid} /\ \A u \in DOMAIN kept' : kept'[u] = kept[u]
    BY <2>3 DEF Except
  <2>10. \/ uid \in DOMAIN kept /\ pipe' = [valid |-> TRUE, ids |-> {uid}, packet |-> kept[uid]]
         \/ uid \notin DOMAIN kept /\ pipe' = NoPipe
    BY <2>3, <2>5 DEF SetPacket, NoPipe
  <2>11. uid \in DOMAIN kept => kept[uid] \in Uids /\ kept[uid] = packets[uid].origin
    BY <1>1 DEF TypeOK, OriginsAgree
  <2>12. TypeOK'
    <3>1. pipe' \in Pipe
      <4>1. CASE uid \in DOMAIN kept
        <5>1. kept[uid] \in Uids /\ {uid} \in SUBSET Uids BY <4>1, <2>2, <2>11
        <5>2. [valid |-> TRUE, ids |-> {uid}, packet |-> kept[uid]] \in Pipe BY <5>1 DEF Pipe
        <5>3. QED BY <4>1, <5>2, <2>10
      <4>2. CASE uid \notin DOMAIN kept BY <4>2, <2>10, NoPipeType
      <4>3. QED BY <4>1, <4>2
    <3>2. DOMAIN kept' \subseteq Uids /\ kept' \in [DOMAIN kept' -> Uids]
      BY <1>1, <2>3 DEF TypeOK, Except
    <3>3. QED BY <3>1, <3>2, <1>1, <2>3, <2>6, <2>7, <2>8 DEF TypeOK
  <2>13. SlotsAgree'
    <3>1. ASSUME NEW r \in Slots, slots'[r].pkt # NoUid
          PROVE  /\ slots'[r].pkt \in DOMAIN packets'
                 /\ packets'[slots'[r].pkt].buffer_id = <<r, slots'[r].cookie>>
      <4>1. r # s /\ slots'[r] = slots[r] BY <3>1, <2>7
      <4>2. /\ slots[r].pkt \in DOMAIN packets
            /\ packets[slots[r].pkt].buffer_id = <<r, slots[r].cookie>>
        BY <4>1, <3>1, <1>1 DEF SlotsAgree
      <4>3. packets[uid].buffer_id = <<s, slots[s].cookie>>
        BY <1>1, <2>1 DEF SlotsAgree, uid
      <4>4. slots[r].pkt # uid BY <4>1, <4>2, <4>3
      <4>5. QED BY <4>1, <4>2, <4>4, <2>8
    <3>2. ASSUME NEW u \in DOMAIN packets', packets'[u].buffer_id # NoBuffer
          PROVE  slots'[packets'[u].buffer_id[1]].pkt = u
      <4>1. u \in DOMAIN packets /\ u # uid /\ packets'[u] = packets[u] BY <3>2, <2>8
      <4>2. packets[u].buffer_id[1] \in Slots /\ slots[packets[u].buffer_id[1]].pkt = u
        BY <4>1, <3>2, <1>1 DEF SlotsAgree, TypeOK, Packet, BufferIds
      <4>3. packets[u].buffer_id[1] # s BY <4>1, <4>2 DEF uid
      <4>4. QED BY <4>1, <4>2, <4>3, <2>7
    <3>3. QED BY <3>1, <3>2 DEF SlotsAgree
  <2>14. NoPacketIsLost'
    <3>1. SUFFICES ASSUME NEW u \in DOMAIN packets, u # uid
                   PROVE  \E r \in Slots : slots'[r].pkt = u
      BY <2>6, <2>8 DEF NoPacketIsLost
    <3>2. PICK r \in Slots : slots[r].pkt = u BY <3>1, <2>4, <1>1 DEF NoPacketIsLost
    <3>3. r # s BY <3>1, <3>2 DEF uid
    <3>4. QED BY <3>2, <3>3, <2>7
  <2>15. PipelineAgrees'
    <3>1. working' # <<>> BY <2>6
    <3>2. QED BY <3>1, <2>6, <2>10 DEF PipelineAgrees, NoPipe
  <2>16. KeptIsBuffered'
    <3>1. SUFFICES ASSUME NEW u \in DOMAIN kept, u # uid PROVE \E r \in Slots : slots'[r].pkt = u
      BY <2>9 DEF KeptIsBuffered
    <3>2. PICK r \in Slots : slots[r].pkt = u BY <1>1 DEF KeptIsBuffered
    <3>3. r # s BY <3>1, <3>2 DEF uid
    <3>4. QED BY <3>2, <3>3, <2>7
  <2>17. KeptHasTimer' BY <1>1, <2>3, <2>9 DEF KeptHasTimer
  <2>18. WorkAgrees' BY <2>2, <2>6, <2>8 DEF WorkAgrees
  <2>19. OriginsAgree'
    <3>1. \A u \in DOMAIN kept' : kept'[u] = packets'[u].origin
      BY <1>1, <2>8, <2>9, KeptIsLive DEF OriginsAgree
    <3>2. 0 \in DOMAIN packets' => packets'[0].origin = 0
      BY <1>1, <2>2, <2>8 DEF OriginsAgree
    <3>3. \A u \in pipe'.ids : packets'[u].origin = pipe'.packet
      BY <2>8, <2>10, <2>11 DEF NoPipe
    <3>4. pipe'.valid => pipe'.packet # NoUid BY <2>10, <2>11 DEF NoPipe, NoUid, Uids
    <3>5. QED BY <3>1, <3>2, <3>3, <3>4 DEF OriginsAgree
  <2>20. UidsAgree' BY <1>1, <2>3, <2>7, <2>8 DEF UidsAgree, NoUid
  <2>21. ToldAgrees'
    <3>1. SlotTold(told[s], slots[s].cookie, NoUid) BY <1>1, <2>1 DEF ToldAgrees, SlotTold
    <3>2. QED BY <3>1, <1>1, <2>3, <2>7 DEF ToldAgrees
  <2>22. QED
    BY <2>12, <2>13, <2>14, <2>15, <2>16, <2>17, <2>18, <2>19, <2>20, <2>21 DEF IInv, BooksAgree
<1>4. QED BY <1>2, <1>3

\* Destroy ends the work on a packet; the packet lives on if and only if it is in
\* a slot.
LEMMA DestroyKeeps == IInv /\ Destroy => IInv'
<1> SUFFICES ASSUME IInv, Destroy PROVE IInv' OBVIOUS
<1> USE SlotsAssumption, TimeAssumption, UidsAssumption DEF ring, device
<1> DEFINE W == ToSet(working)
<1>1. /\ TypeOK /\ SlotsAgree /\ NoPacketIsLost /\ PipelineAgrees /\ KeptIsBuffered /\ KeptHasTimer
      /\ WorkAgrees /\ OriginsAgree /\ UidsAgree /\ ToldAgrees
  BY DEF IInv, BooksAgree
<1>2. /\ working' = Tail(working)
      /\ UNCHANGED <<now, slots, buffer_idx, timers, last_uid, told>>
  BY DEF Destroy
<1>3. working \in Seq(Uids) /\ working # <<>> BY <1>1 DEF TypeOK, Destroy, Busy
<1>4. /\ Top \in Uids /\ Top \in W
      /\ working' \in Seq(Uids) /\ ToSet(working') = W \ {Top}
      /\ \A i, j \in 1..Len(working') : working'[i] = working'[j] => i = j
      /\ W = {Top} => working' = <<>>
  BY <1>1, <1>2, <1>3, WorkEnds DEF WorkAgrees, Top
<1>5. Top \in DOMAIN packets /\ W \subseteq DOMAIN packets BY <1>1, <1>4 DEF WorkAgrees
<1>6. TimeNow' = TimeNow BY <1>2 DEF TimeNow
<1>7. CASE IsSaved(Top)
  <2>1. UNCHANGED <<packets, pipe, kept>> BY <1>7 DEF Destroy, IsSpared
  <2>2. packets[Top].buffer_id # NoBuffer BY <1>7 DEF IsSaved
  <2>3. ~pipe.valid BY <1>1, <1>4, <2>2 DEF WorkAgrees
  <2>4. TypeOK' BY <1>1, <1>2, <1>4, <2>1 DEF TypeOK
  <2>5. SlotsAgree' /\ KeptIsBuffered' /\ KeptHasTimer'
    BY <1>1, <1>2, <2>1 DEF SlotsAgree, KeptIsBuffered, KeptHasTimer
  <2>6. NoPacketIsLost'
    <3>1. packets[Top].buffer_id[1] \in Slots /\ slots[packets[Top].buffer_id[1]].pkt = Top
      BY <1>1, <1>5, <2>2 DEF SlotsAgree, TypeOK, Packet, BufferIds
    <3>2. QED BY <3>1, <1>1, <1>2, <1>4, <2>1 DEF NoPacketIsLost
  <2>7. PipelineAgrees' BY <1>1, <2>1, <2>3 DEF PipelineAgrees
  <2>8. WorkAgrees' BY <1>1, <1>2, <1>4, <1>6, <2>1 DEF WorkAgrees, IsSaved, IsAlive
  <2>9. OriginsAgree' /\ UidsAgree' /\ ToldAgrees'
    BY <1>1, <1>2, <2>1 DEF OriginsAgree, UidsAgree, ToldAgrees
  <2>10. QED BY <2>4, <2>5, <2>6, <2>7, <2>8, <2>9 DEF IInv, BooksAgree
<1>8. CASE ~IsSaved(Top)
  <2>1. /\ packets' = Except(packets, {Top})
        /\ pipe' = IF Top \in pipe.ids THEN DelCopy(pipe, Top) ELSE pipe
        /\ kept' = IF Top \in pipe.ids THEN kept ELSE Except(kept, {Top})
    BY <1>8 DEF Destroy, IsSpared
  <2>2. packets[Top].buffer_id = NoBuffer BY <1>1, <1>4, <1>8 DEF WorkAgrees
  <2>3. \A r \in Slots : slots[r].pkt # Top
    <3>1. SUFFICES ASSUME NEW r \in Slots, slots[r].pkt = Top PROVE FALSE OBVIOUS
    <3>2. Top # NoUid BY <1>4 DEF Uids, NoUid
    <3>3. packets[Top].buffer_id = <<r, slots[r].cookie>> BY <3>1, <3>2, <1>1 DEF SlotsAgree
    <3>4. <<r, slots[r].cookie>> # <<>> OBVIOUS
    <3>5. QED BY <3>3, <3>4, <2>2 DEF NoBuffer
  <2>4. Top \notin DOMAIN kept BY <1>1, <2>3 DEF KeptIsBuffered
  <2>5. kept' = kept
    <3>1. Except(kept, {Top}) = kept BY <2>4, <1>1 DEF Except, TypeOK
    <3>2. QED BY <3>1, <2>1
  <2>6. DOMAIN packets' = DOMAIN packets \ {Top} /\ \A u \in DOMAIN packets' : packets'[u] = packets[u]
    BY <2>1 DEF Except
  <2>7. \/ /\ pipe.valid /\ pipe.ids = W /\ W # {Top}
           /\ pipe'.valid /\ pipe'.ids = W \ {Top} /\ pipe'.packet = pipe.packet
           /\ pipe' \in Pipe
        \/ pipe' = NoPipe
    <3>1. pipe \in Pipe BY <1>1 DEF TypeOK
    <3>2. CASE ~pipe.valid
      <4>1. pipe = NoPipe BY <3>2, <1>1 DEF PipelineAgrees
      <4>2. QED BY <4>1, <2>1 DEF NoPipe
    <3>3. CASE pipe.valid
      <4>1. pipe.ids = W BY <3>3, <1>1 DEF PipelineAgrees
      <4>2. pipe' = DelCopy(pipe, Top) BY <4>1, <2>1, <1>4
      <4>3. QED BY <3>1, <3>3, <4>1, <4>2 DEF DelCopy, Pipe
    <3>4. QED BY <3>2, <3>3
  <2>8. TypeOK'
    <3>1. pipe' \in Pipe BY <2>7, NoPipeType
    <3>2. DOMAIN packets' \subseteq Uids /\ packets' \in [DOMAIN packets' -> Packet]
      BY <1>1, <2>1 DEF TypeOK, Except
    <3>3. QED BY <3>1, <3>2, <1>1, <1>2, <1>4, <2>5 DEF TypeOK
  <2>9. SlotsAgree'
    BY <1>1, <1>2, <2>3, <2>6 DEF SlotsAgree
  <2>10. NoPacketIsLost' BY <1>1, <1>2, <1>4, <2>6 DEF NoPacketIsLost
  <2>11. PipelineAgrees'
    <3>1. W # {Top} => working' # <<>>
      <4>1. ASSUME working' = <<>> PROVE W \ {Top} = {} BY <4>1, <1>4 DEF ToSet
      <4>2. QED BY <4>1, <1>4
    <3>2. QED BY <3>1, <2>7, <1>4 DEF PipelineAgrees, NoPipe
  <2>12. KeptIsBuffered' /\ KeptHasTimer' BY <1>1, <1>2, <2>5 DEF KeptIsBuffered, KeptHasTimer
  <2>13. WorkAgrees'
    <3>1. pipe'.valid => pipe.valid BY <2>7 DEF NoPipe
    <3>2. \A u \in ToSet(working') : u \in W /\ u \in DOMAIN packets' /\ packets'[u] = packets[u]
      BY <1>4, <1>5, <2>6
    <3>3. \A u \in ToSet(working') : packets[u].buffer_id # NoBuffer => IsSaved(u) /\ ~pipe.valid
      BY <3>2, <1>1 DEF WorkAgrees
    <3>4. \A u \in ToSet(working') : IsSaved(u) => IsSaved(u)'
      BY <3>2, <1>2, <1>6 DEF IsSaved, IsAlive
    <3>5. 0 \in ToSet(working') => ~pipe'.valid BY <3>1, <3>2, <1>1 DEF WorkAgrees
    <3>6. QED BY <1>4, <3>1, <3>2, <3>3, <3>4, <3>5 DEF WorkAgrees
  <2>14. OriginsAgree'
    <3>1. \A u \in DOMAIN kept' : kept'[u] = packets'[u].origin
      BY <1>1, <2>4, <2>5, <2>6, KeptIsLive DEF OriginsAgree
    <3>2. \A u \in pipe'.ids : packets'[u].origin = pipe'.packet
      BY <1>1, <1>5, <2>6, <2>7 DEF OriginsAgree, NoPipe
    <3>3. pipe'.valid => pipe'.packet # NoUid BY <1>1, <2>7 DEF OriginsAgree, NoPipe
    <3>4. 0 \in DOMAIN packets' => packets'[0].origin = 0 BY <1>1, <2>6 DEF OriginsAgree
    <3>5. QED BY <3>1, <3>2, <3>3, <3>4 DEF OriginsAgree
  <2>15. UidsAgree' /\ ToldAgrees' BY <1>1, <1>2, <2>6 DEF UidsAgree, ToldAgrees
  <2>16. QED
    BY <2>8, <2>9, <2>10, <2>11, <2>12, <2>13, <2>14, <2>15 DEF IInv, BooksAgree
<1>9. QED BY <1>7, <1>8

\* Expire drops an ns-3 packet with its call; the other calls stay pending.
LEMMA ExpireKeeps == ASSUME IInv, NEW t \in timers, Expire(t) PROVE IInv'
<1> USE DEF ring, device
<1>1. /\ TypeOK /\ SlotsAgree /\ NoPacketIsLost /\ PipelineAgrees /\ KeptIsBuffered /\ KeptHasTimer
      /\ WorkAgrees /\ OriginsAgree /\ UidsAgree /\ ToldAgrees
  BY DEF IInv, BooksAgree
<1>2. /\ timers' = timers \ {t} /\ kept' = Except(kept, {t.uid})
      /\ UNCHANGED <<now, slots, buffer_idx, packets, working, pipe, last_uid, told>>
  BY DEF Expire
<1>3. DOMAIN kept' = DOMAIN kept \ {t.uid} /\ \A u \in DOMAIN kept' : kept'[u] = kept[u]
  BY <1>2 DEF Except
<1>4. TypeOK' BY <1>1, <1>2 DEF TypeOK, Except
<1>5. SlotsAgree' /\ NoPacketIsLost' /\ PipelineAgrees'
  BY <1>1, <1>2 DEF SlotsAgree, NoPacketIsLost, PipelineAgrees
<1>6. KeptIsBuffered' BY <1>1, <1>2, <1>3 DEF KeptIsBuffered
<1>7. KeptHasTimer' BY <1>1, <1>2, <1>3 DEF KeptHasTimer
<1>8. WorkAgrees'
  <2>1. TimeNow' = TimeNow BY <1>2 DEF TimeNow
  <2>2. QED BY <2>1, <1>1, <1>2 DEF WorkAgrees, IsSaved, IsAlive
<1>9. OriginsAgree' /\ UidsAgree' /\ ToldAgrees'
  BY <1>1, <1>2, <1>3 DEF OriginsAgree, UidsAgree, ToldAgrees
<1>10. QED BY <1>4, <1>5, <1>6, <1>7, <1>8, <1>9 DEF IInv, BooksAgree

\* Time passes only when no packet is worked on and every call that is due ran.
LEMMA TickKeeps == IInv /\ Tick => IInv'
<1> SUFFICES ASSUME IInv, Tick PROVE IInv' OBVIOUS
<1> USE DEF ring, device
<1>1. /\ TypeOK /\ SlotsAgree /\ NoPacketIsLost /\ PipelineAgrees /\ KeptIsBuffered /\ KeptHasTimer
      /\ WorkAgrees /\ OriginsAgree /\ UidsAgree /\ ToldAgrees
  BY DEF IInv, BooksAgree
<1>2. /\ now' = now + 1 /\ now \in Nat /\ \A t \in timers : t.due > now /\ t.due \in Nat
      /\ UNCHANGED <<slots, buffer_idx, packets, working, pipe, kept, timers, last_uid, told>>
  BY <1>1 DEF Tick, TypeOK
<1>3. working' = <<>> /\ ToSet(working') = {} /\ Len(working') = 0
  BY <1>2 DEF Tick, Idle, ToSet
<1>4. TypeOK'
  <2>1. now' \in Nat BY <1>2
  <2>2. QED BY <2>1, <1>1, <1>2 DEF TypeOK
<1>5. SlotsAgree' /\ NoPacketIsLost' /\ PipelineAgrees' /\ KeptIsBuffered'
  BY <1>1, <1>2 DEF SlotsAgree, NoPacketIsLost, PipelineAgrees, KeptIsBuffered
<1>6. KeptHasTimer'
  <2>1. \A t \in timers : t.due >= now + 1 BY <1>2
  <2>2. QED BY <2>1, <1>1, <1>2 DEF KeptHasTimer
<1>7. WorkAgrees' BY <1>3 DEF WorkAgrees
<1>8. OriginsAgree' /\ UidsAgree' /\ ToldAgrees'
  BY <1>1, <1>2 DEF OriginsAgree, UidsAgree, ToldAgrees
<1>9. QED BY <1>4, <1>5, <1>6, <1>7, <1>8 DEF IInv, BooksAgree

LEMMA NextHolds == IInv /\ [Next]_vars => IInv'
<1> SUFFICES ASSUME IInv, [Next]_vars PROVE IInv' OBVIOUS
<1>1. CASE OutputControllerAborts \/ CloneAborts \/ OutputPort
  <2>1. UNCHANGED <<now, ring, packets, working, device, last_uid, told>>
    BY <1>1 DEF OutputControllerAborts, CloneAborts, OutputPort, Abort
  <2>2. QED BY <2>1, QuietKeeps
<1>2. CASE UNCHANGED vars BY <1>2, QuietKeeps DEF vars
<1>3. QED
  BY <1>1, <1>2, ReceiveKeeps, PacketOutDataKeeps, AnswerKeeps, OutputControllerKeeps, CloneKeeps,
     DestroyKeeps, ExpireKeeps, TickKeeps
  DEF Next

\* An answer finds what was told last of its slot, an output what it is a copy of.
LEMMA OutHolds ==
  ASSUME IInv, OutAgrees, [Next]_vars
  PROVE  /\ OutAgrees'
         /\ \A g \in out'.got : \A t \in ToSet(told[g.id[1]]) : t.cookie = g.id[2] => t.uid = g.uid
         /\ \A s \in out'.sent : s.packet = packets[s.uid].origin
<1> USE SlotsAssumption
<1>1. CASE UNCHANGED <<out, told, packets>> BY <1>1 DEF OutAgrees
<1>2. CASE out' = Quiet BY <1>2 DEF OutAgrees, Quiet
<1>3. ASSUME NEW id \in BufferIds, Answer(id), IsNamed(id)
      PROVE  /\ out'.sent = {} /\ told' = told
             /\ \A g \in out'.got : \A t \in ToSet(told[g.id[1]]) : t.cookie = g.id[2] => t.uid = g.uid
  <2>1. out' = [sent |-> {}, got |-> {[uid |-> slots[id[1]].pkt, id |-> id]}] /\ told' = told
    BY <1>3 DEF Answer, Quiet
  <2>2. id[1] \in Slots /\ slots[id[1]].pkt # NoUid /\ slots[id[1]].cookie = id[2]
    BY <1>3 DEF IsNamed, BufferIds
  <2>3. /\ SlotTold(told[id[1]], id[2], slots[id[1]].pkt)
        /\ told[id[1]] \in Seq([uid : Uids, cookie : Nat])
        /\ id[2] \in 0..(NumCookies - 2)
    BY <2>2 DEF IInv, BooksAgree, TypeOK, ToldAgrees, BufferIds
  <2>4. ASSUME NEW t \in ToSet(told[id[1]]), t.cookie = id[2] PROVE t.uid = slots[id[1]].pkt
    <3> DEFINE n == Len(told[id[1]])
    <3>1. n \in Nat /\ n < NumCookies BY <2>3 DEF SlotTold
    <3>2. PICK i \in 1..n : t = told[id[1]][i] BY <2>3 DEF ToSet
    <3>3. id[2] = CookieBefore(id[2], n - i) BY <2>3, <2>4, <3>2 DEF SlotTold
    <3>4. n - i \in 0..(NumCookies - 2) BY <3>1
    <3>5. n - i = 0
      <4>1. \A c, back \in 0..(NumCookies - 2) : c = CookieBefore(c, back) => back = 0
        BY DEF CookieBefore
      <4>2. QED BY <4>1, <3>3, <3>4, <2>3
    <3>6. i = n BY <3>5, <3>1
    <3>7. QED BY <3>2, <3>6, <2>2, <2>3 DEF SlotTold
  <2>5. QED BY <2>1, <2>4
<1>4. ASSUME OutputPort
      PROVE  out'.got = {} /\ packets' = packets /\ \A s \in out'.sent : s.packet = packets[s.uid].origin
  <2>1. Top \in ToSet(working)
    BY <1>4, WorkEnds DEF OutputPort, Busy, IInv, BooksAgree, TypeOK, WorkAgrees, Top
  <2>2. pipe.valid => packets[Top].origin = pipe.packet
    BY <2>1 DEF IInv, BooksAgree, PipelineAgrees, OriginsAgree
  <2>3. Top = 0 => packets[Top].origin = 0 BY <2>1 DEF IInv, WorkAgrees, OriginsAgree
  <2>4. packets' = packets BY <1>4 DEF OutputPort
  <2>5. CASE pipe.valid
    <3>1. out' = [sent |-> {[uid |-> Top, packet |-> pipe.packet]}, got |-> {}]
      BY <1>4, <2>5 DEF OutputPort, Quiet
    <3>2. QED BY <3>1, <2>2, <2>4, <2>5
  <2>6. CASE ~pipe.valid /\ Top = 0
    <3>1. out' = [sent |-> {[uid |-> Top, packet |-> 0]}, got |-> {}]
      BY <1>4, <2>6 DEF OutputPort, Quiet
    <3>2. QED BY <3>1, <2>3, <2>4, <2>6
  <2>7. CASE ~pipe.valid /\ Top # 0
    <3>1. out' = [sent |-> {}, got |-> {}] BY <1>4, <2>7 DEF OutputPort, Quiet
    <3>2. QED BY <3>1, <2>4
  <2>8. QED BY <2>5, <2>6, <2>7
<1>5. CASE OutputControllerAborts \/ CloneAborts \/ UNCHANGED vars
  BY <1>1, <1>5 DEF OutputControllerAborts, CloneAborts, Abort, vars
<1>6. CASE \E id \in BufferIds : Answer(id)
  <2>1. PICK id \in BufferIds : Answer(id) BY <1>6
  <2>2. CASE IsNamed(id) BY <2>1, <2>2, <1>3 DEF OutAgrees
  <2>3. CASE ~IsNamed(id) BY <2>1, <2>3, <1>2 DEF Answer
  <2>4. QED BY <2>2, <2>3
<1>7. CASE OutputPort BY <1>4, <1>7 DEF OutAgrees
<1>8. CASE Receive \/ PacketOutData \/ OutputController \/ Clone \/ Destroy \/ Tick
           \/ \E t \in timers : Expire(t)
  BY <1>2, <1>8 DEF Receive, PacketOutData, OutputController, Clone, Destroy, Tick, Expire
<1>9. QED BY <1>5, <1>6, <1>7, <1>8 DEF Next

LEMMA InductiveHolds == Spec => [](IInv /\ OutAgrees)
<1>1. Init => OutAgrees BY DEF Init, OutAgrees, Quiet
<1>2. QED BY <1>1, InitHolds, NextHolds, OutHolds, PTL DEF Spec

-----------------------------------------------------------------------------
\* After every sequence of receptions, outputs, copies, answers and expiries the
\* slots of dp_buffers.c point to live packets that name them, no packet is lost,
\* m_pipePkt knows the copies being worked on and no assertion about it fails, and
\* the device keeps the ns-3 packets of buffered packets only, each with a pending
\* call of BufferPacketDelete.
THEOREM BooksAgreeHolds == Spec => []BooksAgree
<1>1. IInv => BooksAgree BY DEF IInv
<1>2. QED BY <1>1, InductiveHolds, PTL

\* dp_buffers_retrieve takes the packet that every message with its buffer id, as
\* long as its cookie was not used again, was about.
THEOREM AnswerHolds == Spec => AnswerGetsItsPacket
<1>1. IInv /\ OutAgrees /\ [Next]_vars =>
        [\A g \in out'.got : \A t \in ToSet(told[g.id[1]]) : t.cookie = g.id[2] => t.uid = g.uid]_vars
  BY OutHolds
<1>2. QED BY <1>1, InductiveHolds, PTL DEF Spec, AnswerGetsItsPacket

\* SendToSwitchPort sends the ns-3 packet that its library packet came from.
THEOREM SendsOwnHolds == Spec => SendsOwnPacket
<1>1. IInv /\ OutAgrees /\ [Next]_vars => [\A s \in out'.sent : s.packet = packets[s.uid].origin]_vars
  BY OutHolds
<1>2. QED BY <1>1, InductiveHolds, PTL DEF Spec, SendsOwnPacket
==============================================================================
