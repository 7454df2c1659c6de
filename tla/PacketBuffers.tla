--------------------------- MODULE PacketBuffers ---------------------------
(***************************************************************************)
(* The life of a packet inside the ns-3 device: dp_buffers.c and packet.c  *)
(* of the library beside the bookkeeping of ofswitch13-device.cc, which    *)
(* must keep the ns-3 packet that each library packet stands for.          *)
(*                                                                         *)
(* The library keeps packets in a ring of slots until a controller names   *)
(* one by its buffer id.  The device keeps the ns-3 packet that is in the  *)
(* pipeline, with the ids of the library packets that are copies of it,    *)
(* and a map of the ns-3 packets whose library packet is in a slot.        *)
(*                                                                         *)
(* What flow entries, groups and packet-outs do to a packet is any         *)
(* sequence of outputs to a port, outputs to controllers and copies that   *)
(* are worked on first, with its destruction at the end.  A buffer id      *)
(* (idx | cookie << 8) is the pair of a slot and a cookie.  The build is   *)
(* one with assertions: one that fails ends the simulation.  Those that    *)
(* never fail are not in the actions, they are the invariants.             *)
(***************************************************************************)
EXTENDS Integers, Sequences, FiniteSets, SequencesExt

CONSTANTS
  NumSlots,       \* N_PKT_BUFFERS
  NumCookies,     \* 2^PKT_COOKIE_BITS, the largest of which is never used
  OverwriteSecs,  \* OVERWRITE_SECS
  TicksPerSec,    \* resolution of the simulated time; time_now() is in seconds
  MaxUid,         \* bound of the packet ids handed out
  MaxCopies,      \* bound of the copies nested in one another
  MaxNow          \* bound of the clock

ASSUME SlotsAssumption == NumSlots \in Nat \ {0} /\ NumCookies \in Nat \ {0, 1}
ASSUME TimeAssumption == OverwriteSecs \in Nat \ {0} /\ TicksPerSec \in Nat \ {0} /\ MaxNow \in Nat
ASSUME UidsAssumption == MaxUid \in Nat /\ MaxCopies \in Nat

VARIABLES
  now,         \* Simulator::Now ()
  slots,       \* dp_buffers.buffers
  buffer_idx,  \* dp_buffers.buffer_idx
  packets,     \* live struct packets, by ns3_uid
  working,     \* packets being worked on, the innermost copy first
  pipe,        \* m_pipePkt
  kept,        \* m_bufferPkts
  timers,      \* scheduled calls of BufferPacketDelete
  last_uid,    \* m_globalPktId
  told,        \* cookies that controllers were told of, and of which packet
  out,         \* what the last step sent to a port or took from a buffer
  aborted      \* the assertion that failed

ring == <<slots, buffer_idx>>
device == <<pipe, kept, timers>>
vars == <<now, ring, packets, working, device, last_uid, told, out, aborted>>

NoUid == -1
NoBuffer == <<>>
Slots == 0..(NumSlots - 1)
BufferIds == Slots \X (0..(NumCookies - 2))
Uids == 0..MaxUid

\* A packet made from the data of a packet-out has uid 0.
Slot == [pkt : Uids \cup {NoUid}, cookie : -1..(NumCookies - 2), timeout : Nat]
Packet == [buffer_id : BufferIds \cup {NoBuffer}, origin : Uids]
Pipe == [valid : BOOLEAN, ids : SUBSET Uids, packet : Uids \cup {NoUid}]

NoPipe == [valid |-> FALSE, ids |-> {}, packet |-> NoUid]
Quiet == [sent |-> {}, got |-> {}]

Idle == working = <<>> /\ aborted = "no"
Busy == working # <<>> /\ aborted = "no"
Top == Head(working)

TimeNow == now \div TicksPerSec

Except(f, S) == [x \in DOMAIN f \ S |-> f[x]]

Abort(assertion) ==
  /\ aborted' = assertion
  /\ UNCHANGED <<now, ring, packets, working, device, last_uid, told, out>>

-----------------------------------------------------------------------------
(* The record of the packet in the pipeline: OFSwitch13Device::PipelinePacket *)

SetPacket(uid, packet) == [valid |-> TRUE, ids |-> pipe.ids \cup {uid}, packet |-> packet]

\* Mutant: the record stays valid when its last copy is gone.
DelCopyValid(p, uid) == [p EXCEPT !.ids = @ \ {uid}]

DelCopy(p, uid) == IF p.ids \subseteq {uid} THEN NoPipe ELSE [p EXCEPT !.ids = @ \ {uid}]

-----------------------------------------------------------------------------
(* Saving a packet: SendPacketInMessage, dp_buffers_save, BufferPacketSave    *)

IsAlive(id) == slots[id[1]].cookie = id[2] /\ TimeNow < slots[id[1]].timeout

NextSlot == (buffer_idx + 1) % NumSlots

\* UINT32_MAX, the cookie of a slot never used, is -1 and goes over to 0.
NextCookie(cookie) == IF cookie + 1 >= NumCookies - 1 THEN 0 ELSE cookie + 1

IsSaved(uid) == packets[uid].buffer_id # NoBuffer /\ IsAlive(packets[uid].buffer_id)

IsRefused(s) == slots[s].pkt # NoUid /\ TimeNow < slots[s].timeout

\* The packet a slot loses: packet_destroy frees it and NotifyPacketDestroyed
\* makes the device forget it.
Overwritten(s) == {slots[s].pkt} \ {NoUid}

KeptAfterSave(uid, old) ==
  [u \in (DOMAIN kept \ old) \cup {uid} |-> IF u = uid THEN pipe.packet ELSE kept[u]]

\* Mutant: the call is scheduled for the packet that the slot loses.
TimersAfterSaveOld(uid) ==
  timers \cup {[uid |-> old, due |-> now + 2 * OverwriteSecs * TicksPerSec] : old \in Overwritten(NextSlot)}

TimersAfterSave(uid) == timers \cup {[uid |-> uid, due |-> now + 2 * OverwriteSecs * TicksPerSec]}

\* The ids that controllers were told of for one slot, until it has the same
\* cookie again.
ToldAfterSave(s, uid, cookie) ==
  LET all == Append(told[s], [uid |-> uid, cookie |-> cookie])
  IN  [told EXCEPT ![s] = IF Len(all) < NumCookies THEN all ELSE Tail(all)]

SaveInto(s) ==
  LET id == <<s, NextCookie(slots[s].cookie)>>
      old == Overwritten(s)
  IN  /\ slots' = [slots EXCEPT ![s] = [pkt |-> Top, cookie |-> id[2],
                                        timeout |-> TimeNow + OverwriteSecs]]
      /\ packets' = [Except(packets, old) EXCEPT ![Top].buffer_id = id]
      /\ pipe' = DelCopy(pipe, Top)
      /\ kept' = KeptAfterSave(Top, old)
      /\ timers' = TimersAfterSave(Top)
      /\ told' = ToldAfterSave(s, Top, id[2])

\* An output to controllers.  The message is sent whether the packet was saved
\* or not, and the work on the packet goes on.
OutputController ==
  /\ Busy
  /\ \/ /\ IsSaved(Top)
        /\ UNCHANGED <<ring, packets, device, told, aborted>>
     \/ /\ ~IsSaved(Top) /\ IsRefused(NextSlot)
        /\ buffer_idx' = NextSlot
        /\ UNCHANGED <<slots, packets, device, told, aborted>>
     \/ /\ ~IsSaved(Top) /\ ~IsRefused(NextSlot)
        /\ pipe.valid /\ pipe.ids = {Top}
        /\ buffer_idx' = NextSlot
        /\ SaveInto(NextSlot)
        /\ UNCHANGED aborted
  /\ out' = Quiet
  /\ UNCHANGED <<now, working, last_uid>>

\* BufferPacketSave asserts that the device knows the packet and, once it is
\* taken out of the pipeline, that no copy of it is left there.
OutputControllerAborts ==
  /\ Busy
  /\ ~IsSaved(Top) /\ ~IsRefused(NextSlot)
  /\ \/ /\ ~pipe.valid
        /\ Abort("Invalid packet metadata.")
     \/ /\ pipe.valid /\ pipe.ids # {Top}
        /\ Abort("Packet copy still in pipeline.")

-----------------------------------------------------------------------------
(* Taking a packet out of its slot: dp_buffers_retrieve, BufferPacketRetrieve *)

\* Mutant: the cookie of the buffer id is not compared.
IsNamedAnyCookie(id) == slots[id[1]].pkt # NoUid

IsNamed(id) == slots[id[1]].cookie = id[2] /\ slots[id[1]].pkt # NoUid

\* A packet-out or a flow-mod that names a buffer: its packet is worked on, even
\* when its time is over.  The device may have dropped the ns-3 packet by then.
Answer(id) ==
  /\ Idle
  /\ \/ /\ IsNamed(id)
        /\ LET uid == slots[id[1]].pkt IN
             /\ slots' = [slots EXCEPT ![id[1]].pkt = NoUid]
             /\ packets' = [packets EXCEPT ![uid].buffer_id = NoBuffer]
             /\ working' = <<uid>>
             /\ pipe' = IF uid \in DOMAIN kept THEN SetPacket(uid, kept[uid]) ELSE pipe
             /\ kept' = Except(kept, {uid})
             /\ out' = [Quiet EXCEPT !.got = {[uid |-> uid, id |-> id]}]
     \/ /\ ~IsNamed(id)
        /\ out' = Quiet
        /\ UNCHANGED <<slots, packets, working, pipe, kept>>
  /\ UNCHANGED <<now, buffer_idx, timers, last_uid, told, aborted>>

-----------------------------------------------------------------------------
(* Packets that arrive, are copied, sent to ports and destroyed              *)

\* SendToPipeline: a packet of a port gets a new id.
Receive ==
  /\ Idle
  /\ last_uid < MaxUid
  /\ last_uid' = last_uid + 1
  /\ packets' = [u \in DOMAIN packets \cup {last_uid'} |->
                   IF u = last_uid' THEN [buffer_id |-> NoBuffer, origin |-> u] ELSE packets[u]]
  /\ pipe' = SetPacket(last_uid', last_uid')
  /\ working' = <<last_uid'>>
  /\ out' = Quiet
  /\ UNCHANGED <<now, ring, kept, timers, told, aborted>>

\* A packet-out that brings its own data: no ns-3 packet stands behind it.
PacketOutData ==
  /\ Idle
  /\ packets' = [u \in DOMAIN packets \cup {0} |->
                   IF u = 0 THEN [buffer_id |-> NoBuffer, origin |-> 0] ELSE packets[u]]
  /\ working' = <<0>>
  /\ out' = Quiet
  /\ UNCHANGED <<now, ring, device, last_uid, told, aborted>>

\* packet_clone, for a bucket or OFPP_TABLE: the copy is worked on first.
Clone ==
  /\ Busy
  /\ Len(working) <= MaxCopies /\ last_uid < MaxUid
  /\ pipe.valid
  /\ last_uid' = last_uid + 1
  /\ packets' = [u \in DOMAIN packets \cup {last_uid'} |->
                   IF u = last_uid' THEN [buffer_id |-> NoBuffer, origin |-> packets[Top].origin]
                   ELSE packets[u]]
  /\ pipe' = [pipe EXCEPT !.ids = @ \cup {last_uid'}]
  /\ working' = <<last_uid'>> \o working
  /\ out' = Quiet
  /\ UNCHANGED <<now, ring, kept, timers, told, aborted>>

\* PipelinePacket::NewCopy asserts that a packet is in the pipeline.
CloneAborts ==
  /\ Busy
  /\ ~pipe.valid
  /\ Abort("Invalid packet metadata.")

\* SendToSwitchPort: the ns-3 packet in the pipeline is sent, or a new one made
\* from the data of a packet-out; nothing if the ns-3 packet is gone.
OutputPort ==
  /\ Busy
  /\ out' = [Quiet EXCEPT !.sent =
               IF pipe.valid THEN {[uid |-> Top, packet |-> pipe.packet]}
               ELSE IF Top = 0 THEN {[uid |-> Top, packet |-> 0]} ELSE {}]
  /\ UNCHANGED <<now, ring, packets, working, device, last_uid, told, aborted>>

IsSpared(uid) == IsSaved(uid)

\* packet_destroy, at the end of the work on a packet; a packet that is saved
\* lives on.  No time passes during the work, so a saved packet is alive here and
\* the call of dp_buffers_discard is never reached.  NotifyPacketDestroyed takes
\* the packet out of the device's books.
Destroy ==
  /\ Busy
  /\ IF IsSpared(Top) THEN UNCHANGED <<packets, pipe, kept>>
     ELSE /\ packets' = Except(packets, {Top})
          /\ pipe' = IF Top \in pipe.ids THEN DelCopy(pipe, Top) ELSE pipe
          /\ kept' = IF Top \in pipe.ids THEN kept ELSE Except(kept, {Top})
  /\ working' = Tail(working)
  /\ out' = Quiet
  /\ UNCHANGED <<now, ring, timers, last_uid, told, aborted>>

\* BufferPacketDelete, two seconds after a save.
Expire(t) ==
  /\ Idle
  /\ t.due = now
  /\ timers' = timers \ {t}
  /\ kept' = Except(kept, {t.uid})
  /\ out' = Quiet
  /\ UNCHANGED <<now, ring, packets, working, pipe, last_uid, told, aborted>>

Tick ==
  /\ Idle
  /\ now < MaxNow
  /\ \A t \in timers : t.due > now
  /\ now' = now + 1
  /\ out' = Quiet
  /\ UNCHANGED <<ring, packets, working, device, last_uid, told, aborted>>

-----------------------------------------------------------------------------
Init ==
  /\ now = 0
  /\ slots = [s \in Slots |-> [pkt |-> NoUid, cookie |-> -1, timeout |-> 0]]
  /\ buffer_idx = NumSlots - 1
  /\ packets = <<>>
  /\ working = <<>>
  /\ pipe = NoPipe /\ kept = <<>> /\ timers = {}
  /\ last_uid = 0
  /\ told = [s \in Slots |-> <<>>]
  /\ out = Quiet
  /\ aborted = "no"

Next ==
  \/ Receive \/ PacketOutData \/ \E id \in BufferIds : Answer(id)
  \/ OutputController \/ OutputControllerAborts \/ Clone \/ CloneAborts \/ OutputPort \/ Destroy
  \/ \E t \in timers : Expire(t)
  \/ Tick

Spec == Init /\ [][Next]_vars

-----------------------------------------------------------------------------
(* Properties *)

\* Every variable has its type.
TypeOK ==
  /\ now \in Nat
  /\ slots \in [Slots -> Slot] /\ buffer_idx \in Slots
  /\ DOMAIN packets \subseteq Uids /\ packets \in [DOMAIN packets -> Packet]
  /\ working \in Seq(Uids)
  /\ pipe \in Pipe
  /\ DOMAIN kept \subseteq Uids /\ kept \in [DOMAIN kept -> Uids]
  /\ timers \subseteq [uid : Uids, due : Nat]
  /\ last_uid \in Uids
  /\ told \in [Slots -> Seq([uid : Uids, cookie : Nat])]

\* Slots and packets agree: a slot holds a live packet that names the slot and
\* its cookie, and a packet that names a slot is in it.  So packet_destroy spares
\* what is saved and nothing else, and no slot points to freed memory.
SlotsAgree ==
  /\ \A s \in Slots : slots[s].pkt # NoUid =>
       /\ slots[s].pkt \in DOMAIN packets
       /\ packets[slots[s].pkt].buffer_id = <<s, slots[s].cookie>>
  /\ \A u \in DOMAIN packets : packets[u].buffer_id # NoBuffer =>
       slots[packets[u].buffer_id[1]].pkt = u

\* No packet is lost: each one that lives is being worked on or is in a slot.
NoPacketIsLost ==
  \A u \in DOMAIN packets : u \in ToSet(working) \/ \E s \in Slots : slots[s].pkt = u

\* "Another packet in pipeline" never fails (SendToPipeline,
\* BufferPacketRetrieve), nor does "Invalid packet ID" of SendToSwitchPort:
\* m_pipePkt is valid only while a packet is worked on and knows all its copies.
PipelineAgrees == /\ pipe.valid => pipe.ids = ToSet(working) /\ working # <<>>
                  /\ ~pipe.valid => pipe = NoPipe

\* The device keeps no packet that the library has given up: its map does not
\* grow beyond the ring, and the answer to a buffer id finds what it keeps.
KeptIsBuffered == \A u \in DOMAIN kept : \E s \in Slots : slots[s].pkt = u

\* A packet that the device keeps will be dropped: a call of BufferPacketDelete
\* for it is pending, however often it was saved and taken out again.
KeptHasTimer == \A u \in DOMAIN kept : \E t \in timers : t.uid = u /\ t.due >= now

\* The library's books and the device's are right together.
BooksAgree == TypeOK /\ SlotsAgree /\ NoPacketIsLost /\ PipelineAgrees /\ KeptIsBuffered /\ KeptHasTimer

\* "The cookie distinguishes between different packets that have occupied a
\* single buffer" (dp_buffers.c): the answer to a message about a packet gets that
\* packet or none.
AnswerGetsItsPacket ==
  [][\A g \in out'.got : \A t \in ToSet(told[g.id[1]]) : t.cookie = g.id[2] => t.uid = g.uid]_vars

\* What leaves by a port is the packet that the library sends there.
SendsOwnPacket ==
  [][\A s \in out'.sent : s.packet = packets[s.uid].origin]_vars

=============================================================================
