------------------------- MODULE LearningController -------------------------
(***************************************************************************)
(* The controller of model/ofswitch13-learning-controller.cc with switches *)
(* that form a tree.  Its L2 table of a switch is a copy of the flows that *)
(* the switch holds, kept up to date by messages that are under way while  *)
(* packets arrive, flows idle out and full tables evict.                   *)
(*                                                                         *)
(* A port is what it leads to, a host or a switch; a host is its address.  *)
(* A flow table is the set of its flows, one destination and one port      *)
(* each, beside the table-miss entry, which is there from the start: the   *)
(* handshake is over (DijkstraController has it).  When a flow idles out   *)
(* and which flow is evicted is open; FlowTable has the timeouts and the   *)
(* policies.  Priorities only tell flows of one destination apart, and     *)
(* OneAccount shows that there is never more than one.                     *)
(***************************************************************************)
EXTENDS Naturals, FiniteSets, Sequences, SequencesExt

CONSTANTS
  Switches,
  Hosts,
  Links,          \* pairs of neighbouring switches, a tree
  Attached,       \* the switch of each host at the start
  Packets,        \* numbers; they are sent in their order
  Src, Dst,       \* hosts of a packet; Everyone is the broadcast address
  Everyone,
  Room,           \* flows a table has room for, beside the table-miss entry
  MaxMoves        \* how often hosts may move

Neighbours(s) == {t \in Switches : <<s, t>> \in Links \/ <<t, s>> \in Links}

\* toward names, for each two switches, the neighbour of the first through which
\* one gets to the second: each link leads there from one of its two ends.
Leads(toward) ==
  \A a \in Switches : \A s \in Switches :
    /\ s # a => toward[<<s, a>>] \in Neighbours(s)
    /\ \A t \in Neighbours(s) :
         (s # a /\ toward[<<s, a>>] = t) <=> ~(t # a /\ toward[<<t, a>>] = s)

\* The links form a tree just when they lead everywhere in this way.
IsTree == \E toward \in [Switches \X Switches -> Switches] : Leads(toward)

ASSUME NetworkAssumption ==
  /\ Links \subseteq Switches \X Switches /\ IsTree
  /\ Hosts \cap Switches = {}
  /\ Attached \in [Hosts -> Switches]
  /\ Src \in [Packets -> Hosts] /\ Dst \in [Packets -> Hosts \cup {Everyone}]
  /\ Everyone \notin Hosts
  /\ \A p \in Packets : Src[p] # Dst[p]
  /\ Packets \subseteq Nat /\ Room \in Nat \ {0} /\ MaxMoves \in Nat

VARIABLES
  m_learnedInfo,  \* by switch, the L2 table: the port of each known host
  flows,          \* by switch, the flows [dst, port] it holds
  up,             \* by switch, messages to the controller, in order
  down,           \* by switch, messages to the switch, in order
  frames,         \* frames on links: [packet, switch, in_port]
  got,            \* by packet, the hosts that received it
  sent,           \* packets that were sent
  at,             \* the switch each host is attached to
  moves,          \* moves so far
  aborted         \* an assertion of the controller failed

vars == <<m_learnedInfo, flows, up, down, frames, got, sent, at, moves, aborted>>

HostsAt(s) == {h \in Hosts : at[h] = s}
Ports(s) == Neighbours(s) \cup HostsAt(s)

FLOOD == "FLOOD"
Known(s) == DOMAIN m_learnedInfo[s]

FlowMod(h, port) == [type |-> "FLOW_MOD", dst |-> h, port |-> port]
FlowRemoved(f) == [type |-> "FLOW_REMOVED", dst |-> f.dst, port |-> f.port]
PacketIn(f) == [type |-> "PACKET_IN", frame |-> f]
PacketOut(f, port) == [type |-> "PACKET_OUT", frame |-> f, port |-> port]

-----------------------------------------------------------------------------
(* The controller *)

\* Mutant: the source address is looked up.
OutPortOfSource(s, p) == IF Src[p] \in Known(s) THEN m_learnedInfo[s][Src[p]] ELSE FLOOD

OutPort(s, p) == IF Dst[p] \in Known(s) THEN m_learnedInfo[s][Dst[p]] ELSE FLOOD

\* Mutant: the port is learned for the destination.
LearnedForDst(s, f) ==
  [h \in Known(s) \cup {Dst[f.packet]} |->
     IF h \in Known(s) THEN m_learnedInfo[s][h] ELSE f.in_port]

\* The L2 table once the source of frame f is in it.
Learned(s, f) ==
  [h \in Known(s) \cup {Src[f.packet]} |->
     IF h \in Known(s) THEN m_learnedInfo[s][h] ELSE f.in_port]

\* The flow-mod for a source that was not known.
FlowForSource(s, f) ==
  IF Src[f.packet] \in Known(s) THEN <<>> ELSE <<FlowMod(Src[f.packet], f.in_port)>>

HandlePacketIn(s) ==
  /\ up[s] # <<>> /\ Head(up[s]).type = "PACKET_IN"
  /\ up' = [up EXCEPT ![s] = Tail(@)]
  /\ LET f == Head(up[s]).frame
         h == Src[f.packet]
     IN  \/ /\ h \in Known(s) /\ m_learnedInfo[s][h] # f.in_port
            /\ aborted' = TRUE
            /\ UNCHANGED <<m_learnedInfo, down>>
         \/ /\ h \in Known(s) => m_learnedInfo[s][h] = f.in_port
            /\ m_learnedInfo' = [m_learnedInfo EXCEPT ![s] = Learned(s, f)]
            /\ down' = [down EXCEPT ![s] =
                          @ \o FlowForSource(s, f) \o <<PacketOut(f, OutPort(s, f.packet))>>]
            /\ UNCHANGED aborted
  /\ UNCHANGED <<flows, frames, got, sent, at, moves>>

Forget(s, h) == [k \in Known(s) \ {h} |-> m_learnedInfo[s][k]]

HandleFlowRemoved(s) ==
  /\ up[s] # <<>> /\ Head(up[s]).type = "FLOW_REMOVED"
  /\ up' = [up EXCEPT ![s] = Tail(@)]
  /\ m_learnedInfo' = [m_learnedInfo EXCEPT ![s] = Forget(s, Head(up[s]).dst)]
  /\ UNCHANGED <<flows, down, frames, got, sent, at, moves, aborted>>

-----------------------------------------------------------------------------
(* The switches and the hosts *)

\* What frame f turns into when switch s sends it out of ports: frames at the
\* neighbours, packets at the hosts.
Forward(s, f, ports) ==
  /\ frames' = (frames \ {f}) \cup
               {[packet |-> f.packet, switch |-> t, in_port |-> s] : t \in ports \cap Switches}
  /\ got' = [got EXCEPT ![f.packet] = @ \cup (ports \cap HostsAt(s))]

\* dp_actions_output_port: never back to where it came from.
OutPorts(s, f, port) == (IF port = FLOOD THEN Ports(s) ELSE {port}) \ {f.in_port}

\* The first table of switch s takes frame f.
Match(s, f) ==
  \/ \E flow \in flows[s] :
       /\ flow.dst = Dst[f.packet]
       /\ Forward(s, f, OutPorts(s, f, flow.port))
       /\ UNCHANGED up
  \/ /\ \A flow \in flows[s] : flow.dst # Dst[f.packet]
     /\ up' = [up EXCEPT ![s] = Append(@, PacketIn(f))]
     /\ frames' = frames \ {f}
     /\ UNCHANGED got

Arrive(f) ==
  /\ f \in frames
  /\ Match(f.switch, f)
  /\ UNCHANGED <<m_learnedInfo, flows, down, sent, at, moves, aborted>>

Send(p) ==
  /\ p \notin sent /\ \A q \in Packets : q < p => q \in sent
  /\ sent' = sent \cup {p}
  /\ Match(at[Src[p]], [packet |-> p, switch |-> at[Src[p]], in_port |-> Src[p]])
  /\ UNCHANGED <<m_learnedInfo, flows, down, at, moves, aborted>>

\* Mutant: an evicted flow leaves without a message.
RemovedSilently(s, R) == up[s]

\* The flows R leave the table, one FLOW_REMOVED each.
Removed(s, R) == up[s] \o SetToSeq({FlowRemoved(f) : f \in R})

Evictions(s) == IF Cardinality(flows[s]) = Room THEN {{f} : f \in flows[s]} ELSE {{}}

Receive(s) ==
  /\ down[s] # <<>>
  /\ down' = [down EXCEPT ![s] = Tail(@)]
  /\ LET msg == Head(down[s]) IN
       \/ /\ msg.type = "FLOW_MOD"
          /\ \E R \in Evictions(s) :
               /\ flows' = [flows EXCEPT ![s] = (@ \ R) \cup {[dst |-> msg.dst, port |-> msg.port]}]
               /\ up' = [up EXCEPT ![s] = Removed(s, R)]
          /\ UNCHANGED <<frames, got>>
       \/ /\ msg.type = "PACKET_OUT"
          /\ Forward(s, msg.frame, OutPorts(s, msg.frame, msg.port))
          /\ UNCHANGED <<flows, up>>
  /\ UNCHANGED <<m_learnedInfo, sent, at, moves, aborted>>

IdleOut(s, f) ==
  /\ f \in flows[s]
  /\ flows' = [flows EXCEPT ![s] = @ \ {f}]
  /\ up' = [up EXCEPT ![s] = Append(@, FlowRemoved(f))]
  /\ UNCHANGED <<m_learnedInfo, down, frames, got, sent, at, moves, aborted>>

Move(h, s) ==
  /\ moves < MaxMoves
  /\ at[h] # s
  /\ at' = [at EXCEPT ![h] = s]
  /\ moves' = moves + 1
  /\ UNCHANGED <<m_learnedInfo, flows, up, down, frames, got, sent, aborted>>

-----------------------------------------------------------------------------
Init ==
  /\ m_learnedInfo = [s \in Switches |-> <<>>]
  /\ flows = [s \in Switches |-> {}]
  /\ up = [s \in Switches |-> <<>>]
  /\ down = [s \in Switches |-> <<>>]
  /\ frames = {}
  /\ got = [p \in Packets |-> {}]
  /\ sent = {}
  /\ at = Attached
  /\ moves = 0
  /\ aborted = FALSE

\* What the simulator has scheduled: messages and frames on their way arrive.
Event ==
  /\ ~aborted
  /\ \/ \E s \in Switches : HandlePacketIn(s) \/ HandleFlowRemoved(s) \/ Receive(s)
     \/ \E f \in frames : Arrive(f)

Next ==
  \/ Event
  \/ /\ ~aborted
     /\ \/ \E p \in Packets : Send(p)
        \/ \E s \in Switches : \/ \E f \in flows[s] : IdleOut(s, f)
                               \/ \E h \in Hosts : Move(h, s)

Spec == Init /\ [][Next]_vars

\* The simulator goes on while an event is scheduled; no order of them is assumed.
FairSpec == Spec /\ WF_vars(Event)

-----------------------------------------------------------------------------
(* Properties *)

InDown(s, h) == {k \in DOMAIN down[s] : down[s][k].type = "FLOW_MOD" /\ down[s][k].dst = h}
InUp(s, h) == {k \in DOMAIN up[s] : up[s][k].type = "FLOW_REMOVED" /\ up[s][k].dst = h}
FlowsTo(s, h) == {f \in flows[s] : f.dst = h}

\* For each host the L2 table knows at a switch there is one thing, and for the
\* others nothing: the flow in the switch, or the flow-mod on its way to it, or
\* the FLOW_REMOVED on its way back, with the same port.  So the controller
\* neither installs a flow twice nor waits for one that is gone.
OneAccount ==
  aborted \/ \A s \in Switches : \A h \in Hosts :
    /\ Cardinality(FlowsTo(s, h)) + Cardinality(InDown(s, h)) + Cardinality(InUp(s, h))
         = IF h \in Known(s) THEN 1 ELSE 0
    /\ \A port \in {f.port : f \in FlowsTo(s, h)}
                   \cup {down[s][k].port : k \in InDown(s, h)}
                   \cup {up[s][k].port : k \in InUp(s, h)} : port = m_learnedInfo[s][h]

\* While no host moves, what was learned leads to the host, along the tree, at
\* every switch, and the assertion of HandlePacketIn holds.
LearnedIsRight ==
  moves = 0 => /\ ~aborted
               /\ \A s \in Switches : \A h \in Known(s) :
                    /\ h \in Hosts /\ m_learnedInfo[s][h] \in Ports(s)
                    /\ at[h] = s => m_learnedInfo[s][h] = h
                    /\ m_learnedInfo[s][h] \in Hosts => m_learnedInfo[s][h] = h

Receivers(p) == IF Dst[p] = Everyone THEN Hosts \ {Src[p]} ELSE {Dst[p]}

\* A packet that was sent reaches the host it is for, all of them if it is a
\* broadcast, whatever flows come and go on its way, as long as no host moves.
PacketsArrive ==
  \A p \in Packets : p \in sent ~> (moves > 0 \/ Receivers(p) \subseteq got[p])

=============================================================================
