-------------------------- MODULE ControllerProofs --------------------------
(***************************************************************************)
(* Proofs about the two controllers.  The learning controller, for every   *)
(* tree of switches, every placing of hosts and every number of packets:   *)
(*                                                                         *)
(*   TypesHold            every variable keeps its type                    *)
(*   OneAccountHolds      LearningController!OneAccount                    *)
(*   LearnedIsRightHolds  LearningController!LearnedIsRight                *)
(*                                                                         *)
(* OneAccount is inductive, once it is asked of every state: a host that   *)
(* the L2 table of a switch knows is in one place, and each message only   *)
(* takes it from one place to the next (Accounts).                         *)
(*                                                                         *)
(* LearnedIsRight needs what frames and packet messages carry: wherever a  *)
(* frame is, it came in by the port that leads back to its source          *)
(* (WaysRight).  A switch sends it to its other neighbours only, and in a  *)
(* tree the way back from them is through that switch (WayBack).  That     *)
(* flows lead to ports that exist is what the accounts say of them.        *)
(*                                                                         *)
(* The Dijkstra controller, for every topology, whatever ties minDistance  *)
(* breaks:                                                                 *)
(*                                                                         *)
(*   RoutesAreShortestHolds  ShortestRoutes!RoutesAreShortest              *)
(*                                                                         *)
(* The invariant of a search (Reached, Settled) says that the switches     *)
(* with a final distance are the nearest ones and that the links from them *)
(* were looked at: hence no way is shorter than the distance that was      *)
(* found (NoneShorter), by induction along the way.  What is read back     *)
(* (Traced) is a way of just that distance (RouteFound), on which no       *)
(* switch comes twice since the distances grow.                            *)
(***************************************************************************)
EXTENDS LearningController, ShortestRoutes, ListLemmas, FiniteSetTheorems, TLAPS

-----------------------------------------------------------------------------
(* The messages about a host in a queue of messages *)

Named(q, type, h) == {k \in DOMAIN q : q[k].type = type /\ q[k].dst = h}

PortsNamed(q, type, h) == {q[k].port : k \in Named(q, type, h)}

IsNamed(m, type, h) == m.type = type /\ m.dst = h

\* There are finitely many of them.
LEMMA NamedFinite ==
  ASSUME NEW S, NEW q \in Seq(S), NEW type, NEW h
  PROVE  IsFiniteSet(Named(q, type, h)) /\ Cardinality(Named(q, type, h)) \in Nat
<1>1. IsFiniteSet(1..Len(q)) BY FS_Interval
<1>2. Named(q, type, h) \in SUBSET (1..Len(q)) BY DEF Named
<1>3. QED BY <1>1, <1>2, FS_Subset, FS_CardinalityType

\* A message that comes last is one more if it is about the host.
LEMMA NamedAppend ==
  ASSUME NEW S, NEW q \in Seq(S), NEW m, NEW type, NEW h
  PROVE  /\ Cardinality(Named(Append(q, m), type, h)) =
              Cardinality(Named(q, type, h)) + (IF IsNamed(m, type, h) THEN 1 ELSE 0)
         /\ PortsNamed(Append(q, m), type, h) \subseteq
              PortsNamed(q, type, h) \cup (IF IsNamed(m, type, h) THEN {m.port} ELSE {})
<1> DEFINE old == Named(q, type, h)
           new == Named(Append(q, m), type, h)
           n == Len(q)
<1>1. /\ DOMAIN q = 1..n /\ DOMAIN Append(q, m) = 1..(n + 1) /\ n \in Nat
      /\ Append(q, m)[n + 1] = m /\ \A k \in 1..n : Append(q, m)[k] = q[k]
  OBVIOUS
<1>2. \A k \in 1..(n + 1) : k \in 1..n \/ k = n + 1 BY <1>1
<1>3. IsFiniteSet(old) /\ Cardinality(old) \in Nat BY NamedFinite
<1>4. n + 1 \notin old BY <1>1 DEF Named
<1>5. CASE IsNamed(m, type, h)
  <2>1. \A k : k \in new <=> k \in old \/ k = n + 1
    BY <1>1, <1>2, <1>5 DEF Named, IsNamed
  <2>2. new = old \cup {n + 1} BY <2>1
  <2>3. Cardinality(new) = Cardinality(old) + 1 BY <1>3, <1>4, <2>2, FS_AddElement
  <2>4. \A k \in new : Append(q, m)[k].port \in {q[j].port : j \in old} \cup {m.port}
    BY <1>1, <2>1 DEF Named
  <2>5. QED BY <1>5, <2>3, <2>4 DEF PortsNamed
<1>6. CASE ~IsNamed(m, type, h)
  <2>1. \A k : k \in new <=> k \in old
    BY <1>1, <1>2, <1>6 DEF Named, IsNamed
  <2>2. new = old BY <2>1
  <2>3. \A k \in new : Append(q, m)[k].port \in {q[j].port : j \in old}
    BY <1>1, <2>1 DEF Named
  <2>4. Cardinality(new) = Cardinality(old) + 0 BY <1>3, <2>2
  <2>5. QED BY <1>6, <2>3, <2>4 DEF PortsNamed
<1>7. QED BY <1>5, <1>6

\* The message that is taken is one less if it is about the host.
LEMMA NamedTail ==
  ASSUME NEW S, NEW q \in Seq(S), q # <<>>, NEW type, NEW h
  PROVE  /\ Cardinality(Named(q, type, h)) =
              Cardinality(Named(Tail(q), type, h)) + (IF IsNamed(Head(q), type, h) THEN 1 ELSE 0)
         /\ PortsNamed(Tail(q), type, h) \subseteq PortsNamed(q, type, h)
         /\ IsNamed(Head(q), type, h) => Head(q).port \in PortsNamed(q, type, h)
<1> DEFINE old == Named(q, type, h)
           new == Named(Tail(q), type, h)
           n == Len(q)
           f == [k \in new |-> k + 1]
<1>1. /\ DOMAIN q = 1..n /\ n \in Nat \ {0} /\ DOMAIN Tail(q) = 1..(n - 1) /\ Tail(q) \in Seq(S)
      /\ Head(q) = q[1] /\ \A k \in 1..(n - 1) : Tail(q)[k] = q[k + 1]
  OBVIOUS
<1>2. new \subseteq 1..(n - 1) /\ old \subseteq 1..n BY <1>1 DEF Named
<1>3. \A k \in 1..(n - 1) : k \in new <=> k + 1 \in old
  <2>1. \A k \in 1..(n - 1) : k + 1 \in 1..n BY <1>1
  <2>2. QED BY <1>1, <2>1 DEF Named
<1>4. IsFiniteSet(new) /\ Cardinality(new) \in Nat BY <1>1, NamedFinite
<1>5. {f[k] : k \in new} = old \ {1}
  <2>1. ASSUME NEW k \in new PROVE f[k] \in old \ {1} BY <1>1, <1>2, <1>3
  <2>2. ASSUME NEW j \in old \ {1} PROVE j \in {f[k] : k \in new}
    <3>1. j - 1 \in 1..(n - 1) /\ j - 1 + 1 = j BY <1>1, <1>2
    <3>2. j - 1 \in new BY <1>3, <3>1
    <3>3. f[j - 1] = j BY <3>1, <3>2
    <3>4. QED BY <3>2, <3>3
  <2>3. QED BY <2>1, <2>2
<1>6. \A i, j \in new : f[i] = f[j] => i = j BY <1>2
<1> HIDE DEF new, old, f
<1>7. IsFiniteSet({f[k] : k \in new}) /\ Cardinality({f[k] : k \in new}) = Cardinality(new)
  BY <1>4, <1>6, SameSize
<1>8. IsFiniteSet(old \ {1}) /\ Cardinality(old \ {1}) = Cardinality(new) BY <1>5, <1>7
<1>9. 1 \in old <=> IsNamed(Head(q), type, h) BY <1>1 DEF old, Named, IsNamed
<1>10. Cardinality(old) = Cardinality(new) + (IF IsNamed(Head(q), type, h) THEN 1 ELSE 0)
  <2>1. CASE 1 \in old
    <3>1. old = (old \ {1}) \cup {1} BY <2>1
    <3>2. Cardinality((old \ {1}) \cup {1}) = Cardinality(old \ {1}) + 1 BY <1>8, FS_AddElement
    <3>3. QED BY <1>4, <1>8, <1>9, <2>1, <3>1, <3>2
  <2>2. CASE 1 \notin old
    <3>1. old = old \ {1} BY <2>2
    <3>2. Cardinality(old) = Cardinality(new) BY <1>8, <3>1
    <3>3. QED BY <1>4, <1>9, <2>2, <3>2
  <2>3. QED BY <2>1, <2>2
<1>11. \A k \in new : Tail(q)[k].port \in {q[j].port : j \in old} BY <1>1, <1>2, <1>3
<1>12. IsNamed(Head(q), type, h) => Head(q).port \in {q[j].port : j \in old} BY <1>1, <1>9
<1>13. QED BY <1>10, <1>11, <1>12 DEF new, old, PortsNamed

\* What SetToSeq makes of no message and of one.
LEMMA FewMessages ==
  ASSUME NEW x
  PROVE  SetToSeq({}) = <<>> /\ SetToSeq({x}) = <<x>>
<1>1. SetToSeq({}) = <<>>
  <2>1. Cardinality({}) = 0 /\ 1..0 = {} BY FS_EmptySet
  <2>2. <<>> \in [1..Cardinality({}) -> {}] /\ IsInjective(<<>>) BY <2>1 DEF IsInjective
  <2>3. \A f \in [1..Cardinality({}) -> {}] : f = <<>> BY <2>1
  <2>4. QED BY <2>2, <2>3 DEF SetToSeq
<1>2. SetToSeq({x}) = <<x>>
  <2>1. Cardinality({x}) = 1 /\ 1..1 = {1} BY FS_Singleton
  <2>2. <<x>> \in [1..Cardinality({x}) -> {x}] /\ IsInjective(<<x>>) BY <2>1 DEF IsInjective
  <2>3. \A f \in [1..Cardinality({x}) -> {x}] : f = <<x>> BY <2>1
  <2>4. QED BY <2>2, <2>3 DEF SetToSeq
<1>3. QED BY <1>1, <1>2

-----------------------------------------------------------------------------
(* The types *)

Place == Switches \cup Hosts
Frame == [packet : Packets, switch : Switches, in_port : Place]
Flow == [dst : Hosts, port : Place]
FlowMessage == [type : {"FLOW_MOD", "FLOW_REMOVED"}, dst : Hosts, port : Place]
PacketMessage == [type : {"PACKET_IN"}, frame : Frame]
                   \cup [type : {"PACKET_OUT"}, frame : Frame, port : Place \cup {FLOOD}]
Message == FlowMessage \cup PacketMessage

Types ==
  /\ DOMAIN m_learnedInfo = Switches
  /\ \A s \in Switches : /\ Known(s) \subseteq Hosts
                         /\ \A h \in Known(s) : m_learnedInfo[s][h] \in Place
  /\ DOMAIN flows = Switches
  /\ \A s \in Switches : flows[s] \in SUBSET Flow /\ IsFiniteSet(flows[s])
  /\ up \in [Switches -> Seq(Message)]
  /\ down \in [Switches -> Seq(Message)]
  /\ frames \in SUBSET Frame
  /\ at \in [Hosts -> Switches]

\* The messages have the fields of their types.
LEMMA MessageFields ==
  ASSUME NEW m \in Message
  PROVE  /\ m.type \in {"PACKET_IN", "PACKET_OUT"} => m.frame \in Frame
         /\ m.type \in {"FLOW_MOD", "FLOW_REMOVED"} => m.dst \in Hosts /\ m.port \in Place
         /\ m.type = "PACKET_OUT" => m.port \in Place \cup {FLOOD}
BY DEF Message, FlowMessage, PacketMessage

LEMMA FrameFields ==
  ASSUME NEW f \in Frame
  PROVE  f.packet \in Packets /\ f.switch \in Switches /\ f.in_port \in Place /\ Src[f.packet] \in Hosts
BY NetworkAssumption DEF Frame

\* What the operators make are messages.
LEMMA MessagesMade ==
  /\ \A h \in Hosts, p \in Place :
       /\ FlowMod(h, p) \in Message /\ FlowMod(h, p).type = "FLOW_MOD"
       /\ FlowMod(h, p).dst = h /\ FlowMod(h, p).port = p
  /\ \A f \in Flow :
       /\ FlowRemoved(f) \in Message /\ FlowRemoved(f).type = "FLOW_REMOVED"
       /\ FlowRemoved(f).dst = f.dst /\ FlowRemoved(f).port = f.port
  /\ \A f \in Frame :
       PacketIn(f) \in Message /\ PacketIn(f).type = "PACKET_IN" /\ PacketIn(f).frame = f
  /\ \A f \in Frame, p \in Place \cup {FLOOD} :
       /\ PacketOut(f, p) \in Message /\ PacketOut(f, p).type = "PACKET_OUT"
       /\ PacketOut(f, p).frame = f /\ PacketOut(f, p).port = p
<1>1. ASSUME NEW h \in Hosts, NEW p \in Place
      PROVE  /\ FlowMod(h, p) \in Message /\ FlowMod(h, p).type = "FLOW_MOD"
             /\ FlowMod(h, p).dst = h /\ FlowMod(h, p).port = p
  BY DEF FlowMod, Message, FlowMessage
<1>2. ASSUME NEW f \in Flow
      PROVE  /\ FlowRemoved(f) \in Message /\ FlowRemoved(f).type = "FLOW_REMOVED"
             /\ FlowRemoved(f).dst = f.dst /\ FlowRemoved(f).port = f.port
  <2>1. f.dst \in Hosts /\ f.port \in Place BY DEF Flow
  <2>2. QED BY <2>1 DEF FlowRemoved, Message, FlowMessage
<1>3. ASSUME NEW f \in Frame
      PROVE  PacketIn(f) \in Message /\ PacketIn(f).type = "PACKET_IN" /\ PacketIn(f).frame = f
  BY DEF PacketIn, Message, PacketMessage
<1>4. ASSUME NEW f \in Frame, NEW p \in Place \cup {FLOOD}
      PROVE  /\ PacketOut(f, p) \in Message /\ PacketOut(f, p).type = "PACKET_OUT"
             /\ PacketOut(f, p).frame = f /\ PacketOut(f, p).port = p
  BY DEF PacketOut, Message, PacketMessage
<1>5. QED BY <1>1, <1>2, <1>3, <1>4

\* What becomes of a frame are frames.
LEMMA ForwardFrames ==
  ASSUME Types, NEW s \in Switches, NEW f \in Frame, NEW ports, Forward(s, f, ports)
  PROVE  frames' \in SUBSET Frame
<1>1. ASSUME NEW t \in Switches PROVE [packet |-> f.packet, switch |-> t, in_port |-> s] \in Frame
  BY FrameFields DEF Frame, Place
<1>2. QED BY <1>1 DEF Forward, Types

\* A frame that a switch takes goes to the controller or on.
LEMMA MatchShape ==
  ASSUME Types, NEW s \in Switches, NEW f \in Frame, Match(s, f)
  PROVE  /\ frames' \in SUBSET Frame
         /\ up' = up \/ up' = [up EXCEPT ![s] = Append(@, PacketIn(f))]
<1>1. CASE \E flow \in flows[s] : Forward(s, f, OutPorts(s, f, flow.port)) /\ UNCHANGED up
  BY <1>1, ForwardFrames
<1>2. CASE frames' = frames \ {f} /\ up' = [up EXCEPT ![s] = Append(@, PacketIn(f))]
  BY <1>2 DEF Types
<1>3. QED BY <1>1, <1>2 DEF Match

\* The frame that a host sends.
LEMMA SentFrame ==
  ASSUME Types, NEW p \in Packets
  PROVE  /\ Src[p] \in Hosts /\ at[Src[p]] \in Switches
         /\ [packet |-> p, switch |-> at[Src[p]], in_port |-> Src[p]] \in Frame
<1>1. Src[p] \in Hosts BY NetworkAssumption
<1>2. at[Src[p]] \in Switches BY <1>1 DEF Types
<1>3. QED BY <1>1, <1>2 DEF Frame, Place

\* The messages of the evicted flows, of which there is one at most.
LEMMA RemovedShape ==
  ASSUME Types, NEW s \in Switches, NEW R \in Evictions(s)
  PROVE  \/ R = {} /\ Removed(s, R) = up[s]
         \/ \E f \in flows[s] : R = {f} /\ Removed(s, R) = Append(up[s], FlowRemoved(f))
<1>1. up[s] \in Seq(Message) BY DEF Types
<1>2. CASE R = {}
  <2>1. {FlowRemoved(f) : f \in R} = {} BY <1>2
  <2>2. Removed(s, R) = up[s] \o <<>> BY <2>1, FewMessages DEF Removed
  <2>3. QED BY <1>1, <1>2, <2>2
<1>3. ASSUME NEW f \in flows[s], R = {f}
      PROVE  Removed(s, R) = Append(up[s], FlowRemoved(f))
  <2>1. {FlowRemoved(x) : x \in R} = {FlowRemoved(f)} BY <1>3
  <2>2. Removed(s, R) = up[s] \o <<FlowRemoved(f)>> BY <2>1, FewMessages DEF Removed
  <2>3. FlowRemoved(f) \in Message BY MessagesMade DEF Types
  <2>4. QED BY <1>1, <2>2, <2>3
<1>4. QED BY <1>2, <1>3 DEF Evictions

\* The message that comes first is of its type.
LEMMA FirstMessage ==
  ASSUME NEW q \in Seq(Message), q # <<>>
  PROVE  Head(q) \in Message /\ Tail(q) \in Seq(Message)
OBVIOUS

\* What the controller answers to a packet-in.
Answered(s, f) == down[s] \o FlowForSource(s, f) \o <<PacketOut(f, OutPort(s, f.packet))>>

LEMMA AnsweredShape ==
  ASSUME Types, NEW s \in Switches, NEW f \in Frame
  PROVE  /\ Answered(s, f) \in Seq(Message)
         /\ PacketOut(f, OutPort(s, f.packet)) \in Message
         /\ Answered(s, f) =
              Append(IF Src[f.packet] \in Known(s) THEN down[s]
                     ELSE Append(down[s], FlowMod(Src[f.packet], f.in_port)),
                     PacketOut(f, OutPort(s, f.packet)))
<1> DEFINE h == Src[f.packet]
           mod == FlowMod(h, f.in_port)
           port == OutPort(s, f.packet)
           packetOut == PacketOut(f, port)
<1>1. down[s] \in Seq(Message) BY DEF Types
<1>2. h \in Hosts /\ f.in_port \in Place BY FrameFields
<1>3. mod \in Message BY <1>2, MessagesMade
<1>4. port \in Place \cup {FLOOD} BY DEF OutPort, Types
<1> HIDE DEF port
<1>5. packetOut \in Message BY <1>4, MessagesMade
<1> HIDE DEF mod, packetOut
<1>6. Answered(s, f) = down[s] \o (IF h \in Known(s) THEN <<>> ELSE <<mod>>) \o <<packetOut>>
  BY DEF Answered, FlowForSource, mod, packetOut, port
<1>7. CASE h \in Known(s)
  <2>1. Answered(s, f) = Append(down[s], packetOut) BY <1>1, <1>5, <1>6, <1>7
  <2>2. QED BY <1>1, <1>5, <1>7, <2>1 DEF packetOut, port
<1>8. CASE h \notin Known(s)
  <2>1. Answered(s, f) = Append(Append(down[s], mod), packetOut) BY <1>1, <1>3, <1>5, <1>6, <1>8
  <2>2. QED BY <1>1, <1>3, <1>5, <1>8, <2>1 DEF mod, packetOut, port
<1>9. QED BY <1>7, <1>8

LEMMA HandlePacketInTypes ==
  ASSUME Types, NEW s \in Switches, HandlePacketIn(s)
  PROVE  Types'
<1> DEFINE f == Head(up[s]).frame
           h == Src[f.packet]
<1>1. up[s] \in Seq(Message) /\ up[s] # <<>> /\ Head(up[s]).type = "PACKET_IN"
  BY DEF Types, HandlePacketIn
<1>2. Head(up[s]) \in Message /\ Tail(up[s]) \in Seq(Message) BY <1>1, FirstMessage
<1>3. f \in Frame BY <1>1, <1>2, MessageFields
<1>4. h \in Hosts /\ f.in_port \in Place BY <1>3, FrameFields
<1>5. /\ up' = [up EXCEPT ![s] = Tail(@)] /\ UNCHANGED <<flows, frames, at>>
      /\ \/ UNCHANGED <<m_learnedInfo, down>>
         \/ /\ m_learnedInfo' = [m_learnedInfo EXCEPT ![s] = Learned(s, f)]
            /\ down' = [down EXCEPT ![s] = Answered(s, f)]
  BY DEF HandlePacketIn, Answered
<1>6. Answered(s, f) \in Seq(Message) BY <1>3, AnsweredShape
<1>7. DOMAIN Learned(s, f) \subseteq Hosts /\ \A k \in DOMAIN Learned(s, f) : Learned(s, f)[k] \in Place
  BY <1>4 DEF Learned, Types
<1> HIDE DEF f
<1>8. up' \in [Switches -> Seq(Message)] BY <1>2, <1>5 DEF Types
<1>9. down' \in [Switches -> Seq(Message)] BY <1>5, <1>6 DEF Types
<1>10. /\ DOMAIN m_learnedInfo' = Switches
       /\ \A t \in Switches : /\ Known(t)' \subseteq Hosts
                              /\ \A k \in Known(t)' : m_learnedInfo'[t][k] \in Place
  BY <1>5, <1>7 DEF Types, Known
<1>11. QED BY <1>5, <1>8, <1>9, <1>10 DEF Types

LEMMA HandleFlowRemovedTypes ==
  ASSUME Types, NEW s \in Switches, HandleFlowRemoved(s)
  PROVE  Types'
<1>1. up[s] \in Seq(Message) /\ up[s] # <<>> BY DEF Types, HandleFlowRemoved
<1>2. /\ up' = [up EXCEPT ![s] = Tail(@)] /\ UNCHANGED <<flows, down, frames, at>>
      /\ m_learnedInfo' = [m_learnedInfo EXCEPT ![s] = Forget(s, Head(up[s]).dst)]
  BY DEF HandleFlowRemoved
<1>3. up' \in [Switches -> Seq(Message)] BY <1>1, <1>2, FirstMessage DEF Types
<1>4. /\ DOMAIN m_learnedInfo' = Switches
      /\ \A t \in Switches : /\ Known(t)' \subseteq Hosts
                             /\ \A k \in Known(t)' : m_learnedInfo'[t][k] \in Place
  BY <1>2 DEF Types, Known, Forget
<1>5. QED BY <1>2, <1>3, <1>4 DEF Types

\* A flow-mod that a switch receives.
Installs(s, R) ==
  LET msg == Head(down[s]) IN
  /\ msg.type = "FLOW_MOD"
  /\ flows' = [flows EXCEPT ![s] = (@ \ R) \cup {[dst |-> msg.dst, port |-> msg.port]}]
  /\ up' = [up EXCEPT ![s] = Removed(s, R)]
  /\ UNCHANGED frames

\* A packet-out that a switch receives.
SendsOut(s) ==
  LET msg == Head(down[s]) IN
  /\ msg.type = "PACKET_OUT"
  /\ Forward(s, msg.frame, OutPorts(s, msg.frame, msg.port))
  /\ UNCHANGED <<flows, up>>

LEMMA ReceiveCases ==
  ASSUME NEW s, Receive(s)
  PROVE  /\ down[s] # <<>> /\ down' = [down EXCEPT ![s] = Tail(@)]
         /\ UNCHANGED <<m_learnedInfo, sent, at, moves, aborted>>
         /\ (\E R \in Evictions(s) : Installs(s, R)) \/ SendsOut(s)
BY DEF Receive, Installs, SendsOut

LEMMA ReceiveTypes ==
  ASSUME Types, NEW s \in Switches, Receive(s)
  PROVE  Types'
<1>1. down[s] \in Seq(Message) BY DEF Types
<1>2. down[s] # <<>> /\ down' = [down EXCEPT ![s] = Tail(@)] /\ UNCHANGED <<m_learnedInfo, at>>
  BY ReceiveCases
<1>3. Head(down[s]) \in Message /\ down' \in [Switches -> Seq(Message)]
  BY <1>1, <1>2, FirstMessage DEF Types
<1>4. /\ DOMAIN m_learnedInfo' = Switches
      /\ \A t \in Switches : /\ Known(t)' \subseteq Hosts
                             /\ \A k \in Known(t)' : m_learnedInfo'[t][k] \in Place
  BY <1>2 DEF Types, Known
<1>5. ASSUME NEW R \in Evictions(s), Installs(s, R) PROVE Types'
  <2> DEFINE new == [dst |-> Head(down[s]).dst, port |-> Head(down[s]).port]
  <2>1. new \in Flow BY <1>3, <1>5, MessageFields DEF Installs, Flow
  <2>2. flows' = [flows EXCEPT ![s] = (@ \ R) \cup {new}] /\ up' = [up EXCEPT ![s] = Removed(s, R)]
        /\ frames' = frames
    BY <1>5 DEF Installs
  <2> HIDE DEF new
  <2>3. IsFiniteSet((flows[s] \ R) \cup {new})
    <3>1. IsFiniteSet(flows[s]) BY DEF Types
    <3>2. IsFiniteSet(flows[s] \ R) BY <3>1, FS_Difference
    <3>3. QED BY <3>2, FS_AddElement
  <2>4. /\ DOMAIN flows' = Switches
        /\ \A t \in Switches : flows'[t] \in SUBSET Flow /\ IsFiniteSet(flows'[t])
    BY <2>1, <2>2, <2>3 DEF Types
  <2>5. Removed(s, R) \in Seq(Message)
    <3>1. up[s] \in Seq(Message) /\ \A f \in flows[s] : FlowRemoved(f) \in Message
      BY MessagesMade DEF Types
    <3>2. QED BY <3>1, RemovedShape
  <2>6. up' \in [Switches -> Seq(Message)] BY <2>2, <2>5 DEF Types
  <2>7. QED BY <1>2, <1>3, <1>4, <2>2, <2>4, <2>6 DEF Types
<1>6. CASE SendsOut(s)
  <2>1. Head(down[s]).frame \in Frame BY <1>3, <1>6, MessageFields DEF SendsOut
  <2>2. frames' \in SUBSET Frame /\ UNCHANGED <<flows, up>> BY <1>6, <2>1, ForwardFrames DEF SendsOut
  <2>3. QED BY <1>2, <1>3, <1>4, <2>2 DEF Types
<1>7. QED BY <1>5, <1>6, ReceiveCases

LEMMA MatchTypes ==
  ASSUME Types, NEW s \in Switches, NEW f \in Frame, Match(s, f),
         UNCHANGED <<m_learnedInfo, flows, down, at>>
  PROVE  Types'
<1>1. frames' \in SUBSET Frame BY MatchShape
<1>2. up' \in [Switches -> Seq(Message)]
  <2>1. PacketIn(f) \in Message BY MessagesMade
  <2>2. CASE up' = up BY <2>2 DEF Types
  <2>3. CASE up' = [up EXCEPT ![s] = Append(@, PacketIn(f))] BY <2>1, <2>3 DEF Types
  <2>4. QED BY <2>2, <2>3, MatchShape
<1>3. QED BY <1>1, <1>2 DEF Types, Known

LEMMA IdleOutTypes ==
  ASSUME Types, NEW s \in Switches, NEW f \in flows[s], IdleOut(s, f)
  PROVE  Types'
<1>1. /\ flows' = [flows EXCEPT ![s] = @ \ {f}]
      /\ up' = [up EXCEPT ![s] = Append(@, FlowRemoved(f))]
      /\ UNCHANGED <<m_learnedInfo, down, frames, at>>
  BY DEF IdleOut
<1>2. IsFiniteSet(flows[s] \ {f}) BY FS_RemoveElement DEF Types
<1>3. FlowRemoved(f) \in Message BY MessagesMade DEF Types
<1>4. /\ DOMAIN flows' = Switches
      /\ \A t \in Switches : flows'[t] \in SUBSET Flow /\ IsFiniteSet(flows'[t])
  BY <1>1, <1>2 DEF Types
<1>5. up' \in [Switches -> Seq(Message)] BY <1>1, <1>3 DEF Types
<1>6. QED BY <1>1, <1>4, <1>5 DEF Types, Known

LEMMA NextTypes == Types /\ [Next]_vars => Types'
<1> SUFFICES ASSUME Types, [Next]_vars PROVE Types' OBVIOUS
<1>1. CASE UNCHANGED vars BY <1>1 DEF vars, Types, Known
<1>2. ASSUME NEW s \in Switches, HandlePacketIn(s) \/ HandleFlowRemoved(s) \/ Receive(s) PROVE Types'
  BY <1>2, HandlePacketInTypes, HandleFlowRemovedTypes, ReceiveTypes
<1>3. ASSUME NEW f \in frames, Arrive(f) PROVE Types'
  <2>1. f \in Frame BY DEF Types
  <2>2. f.switch \in Switches BY <2>1, FrameFields
  <2>3. QED BY <1>3, <2>1, <2>2, MatchTypes DEF Arrive
<1>4. ASSUME NEW p \in Packets, Send(p) PROVE Types'
  <2>1. at[Src[p]] \in Switches /\ [packet |-> p, switch |-> at[Src[p]], in_port |-> Src[p]] \in Frame
    BY SentFrame
  <2>2. QED BY <1>4, <2>1, MatchTypes DEF Send
<1>5. ASSUME NEW s \in Switches, NEW f \in flows[s], IdleOut(s, f) PROVE Types'
  BY <1>5, IdleOutTypes
<1>6. ASSUME NEW s \in Switches, NEW h \in Hosts, Move(h, s) PROVE Types'
  BY <1>6 DEF Move, Types, Known
<1>7. QED BY <1>1, <1>2, <1>3, <1>4, <1>5, <1>6 DEF Next, Event

LEMMA InitTypes == Init => Types
<1> SUFFICES ASSUME Init PROVE Types OBVIOUS
<1>1. \A s \in Switches : DOMAIN m_learnedInfo[s] = {} BY DEF Init
<1>2. IsFiniteSet({}) BY FS_EmptySet
<1>3. <<>> \in Seq(Message) OBVIOUS
<1>4. QED BY <1>1, <1>2, <1>3, NetworkAssumption DEF Init, Types, Known

\* Every variable of the network keeps its type.
THEOREM TypesHold == Spec => []Types
BY InitTypes, NextTypes, PTL DEF Spec

-----------------------------------------------------------------------------
(* The accounts *)

FlowPorts(s, h) == {f.port : f \in FlowsTo(s, h)}
DownPorts(s, h) == {down[s][k].port : k \in InDown(s, h)}
UpPorts(s, h) == {up[s][k].port : k \in InUp(s, h)}

Total(s, h) == Cardinality(FlowsTo(s, h)) + Cardinality(InDown(s, h)) + Cardinality(InUp(s, h))

\* The account of a host at a switch.
Account(s, h) ==
  /\ Total(s, h) = IF h \in Known(s) THEN 1 ELSE 0
  /\ \A port \in FlowPorts(s, h) \cup DownPorts(s, h) \cup UpPorts(s, h) : port = m_learnedInfo[s][h]

\* The three kinds of entries can be counted.
LEMMA Countable ==
  ASSUME Types, NEW s \in Switches, NEW h
  PROVE  /\ IsFiniteSet(FlowsTo(s, h)) /\ Cardinality(FlowsTo(s, h)) \in Nat
         /\ InDown(s, h) = Named(down[s], "FLOW_MOD", h)
         /\ DownPorts(s, h) = PortsNamed(down[s], "FLOW_MOD", h)
         /\ UpPorts(s, h) = PortsNamed(up[s], "FLOW_REMOVED", h)
         /\ IsFiniteSet(InDown(s, h)) /\ Cardinality(InDown(s, h)) \in Nat
         /\ InUp(s, h) = Named(up[s], "FLOW_REMOVED", h)
         /\ IsFiniteSet(InUp(s, h)) /\ Cardinality(InUp(s, h)) \in Nat
<1>1. IsFiniteSet(FlowsTo(s, h)) /\ Cardinality(FlowsTo(s, h)) \in Nat
  <2>1. FlowsTo(s, h) \in SUBSET flows[s] /\ IsFiniteSet(flows[s]) BY DEF FlowsTo, Types
  <2>2. QED BY <2>1, FS_Subset, FS_CardinalityType
<1>2. /\ InDown(s, h) = Named(down[s], "FLOW_MOD", h)
      /\ InUp(s, h) = Named(up[s], "FLOW_REMOVED", h)
      /\ DownPorts(s, h) = PortsNamed(down[s], "FLOW_MOD", h)
      /\ UpPorts(s, h) = PortsNamed(up[s], "FLOW_REMOVED", h)
  BY DEF InDown, InUp, Named, DownPorts, UpPorts, PortsNamed
<1>3. down[s] \in Seq(Message) /\ up[s] \in Seq(Message) BY DEF Types
<1>4. QED BY <1>1, <1>2, <1>3, NamedFinite

\* What counts nothing has no ports.
LEMMA NothingThere ==
  ASSUME Types, NEW s \in Switches, NEW h
  PROVE  /\ Cardinality(FlowsTo(s, h)) = 0 => FlowsTo(s, h) = {} /\ FlowPorts(s, h) = {}
         /\ Cardinality(InDown(s, h)) = 0 => DownPorts(s, h) = {}
         /\ Cardinality(InUp(s, h)) = 0 => UpPorts(s, h) = {}
<1>1. Cardinality(FlowsTo(s, h)) = 0 => FlowsTo(s, h) = {} BY Countable, FS_EmptySet
<1>2. Cardinality(InDown(s, h)) = 0 => InDown(s, h) = {} BY Countable, FS_EmptySet
<1>3. Cardinality(InUp(s, h)) = 0 => InUp(s, h) = {} BY Countable, FS_EmptySet
<1>4. QED BY <1>1, <1>2, <1>3 DEF FlowPorts, DownPorts, UpPorts

\* Where nothing changes the accounts stay.
LEMMA Elsewhere ==
  ASSUME NEW s, NEW h, Account(s, h), flows'[s] = flows[s], up'[s] = up[s], down'[s] = down[s],
         m_learnedInfo'[s] = m_learnedInfo[s]
  PROVE  Account(s, h)'
BY DEF Account, Total, FlowPorts, DownPorts, UpPorts, FlowsTo, InDown, InUp, Known

\* How the messages to the controller change.
LEMMA UpAppended ==
  ASSUME Types, NEW s \in Switches, NEW h, NEW m \in Message, up'[s] = Append(up[s], m)
  PROVE  /\ Cardinality(InUp(s, h)') = Cardinality(InUp(s, h))
              + (IF IsNamed(m, "FLOW_REMOVED", h) THEN 1 ELSE 0)
         /\ UpPorts(s, h)' \subseteq UpPorts(s, h) \cup
              (IF IsNamed(m, "FLOW_REMOVED", h) THEN {m.port} ELSE {})
<1>1. up[s] \in Seq(Message) BY DEF Types
<1>2. /\ InUp(s, h) = Named(up[s], "FLOW_REMOVED", h)
      /\ InUp(s, h)' = Named(Append(up[s], m), "FLOW_REMOVED", h)
      /\ UpPorts(s, h) = PortsNamed(up[s], "FLOW_REMOVED", h)
      /\ UpPorts(s, h)' = PortsNamed(Append(up[s], m), "FLOW_REMOVED", h)
  BY DEF InUp, Named, UpPorts, PortsNamed
<1>3. QED BY <1>1, <1>2, NamedAppend

LEMMA UpTaken ==
  ASSUME Types, NEW s \in Switches, NEW h, up[s] # <<>>, up'[s] = Tail(up[s])
  PROVE  /\ Cardinality(InUp(s, h)) = Cardinality(InUp(s, h)')
              + (IF IsNamed(Head(up[s]), "FLOW_REMOVED", h) THEN 1 ELSE 0)
         /\ Cardinality(InUp(s, h)') \in Nat
         /\ UpPorts(s, h)' \subseteq UpPorts(s, h)
<1>1. up[s] \in Seq(Message) BY DEF Types
<1>2. /\ InUp(s, h) = Named(up[s], "FLOW_REMOVED", h)
      /\ InUp(s, h)' = Named(Tail(up[s]), "FLOW_REMOVED", h)
      /\ UpPorts(s, h) = PortsNamed(up[s], "FLOW_REMOVED", h)
      /\ UpPorts(s, h)' = PortsNamed(Tail(up[s]), "FLOW_REMOVED", h)
  BY DEF InUp, Named, UpPorts, PortsNamed
<1>3. Tail(up[s]) \in Seq(Message) BY <1>1, FirstMessage
<1>4. /\ Cardinality(Named(up[s], "FLOW_REMOVED", h)) = Cardinality(Named(Tail(up[s]), "FLOW_REMOVED", h))
           + (IF IsNamed(Head(up[s]), "FLOW_REMOVED", h) THEN 1 ELSE 0)
      /\ PortsNamed(Tail(up[s]), "FLOW_REMOVED", h) \subseteq PortsNamed(up[s], "FLOW_REMOVED", h)
  BY <1>1, NamedTail
<1>5. Cardinality(Named(Tail(up[s]), "FLOW_REMOVED", h)) \in Nat BY <1>3, NamedFinite
<1>6. QED BY <1>2, <1>4, <1>5

\* How the messages to the switch change.
LEMMA DownTaken ==
  ASSUME Types, NEW s \in Switches, NEW h, down[s] # <<>>, down'[s] = Tail(down[s])
  PROVE  /\ Cardinality(InDown(s, h)) = Cardinality(InDown(s, h)')
              + (IF IsNamed(Head(down[s]), "FLOW_MOD", h) THEN 1 ELSE 0)
         /\ Cardinality(InDown(s, h)') \in Nat
         /\ DownPorts(s, h)' \subseteq DownPorts(s, h)
         /\ IsNamed(Head(down[s]), "FLOW_MOD", h) => Head(down[s]).port \in DownPorts(s, h)
<1>1. down[s] \in Seq(Message) BY DEF Types
<1>2. /\ InDown(s, h) = Named(down[s], "FLOW_MOD", h)
      /\ InDown(s, h)' = Named(Tail(down[s]), "FLOW_MOD", h)
      /\ DownPorts(s, h) = PortsNamed(down[s], "FLOW_MOD", h)
      /\ DownPorts(s, h)' = PortsNamed(Tail(down[s]), "FLOW_MOD", h)
  BY DEF InDown, Named, DownPorts, PortsNamed
<1>3. Tail(down[s]) \in Seq(Message) BY <1>1, FirstMessage
<1>4. /\ Cardinality(Named(down[s], "FLOW_MOD", h)) = Cardinality(Named(Tail(down[s]), "FLOW_MOD", h))
           + (IF IsNamed(Head(down[s]), "FLOW_MOD", h) THEN 1 ELSE 0)
      /\ PortsNamed(Tail(down[s]), "FLOW_MOD", h) \subseteq PortsNamed(down[s], "FLOW_MOD", h)
      /\ IsNamed(Head(down[s]), "FLOW_MOD", h) => Head(down[s]).port \in PortsNamed(down[s], "FLOW_MOD", h)
  BY <1>1, NamedTail
<1>5. Cardinality(Named(Tail(down[s]), "FLOW_MOD", h)) \in Nat BY <1>3, NamedFinite
<1>6. QED BY <1>2, <1>4, <1>5

\* The controller's answer: at most the flow-mod for a source that was unknown.
LEMMA DownAnswered ==
  ASSUME Types, NEW s \in Switches, NEW f \in Frame, NEW h, down'[s] = Answered(s, f)
  PROVE  LET new == h = Src[f.packet] /\ h \notin Known(s) IN
         /\ Cardinality(InDown(s, h)') = Cardinality(InDown(s, h)) + (IF new THEN 1 ELSE 0)
         /\ DownPorts(s, h)' \subseteq DownPorts(s, h) \cup (IF new THEN {f.in_port} ELSE {})
<1> DEFINE sender == Src[f.packet]
           mod == FlowMod(sender, f.in_port)
           packetOut == PacketOut(f, OutPort(s, f.packet))
           q == IF sender \in Known(s) THEN down[s] ELSE Append(down[s], mod)
           new == h = sender /\ h \notin Known(s)
           N(x) == Named(x, "FLOW_MOD", h)
           P(x) == PortsNamed(x, "FLOW_MOD", h)
<1>1. down[s] \in Seq(Message) BY DEF Types
<1>2. /\ sender \in Hosts /\ f.in_port \in Place /\ mod \in Message
      /\ mod.type = "FLOW_MOD" /\ mod.dst = sender /\ mod.port = f.in_port
  BY FrameFields, MessagesMade
<1>3. packetOut \in Message /\ down'[s] = Append(q, packetOut) BY AnsweredShape
<1>4. packetOut.type = "PACKET_OUT" BY DEF PacketOut
<1> HIDE DEF mod, packetOut
<1>5. q \in Seq(Message) BY <1>1, <1>2
<1>6. /\ Cardinality(N(q)) = Cardinality(N(down[s])) + (IF new THEN 1 ELSE 0)
      /\ P(q) \subseteq P(down[s]) \cup (IF new THEN {f.in_port} ELSE {})
  <2>1. CASE sender \in Known(s)
    <3>1. q = down[s] /\ ~new BY <2>1
    <3>2. Cardinality(N(down[s])) \in Nat BY <1>1, NamedFinite
    <3> HIDE DEF N, P, q, new
    <3>3. QED BY <3>1, <3>2
  <2>2. CASE sender \notin Known(s)
    <3>1. q = Append(down[s], mod) BY <2>2
    <3>2. IsNamed(mod, "FLOW_MOD", h) <=> new BY <1>2, <2>2 DEF IsNamed
    <3>3. /\ Cardinality(N(Append(down[s], mod))) =
               Cardinality(N(down[s])) + (IF IsNamed(mod, "FLOW_MOD", h) THEN 1 ELSE 0)
          /\ P(Append(down[s], mod)) \subseteq
               P(down[s]) \cup (IF IsNamed(mod, "FLOW_MOD", h) THEN {mod.port} ELSE {})
      BY <1>1, NamedAppend
    <3> HIDE DEF N, P, q
    <3>4. QED BY <1>2, <3>1, <3>2, <3>3
  <2>3. QED BY <2>1, <2>2
<1>7. /\ Cardinality(N(Append(q, packetOut))) = Cardinality(N(q))
      /\ P(Append(q, packetOut)) \subseteq P(q)
  <2>1. ~IsNamed(packetOut, "FLOW_MOD", h) BY <1>4 DEF IsNamed
  <2>2. /\ Cardinality(N(Append(q, packetOut))) =
             Cardinality(N(q)) + (IF IsNamed(packetOut, "FLOW_MOD", h) THEN 1 ELSE 0)
        /\ P(Append(q, packetOut)) \subseteq
             P(q) \cup (IF IsNamed(packetOut, "FLOW_MOD", h) THEN {packetOut.port} ELSE {})
    <3> HIDE DEF q
    <3>1. QED BY <1>5, NamedAppend
  <2>3. Cardinality(N(q)) \in Nat
    <3> HIDE DEF q
    <3>1. QED BY <1>5, NamedFinite
  <2> HIDE DEF N, P, q
  <2>4. QED BY <2>1, <2>2, <2>3
<1>8. /\ InDown(s, h) = N(down[s]) /\ InDown(s, h)' = N(Append(q, packetOut))
      /\ DownPorts(s, h) = P(down[s]) /\ DownPorts(s, h)' = P(Append(q, packetOut))
  <2>1. /\ InDown(s, h) = N(down[s]) /\ InDown(s, h)' = N(down'[s])
        /\ DownPorts(s, h) = P(down[s]) /\ DownPorts(s, h)' = P(down'[s])
    BY DEF InDown, Named, DownPorts, PortsNamed
  <2> HIDE DEF N, P, q
  <2>2. QED BY <1>3, <2>1
<1> HIDE DEF N, P, q, sender
<1>9. QED BY <1>6, <1>7, <1>8 DEF sender

\* The accounts of all hosts at all switches.
Accounts == \A s \in Switches : \A h \in Hosts : Account(s, h)

\* The controller takes a packet-in and may learn its source.
LEMMA HandlePacketInAccounts ==
  ASSUME Types, Accounts, NEW s \in Switches, HandlePacketIn(s)
  PROVE  Accounts'
<1> DEFINE f == Head(up[s]).frame
           sender == Src[f.packet]
<1>1. up[s] \in Seq(Message) /\ up[s] # <<>> /\ Head(up[s]).type = "PACKET_IN"
  BY DEF Types, HandlePacketIn
<1>2. f \in Frame BY <1>1, FirstMessage, MessageFields
<1>3. /\ up' = [up EXCEPT ![s] = Tail(@)] /\ UNCHANGED flows
      /\ \/ UNCHANGED <<m_learnedInfo, down>>
         \/ /\ m_learnedInfo' = [m_learnedInfo EXCEPT ![s] = Learned(s, f)]
            /\ down' = [down EXCEPT ![s] = Answered(s, f)]
  BY DEF HandlePacketIn, Answered
<1> HIDE DEF f
<1>4. up'[s] = Tail(up[s]) /\ \A t \in Switches \ {s} : up'[t] = up[t] BY <1>3 DEF Types
<1> SUFFICES ASSUME NEW t \in Switches, NEW h \in Hosts PROVE Account(t, h)'
  BY DEF Accounts
<1>5. Account(t, h) BY DEF Accounts
<1>6. CASE t # s
  <2>1. flows'[t] = flows[t] /\ down'[t] = down[t] /\ m_learnedInfo'[t] = m_learnedInfo[t]
    BY <1>3, <1>6 DEF Types
  <2>2. QED BY <1>4, <1>5, <1>6, <2>1, Elsewhere
<1>7. Cardinality(InUp(s, h)') = Cardinality(InUp(s, h)) /\ UpPorts(s, h)' \subseteq UpPorts(s, h)
  <2>1. ~IsNamed(Head(up[s]), "FLOW_REMOVED", h) BY <1>1 DEF IsNamed
  <2>2. QED BY <1>1, <1>4, <2>1, UpTaken
<1>8. FlowsTo(s, h)' = FlowsTo(s, h) /\ FlowPorts(s, h)' = FlowPorts(s, h)
  BY <1>3 DEF FlowsTo, FlowPorts
<1>9. CASE t = s /\ UNCHANGED <<m_learnedInfo, down>>
  <2>1. InDown(s, h)' = InDown(s, h) /\ DownPorts(s, h)' = DownPorts(s, h) /\ Known(s)' = Known(s)
    BY <1>9 DEF InDown, DownPorts, Known
  <2>2. QED BY <1>5, <1>7, <1>8, <1>9, <2>1 DEF Account, Total
<1>10. CASE /\ t = s
            /\ m_learnedInfo' = [m_learnedInfo EXCEPT ![s] = Learned(s, f)]
            /\ down' = [down EXCEPT ![s] = Answered(s, f)]
  <2> DEFINE new == h = sender /\ h \notin Known(s)
  <2>1. down'[s] = Answered(s, f) /\ m_learnedInfo'[s] = Learned(s, f) BY <1>10 DEF Types
  <2>2. /\ Cardinality(InDown(s, h)') = Cardinality(InDown(s, h)) + (IF new THEN 1 ELSE 0)
        /\ DownPorts(s, h)' \subseteq DownPorts(s, h) \cup (IF new THEN {f.in_port} ELSE {})
    BY <1>2, <2>1, DownAnswered
  <2>3. /\ h \in Known(s)' <=> h \in Known(s) \/ new
        /\ new => m_learnedInfo'[s][h] = f.in_port
        /\ h \in Known(s) => m_learnedInfo'[s][h] = m_learnedInfo[s][h]
    BY <2>1 DEF Learned, Known
  <2> HIDE DEF sender
  <2>4. /\ Cardinality(FlowsTo(s, h)) \in Nat /\ Cardinality(InDown(s, h)) \in Nat
        /\ Cardinality(InUp(s, h)) \in Nat
    BY Countable
  <2>5. CASE h \in Known(s)
    <3>1. ~new BY <2>5
    <3> HIDE DEF new
    <3>2. QED BY <1>5, <1>7, <1>8, <1>10, <2>2, <2>3, <2>4, <2>5, <3>1 DEF Account, Total
  <2>6. CASE h \notin Known(s)
    <3>1. Total(s, h) = 0 BY <1>5, <1>10, <2>6 DEF Account
    <3>2. FlowPorts(s, h) = {} /\ DownPorts(s, h) = {} /\ UpPorts(s, h) = {}
      BY <2>4, <3>1, NothingThere DEF Total
    <3>3. CASE new
      <4> HIDE DEF new
      <4>1. Total(s, h)' = 1 BY <1>7, <1>8, <2>2, <2>4, <3>1, <3>3 DEF Total
      <4>2. FlowPorts(s, h)' \cup DownPorts(s, h)' \cup UpPorts(s, h)' \subseteq {f.in_port}
        BY <1>7, <1>8, <2>2, <3>2, <3>3
      <4>3. QED BY <1>10, <2>3, <3>3, <4>1, <4>2 DEF Account
    <3>4. CASE ~new
      <4> HIDE DEF new
      <4>1. Total(s, h)' = 0 BY <1>7, <1>8, <2>2, <2>4, <3>1, <3>4 DEF Total
      <4>2. FlowPorts(s, h)' \cup DownPorts(s, h)' \cup UpPorts(s, h)' = {}
        BY <1>7, <1>8, <2>2, <3>2, <3>4
      <4>3. QED BY <1>10, <2>3, <2>6, <3>4, <4>1, <4>2 DEF Account
    <3>5. QED BY <3>3, <3>4
  <2>7. QED BY <2>5, <2>6
<1>11. QED BY <1>3, <1>6, <1>9, <1>10

\* The controller forgets the host of a flow that is gone.
LEMMA HandleFlowRemovedAccounts ==
  ASSUME Types, Accounts, NEW s \in Switches, HandleFlowRemoved(s)
  PROVE  Accounts'
<1> DEFINE gone == Head(up[s]).dst
<1>1. up[s] \in Seq(Message) /\ up[s] # <<>> /\ Head(up[s]).type = "FLOW_REMOVED"
  BY DEF Types, HandleFlowRemoved
<1>2. /\ up' = [up EXCEPT ![s] = Tail(@)] /\ UNCHANGED <<flows, down>>
      /\ m_learnedInfo' = [m_learnedInfo EXCEPT ![s] = Forget(s, gone)]
  BY DEF HandleFlowRemoved
<1> SUFFICES ASSUME NEW t \in Switches, NEW h \in Hosts PROVE Account(t, h)'
  BY DEF Accounts
<1>3. Account(t, h) BY DEF Accounts
<1>4. CASE t # s
  <2>1. /\ flows'[t] = flows[t] /\ down'[t] = down[t] /\ m_learnedInfo'[t] = m_learnedInfo[t]
        /\ up'[t] = up[t]
    BY <1>2, <1>4 DEF Types
  <2>2. QED BY <1>3, <2>1, Elsewhere
<1>5. CASE t = s
  <2>1. up'[s] = Tail(up[s]) /\ m_learnedInfo'[s] = Forget(s, gone) BY <1>2 DEF Types
  <2>2. IsNamed(Head(up[s]), "FLOW_REMOVED", h) <=> h = gone BY <1>1 DEF IsNamed
  <2>3. /\ Cardinality(InUp(s, h)) = Cardinality(InUp(s, h)')
             + (IF IsNamed(Head(up[s]), "FLOW_REMOVED", h) THEN 1 ELSE 0)
        /\ Cardinality(InUp(s, h)') \in Nat
        /\ UpPorts(s, h)' \subseteq UpPorts(s, h)
    BY <1>1, <2>1, UpTaken
  <2>4. /\ FlowsTo(s, h)' = FlowsTo(s, h) /\ FlowPorts(s, h)' = FlowPorts(s, h)
        /\ InDown(s, h)' = InDown(s, h) /\ DownPorts(s, h)' = DownPorts(s, h)
    BY <1>2 DEF FlowsTo, FlowPorts, InDown, DownPorts
  <2>5. /\ Cardinality(FlowsTo(s, h)) \in Nat /\ Cardinality(InDown(s, h)) \in Nat
        /\ Cardinality(InUp(s, h)) \in Nat
    BY Countable
  <2>6. /\ h \in Known(s)' <=> h \in Known(s) /\ h # gone
        /\ h \in Known(s)' => m_learnedInfo'[s][h] = m_learnedInfo[s][h]
    BY <2>1 DEF Forget, Known
  <2> HIDE DEF gone
  <2>7. CASE h = gone
    <3>1. Cardinality(InUp(s, h)) = Cardinality(InUp(s, h)') + 1 BY <2>2, <2>3, <2>7
    <3>2. Total(s, h) <= 1 BY <1>3, <1>5 DEF Account
    <3>3. /\ Cardinality(InUp(s, h)') = 0 /\ Cardinality(FlowsTo(s, h)) = 0
          /\ Cardinality(InDown(s, h)) = 0
      BY <2>3, <2>5, <3>1, <3>2 DEF Total
    <3>4. Types' BY HandleFlowRemovedTypes
    <3>5. UpPorts(s, h)' = {}
      <4>1. IsFiniteSet(InUp(s, h)')
        <5>1. Tail(up[s]) \in Seq(Message) BY <1>1, FirstMessage
        <5>2. InUp(s, h)' = Named(Tail(up[s]), "FLOW_REMOVED", h) BY <2>1 DEF InUp, Named
        <5>3. QED BY <5>1, <5>2, NamedFinite
      <4>2. InUp(s, h)' = {} BY <3>3, <4>1, FS_EmptySet
      <4>3. QED BY <4>2 DEF UpPorts
    <3>6. FlowPorts(s, h) = {} /\ DownPorts(s, h) = {} BY <3>3, NothingThere
    <3>7. Total(s, h)' = 0 BY <2>4, <3>3 DEF Total
    <3>8. QED BY <1>5, <2>4, <2>6, <2>7, <3>5, <3>6, <3>7 DEF Account
  <2>8. CASE h # gone
    <3>1. Cardinality(InUp(s, h)) = Cardinality(InUp(s, h)') BY <2>2, <2>3, <2>8
    <3>2. Total(s, h)' = Total(s, h) BY <2>4, <3>1 DEF Total
    <3>3. h \in Known(s) <=> h \in Known(s)' BY <2>6, <2>8
    <3>4. Total(s, h)' = IF h \in Known(s)' THEN 1 ELSE 0 BY <1>3, <1>5, <3>2, <3>3 DEF Account
    <3>5. ASSUME NEW port \in (FlowPorts(s, h) \cup DownPorts(s, h) \cup UpPorts(s, h))'
          PROVE  port = m_learnedInfo'[s][h]
      <4>1. port \in FlowPorts(s, h) \cup DownPorts(s, h) \cup UpPorts(s, h) BY <2>3, <2>4
      <4>2. port = m_learnedInfo[s][h] BY <1>3, <1>5, <4>1 DEF Account
      <4>3. h \in Known(s)
        <5>1. Total(s, h) # 0
          <6>1. SUFFICES ASSUME Total(s, h) = 0 PROVE FALSE OBVIOUS
          <6>2. /\ Cardinality(FlowsTo(s, h)) = 0 /\ Cardinality(InDown(s, h)) = 0
                /\ Cardinality(InUp(s, h)) = 0
            BY <2>5, <6>1 DEF Total
          <6>3. FlowPorts(s, h) = {} /\ DownPorts(s, h) = {} /\ UpPorts(s, h) = {}
            BY <6>2, NothingThere
          <6>4. QED BY <4>1, <6>3
        <5>2. QED BY <1>3, <1>5, <5>1 DEF Account
      <4>4. QED BY <2>6, <3>3, <4>2, <4>3
    <3>6. QED BY <1>5, <3>4, <3>5 DEF Account
  <2>9. QED BY <2>7, <2>8
<1>6. QED BY <1>4, <1>5

\* What a switch takes or sends on is about no host, as far as the accounts go.
LEMMA QuietAccounts ==
  ASSUME Types, Accounts, UNCHANGED <<m_learnedInfo, flows>>,
         NEW s \in Switches,
         \A t \in Switches \ {s} : up'[t] = up[t] /\ down'[t] = down[t],
         \A h \in Hosts :
           /\ Cardinality(InUp(s, h)') = Cardinality(InUp(s, h))
           /\ UpPorts(s, h)' \subseteq UpPorts(s, h)
           /\ Cardinality(InDown(s, h)') = Cardinality(InDown(s, h))
           /\ DownPorts(s, h)' \subseteq DownPorts(s, h)
  PROVE  Accounts'
<1> SUFFICES ASSUME NEW t \in Switches, NEW h \in Hosts PROVE Account(t, h)'
  BY DEF Accounts
<1>1. Account(t, h) BY DEF Accounts
<1>2. CASE t # s BY <1>1, <1>2, Elsewhere
<1>3. CASE t = s
  <2>1. FlowsTo(s, h)' = FlowsTo(s, h) /\ FlowPorts(s, h)' = FlowPorts(s, h) /\ Known(s)' = Known(s)
    BY DEF FlowsTo, FlowPorts, Known
  <2>2. Total(s, h)' = Total(s, h) BY <2>1 DEF Total
  <2>3. QED BY <1>1, <1>3, <2>1, <2>2 DEF Account
<1>4. QED BY <1>2, <1>3

LEMMA MatchAccounts ==
  ASSUME Types, Accounts, NEW s \in Switches, NEW f \in Frame, Match(s, f),
         UNCHANGED <<m_learnedInfo, flows, down>>
  PROVE  Accounts'
<1>1. CASE up' = up
  <2>1. \A h \in Hosts : /\ InUp(s, h)' = InUp(s, h) /\ UpPorts(s, h)' = UpPorts(s, h)
                         /\ InDown(s, h)' = InDown(s, h) /\ DownPorts(s, h)' = DownPorts(s, h)
    BY <1>1 DEF InUp, UpPorts, InDown, DownPorts
  <2>2. QED BY <1>1, <2>1, QuietAccounts
<1>2. CASE up' = [up EXCEPT ![s] = Append(@, PacketIn(f))]
  <2>1. PacketIn(f) \in Message /\ PacketIn(f).type = "PACKET_IN" BY MessagesMade
  <2>2. up'[s] = Append(up[s], PacketIn(f)) /\ \A t \in Switches \ {s} : up'[t] = up[t]
    BY <1>2 DEF Types
  <2>3. ASSUME NEW h \in Hosts
        PROVE  /\ Cardinality(InUp(s, h)') = Cardinality(InUp(s, h))
               /\ UpPorts(s, h)' \subseteq UpPorts(s, h)
               /\ InDown(s, h)' = InDown(s, h) /\ DownPorts(s, h)' = DownPorts(s, h)
    <3>1. ~IsNamed(PacketIn(f), "FLOW_REMOVED", h) BY <2>1 DEF IsNamed
    <3>2. Cardinality(InUp(s, h)) \in Nat BY Countable
    <3>3. InDown(s, h)' = InDown(s, h) /\ DownPorts(s, h)' = DownPorts(s, h) BY DEF InDown, DownPorts
    <3>4. QED BY <2>1, <2>2, <3>1, <3>2, <3>3, UpAppended
  <2>4. QED BY <2>2, <2>3, QuietAccounts
<1>3. QED BY <1>1, <1>2, MatchShape

LEMMA SendsOutAccounts ==
  ASSUME Types, Accounts, NEW s \in Switches, Receive(s), SendsOut(s)
  PROVE  Accounts'
<1>1. /\ down[s] # <<>> /\ down' = [down EXCEPT ![s] = Tail(@)]
      /\ UNCHANGED <<m_learnedInfo, flows, up>> /\ Head(down[s]).type = "PACKET_OUT"
  BY ReceiveCases DEF SendsOut
<1>2. down'[s] = Tail(down[s]) /\ \A t \in Switches \ {s} : down'[t] = down[t] BY <1>1 DEF Types
<1>3. ASSUME NEW h \in Hosts
      PROVE  /\ InUp(s, h)' = InUp(s, h) /\ UpPorts(s, h)' = UpPorts(s, h)
             /\ Cardinality(InDown(s, h)') = Cardinality(InDown(s, h))
             /\ DownPorts(s, h)' \subseteq DownPorts(s, h)
  <2>1. ~IsNamed(Head(down[s]), "FLOW_MOD", h) BY <1>1 DEF IsNamed
  <2>2. InUp(s, h)' = InUp(s, h) /\ UpPorts(s, h)' = UpPorts(s, h) BY <1>1 DEF InUp, UpPorts
  <2>3. QED BY <1>1, <1>2, <2>1, <2>2, DownTaken
<1>4. QED BY <1>1, <1>2, <1>3, QuietAccounts

\* The flow f leaves the table of switch s and the controller is told.
LEMMA FlowGone ==
  ASSUME Types, NEW s \in Switches, NEW f \in flows[s], NEW h,
         up'[s] = Append(up[s], FlowRemoved(f))
  PROVE  /\ Cardinality(FlowsTo(s, h) \ {f}) + Cardinality(InUp(s, h)') =
              Cardinality(FlowsTo(s, h)) + Cardinality(InUp(s, h))
         /\ Cardinality(FlowsTo(s, h) \ {f}) \in Nat
         /\ UpPorts(s, h)' \subseteq UpPorts(s, h) \cup FlowPorts(s, h)
         /\ f.dst # h => /\ Cardinality(InUp(s, h)') = Cardinality(InUp(s, h))
                         /\ UpPorts(s, h)' \subseteq UpPorts(s, h)
<1> DEFINE m == FlowRemoved(f)
<1>1. f \in Flow BY DEF Types
<1>2. m \in Message /\ m.type = "FLOW_REMOVED" /\ m.dst = f.dst /\ m.port = f.port
  BY <1>1, MessagesMade
<1>3. IsNamed(m, "FLOW_REMOVED", h) <=> f.dst = h BY <1>2 DEF IsNamed
<1>4. up'[s] = Append(up[s], m) OBVIOUS
<1> HIDE DEF m
<1>5. /\ Cardinality(InUp(s, h)') = Cardinality(InUp(s, h))
           + (IF IsNamed(m, "FLOW_REMOVED", h) THEN 1 ELSE 0)
      /\ UpPorts(s, h)' \subseteq UpPorts(s, h) \cup
           (IF IsNamed(m, "FLOW_REMOVED", h) THEN {m.port} ELSE {})
  BY <1>2, <1>4, UpAppended
<1>6. /\ IsFiniteSet(FlowsTo(s, h)) /\ Cardinality(FlowsTo(s, h)) \in Nat
      /\ Cardinality(InUp(s, h)) \in Nat
  BY Countable
<1>7. /\ Cardinality(FlowsTo(s, h) \ {f}) =
           IF f \in FlowsTo(s, h) THEN Cardinality(FlowsTo(s, h)) - 1 ELSE Cardinality(FlowsTo(s, h))
      /\ IsFiniteSet(FlowsTo(s, h) \ {f})
  BY <1>6, FS_RemoveElement
<1>8. Cardinality(FlowsTo(s, h) \ {f}) \in Nat BY <1>7, FS_CardinalityType
<1>9. f \in FlowsTo(s, h) <=> f.dst = h BY DEF FlowsTo
<1>10. f.dst = h => m.port \in FlowPorts(s, h) BY <1>2, <1>9 DEF FlowPorts
<1>11. CASE f.dst = h
  <2>1. Cardinality(InUp(s, h)') = Cardinality(InUp(s, h)) + 1 /\ UpPorts(s, h)' \subseteq UpPorts(s, h) \cup {m.port}
    BY <1>3, <1>5, <1>11
  <2>2. Cardinality(FlowsTo(s, h) \ {f}) = Cardinality(FlowsTo(s, h)) - 1 BY <1>7, <1>9, <1>11
  <2>3. m.port \in FlowPorts(s, h) BY <1>10, <1>11
  <2>4. UpPorts(s, h)' \subseteq UpPorts(s, h) \cup FlowPorts(s, h) BY <2>1, <2>3
  <2>5. Cardinality(FlowsTo(s, h) \ {f}) + Cardinality(InUp(s, h)') =
          Cardinality(FlowsTo(s, h)) + Cardinality(InUp(s, h))
    BY <1>6, <2>1, <2>2
  <2>6. QED BY <1>8, <1>11, <2>4, <2>5
<1>12. CASE f.dst # h BY <1>3, <1>5, <1>6, <1>7, <1>8, <1>9, <1>12
<1>13. QED BY <1>11, <1>12

LEMMA IdleOutAccounts ==
  ASSUME Types, Accounts, NEW s \in Switches, NEW f \in flows[s], IdleOut(s, f)
  PROVE  Accounts'
<1>1. /\ flows' = [flows EXCEPT ![s] = @ \ {f}]
      /\ up' = [up EXCEPT ![s] = Append(@, FlowRemoved(f))]
      /\ UNCHANGED <<m_learnedInfo, down>>
  BY DEF IdleOut
<1> SUFFICES ASSUME NEW t \in Switches, NEW h \in Hosts PROVE Account(t, h)'
  BY DEF Accounts
<1>2. Account(t, h) BY DEF Accounts
<1>3. CASE t # s
  <2>1. flows'[t] = flows[t] /\ up'[t] = up[t] BY <1>1, <1>3 DEF Types
  <2>2. QED BY <1>1, <1>2, <2>1, Elsewhere
<1>4. CASE t = s
  <2>1. up'[s] = Append(up[s], FlowRemoved(f)) /\ flows'[s] = flows[s] \ {f} BY <1>1 DEF Types
  <2>2. FlowsTo(s, h)' = FlowsTo(s, h) \ {f} BY <2>1 DEF FlowsTo
  <2>3. FlowPorts(s, h)' \subseteq FlowPorts(s, h) BY <2>2 DEF FlowPorts
  <2>4. InDown(s, h)' = InDown(s, h) /\ DownPorts(s, h)' = DownPorts(s, h) /\ Known(s)' = Known(s)
    BY <1>1 DEF InDown, DownPorts, Known
  <2>5. /\ Cardinality(FlowsTo(s, h) \ {f}) + Cardinality(InUp(s, h)') =
             Cardinality(FlowsTo(s, h)) + Cardinality(InUp(s, h))
        /\ UpPorts(s, h)' \subseteq UpPorts(s, h) \cup FlowPorts(s, h)
    BY <2>1, FlowGone
  <2>6. /\ Cardinality(FlowsTo(s, h)) \in Nat /\ Cardinality(InUp(s, h)) \in Nat
        /\ Cardinality(InDown(s, h)) \in Nat /\ Cardinality(FlowsTo(s, h) \ {f}) \in Nat
    BY <2>1, Countable, FlowGone
  <2>7. Cardinality(InUp(s, h)') \in Nat
    <3>1. Types' BY IdleOutTypes
    <3>2. Append(up[s], FlowRemoved(f)) \in Seq(Message) BY <3>1, <2>1 DEF Types
    <3>3. InUp(s, h)' = Named(Append(up[s], FlowRemoved(f)), "FLOW_REMOVED", h) BY <2>1 DEF InUp, Named
    <3>4. QED BY <3>2, <3>3, NamedFinite
  <2>8. Total(s, h)' = Total(s, h) BY <2>2, <2>4, <2>5, <2>6, <2>7 DEF Total
  <2>9. (FlowPorts(s, h) \cup DownPorts(s, h) \cup UpPorts(s, h))' \subseteq
          FlowPorts(s, h) \cup DownPorts(s, h) \cup UpPorts(s, h)
    BY <2>3, <2>4, <2>5
  <2>10. QED BY <1>1, <1>2, <1>4, <2>4, <2>8, <2>9 DEF Account
<1>5. QED BY <1>3, <1>4

\* A flow-mod arrives: the new flow takes its place in the account, and an
\* evicted one leaves its place to the FLOW_REMOVED.
LEMMA InstallsAccounts ==
  ASSUME Types, Accounts, NEW s \in Switches, Receive(s), NEW R \in Evictions(s), Installs(s, R)
  PROVE  Accounts'
<1> DEFINE msg == Head(down[s])
           new == [dst |-> msg.dst, port |-> msg.port]
<1>1. /\ down[s] # <<>> /\ down' = [down EXCEPT ![s] = Tail(@)] /\ UNCHANGED m_learnedInfo
      /\ msg.type = "FLOW_MOD" /\ up' = [up EXCEPT ![s] = Removed(s, R)]
      /\ flows' = [flows EXCEPT ![s] = (@ \ R) \cup {new}]
  BY ReceiveCases DEF Installs
<1>2. down[s] \in Seq(Message) /\ msg \in Message BY <1>1, FirstMessage DEF Types
<1>3. new.dst = msg.dst /\ new.port = msg.port OBVIOUS
<1> HIDE DEF msg, new
<1>4. /\ flows'[s] = (flows[s] \ R) \cup {new} /\ down'[s] = Tail(down[s]) /\ up'[s] = Removed(s, R)
      /\ \A t \in Switches \ {s} : flows'[t] = flows[t] /\ down'[t] = down[t] /\ up'[t] = up[t]
  BY <1>1 DEF Types
<1> SUFFICES ASSUME NEW t \in Switches, NEW h \in Hosts PROVE Account(t, h)'
  BY DEF Accounts
<1>5. Account(t, h) BY DEF Accounts
<1>6. CASE t # s BY <1>1, <1>4, <1>5, <1>6, Elsewhere
<1>7. CASE t = s
  <2>1. /\ IsFiniteSet(FlowsTo(s, h)) /\ Cardinality(FlowsTo(s, h)) \in Nat
        /\ Cardinality(InDown(s, h)) \in Nat /\ Cardinality(InUp(s, h)) \in Nat
    BY Countable
  <2>2. IsNamed(msg, "FLOW_MOD", h) <=> h = msg.dst BY <1>1 DEF IsNamed
  <2>3. /\ Cardinality(InDown(s, h)) = Cardinality(InDown(s, h)')
             + (IF h = msg.dst THEN 1 ELSE 0)
        /\ Cardinality(InDown(s, h)') \in Nat
        /\ DownPorts(s, h)' \subseteq DownPorts(s, h)
        /\ h = msg.dst => msg.port \in DownPorts(s, h)
    <3>1. /\ Cardinality(InDown(s, h)) = Cardinality(InDown(s, h)')
               + (IF IsNamed(Head(down[s]), "FLOW_MOD", h) THEN 1 ELSE 0)
          /\ Cardinality(InDown(s, h)') \in Nat
          /\ DownPorts(s, h)' \subseteq DownPorts(s, h)
          /\ IsNamed(Head(down[s]), "FLOW_MOD", h) => Head(down[s]).port \in DownPorts(s, h)
      BY <1>1, <1>4, DownTaken
    <3>2. QED BY <2>2, <3>1 DEF msg
  \* What the eviction does to the flows and the messages about h.
  <2>4. /\ Cardinality(FlowsTo(s, h) \ R) + Cardinality(InUp(s, h)') =
             Cardinality(FlowsTo(s, h)) + Cardinality(InUp(s, h))
        /\ IsFiniteSet(FlowsTo(s, h) \ R)
        /\ Cardinality(FlowsTo(s, h) \ R) \in Nat /\ Cardinality(InUp(s, h)') \in Nat
        /\ UpPorts(s, h)' \subseteq UpPorts(s, h) \cup FlowPorts(s, h)
    <3>1. CASE R = {} /\ Removed(s, R) = up[s]
      <4>1. InUp(s, h)' = InUp(s, h) /\ UpPorts(s, h)' = UpPorts(s, h)
        BY <1>4, <3>1 DEF InUp, UpPorts
      <4>2. FlowsTo(s, h) \ R = FlowsTo(s, h) BY <3>1
      <4>3. QED BY <2>1, <4>1, <4>2
    <3>2. ASSUME NEW f \in flows[s], R = {f}, Removed(s, R) = Append(up[s], FlowRemoved(f))
          PROVE  /\ Cardinality(FlowsTo(s, h) \ R) + Cardinality(InUp(s, h)') =
                      Cardinality(FlowsTo(s, h)) + Cardinality(InUp(s, h))
                 /\ IsFiniteSet(FlowsTo(s, h) \ R)
                 /\ Cardinality(FlowsTo(s, h) \ R) \in Nat /\ Cardinality(InUp(s, h)') \in Nat
                 /\ UpPorts(s, h)' \subseteq UpPorts(s, h) \cup FlowPorts(s, h)
      <4>1. up'[s] = Append(up[s], FlowRemoved(f)) BY <1>4, <3>2
      <4>2. /\ Cardinality(FlowsTo(s, h) \ {f}) + Cardinality(InUp(s, h)') =
                 Cardinality(FlowsTo(s, h)) + Cardinality(InUp(s, h))
            /\ Cardinality(FlowsTo(s, h) \ {f}) \in Nat
            /\ UpPorts(s, h)' \subseteq UpPorts(s, h) \cup FlowPorts(s, h)
        BY <4>1, FlowGone
      <4>3. IsFiniteSet(FlowsTo(s, h) \ {f}) BY <2>1, FS_RemoveElement
      <4>4. Types' BY ReceiveTypes
      <4>5. Cardinality(InUp(s, h)') \in Nat
        <5>1. up'[s] \in Seq(Message) BY <4>4 DEF Types
        <5>2. InUp(s, h)' = Named(up'[s], "FLOW_REMOVED", h) BY DEF InUp, Named
        <5>3. QED BY <5>1, <5>2, NamedFinite
      <4>6. QED BY <3>2, <4>2, <4>3, <4>5
    <3>3. QED BY <3>1, <3>2, RemovedShape
  <2>5. /\ FlowsTo(s, h)' = (FlowsTo(s, h) \ R) \cup (IF h = msg.dst THEN {new} ELSE {})
        /\ Known(s)' = Known(s) /\ m_learnedInfo'[s][h] = m_learnedInfo[s][h]
    BY <1>1, <1>3, <1>4 DEF FlowsTo, Known
  <2>6. FlowPorts(s, h)' \subseteq FlowPorts(s, h) \cup (IF h = msg.dst THEN {msg.port} ELSE {})
    BY <1>3, <2>5 DEF FlowPorts
  <2>7. (FlowPorts(s, h) \cup DownPorts(s, h) \cup UpPorts(s, h))' \subseteq
          FlowPorts(s, h) \cup DownPorts(s, h) \cup UpPorts(s, h)
    BY <2>3, <2>4, <2>6
  <2>8. Total(s, h)' = Total(s, h)
    <3>1. CASE h # msg.dst
      <4>1. FlowsTo(s, h)' = FlowsTo(s, h) \ R BY <2>5, <3>1
      <4>2. Cardinality(InDown(s, h)) = Cardinality(InDown(s, h)') BY <2>3, <3>1
      <4>3. Cardinality(FlowsTo(s, h)') = Cardinality(FlowsTo(s, h) \ R) BY <4>1
      <4>4. QED BY <2>1, <2>3, <2>4, <4>2, <4>3 DEF Total
    <3>2. CASE h = msg.dst
      <4>1. Cardinality(InDown(s, h)) = Cardinality(InDown(s, h)') + 1 BY <2>3, <3>2
      <4>2. Total(s, h) <= 1 BY <1>5, <1>7 DEF Account
      <4>3. Cardinality(FlowsTo(s, h)) = 0 BY <2>1, <2>3, <4>1, <4>2 DEF Total
      <4>4. FlowsTo(s, h) = {} BY <4>3, NothingThere
      <4>5. FlowsTo(s, h) \ R = {} /\ new \notin {} BY <4>4
      <4>6. FlowsTo(s, h)' = {new} BY <2>5, <3>2, <4>5
      <4>7. Cardinality(FlowsTo(s, h)') = 1 /\ Cardinality(FlowsTo(s, h) \ R) = 0
        BY <4>5, <4>6, FS_Singleton, FS_EmptySet
      <4>8. QED BY <2>1, <2>3, <2>4, <4>1, <4>3, <4>7 DEF Total
    <3>3. QED BY <3>1, <3>2
  <2>9. QED BY <1>5, <1>7, <2>5, <2>7, <2>8 DEF Account
<1>8. QED BY <1>6, <1>7

LEMMA NextAccounts == Types /\ Accounts /\ [Next]_vars => Accounts'
<1> SUFFICES ASSUME Types, Accounts, [Next]_vars PROVE Accounts' OBVIOUS
<1>1. ASSUME UNCHANGED <<m_learnedInfo, flows, up, down>> PROVE Accounts'
  <2>1. SUFFICES ASSUME NEW s \in Switches, NEW h \in Hosts PROVE Account(s, h)'
    BY DEF Accounts
  <2>2. Account(s, h) BY DEF Accounts
  <2>3. QED BY <1>1, <2>2, Elsewhere
<1>2. CASE UNCHANGED vars BY <1>1, <1>2 DEF vars
<1>3. ASSUME NEW s \in Switches, Receive(s) PROVE Accounts'
  BY <1>3, ReceiveCases, InstallsAccounts, SendsOutAccounts
<1>4. ASSUME NEW s \in Switches, HandlePacketIn(s) \/ HandleFlowRemoved(s) PROVE Accounts'
  BY <1>4, HandlePacketInAccounts, HandleFlowRemovedAccounts
<1>5. ASSUME NEW f \in frames, Arrive(f) PROVE Accounts'
  <2>1. f \in Frame BY DEF Types
  <2>2. f.switch \in Switches BY <2>1, FrameFields
  <2>3. QED BY <1>5, <2>1, <2>2, MatchAccounts DEF Arrive
<1>6. ASSUME NEW p \in Packets, Send(p) PROVE Accounts'
  <2>1. at[Src[p]] \in Switches /\ [packet |-> p, switch |-> at[Src[p]], in_port |-> Src[p]] \in Frame
    BY SentFrame
  <2>2. QED BY <1>6, <2>1, MatchAccounts DEF Send
<1>7. ASSUME NEW s \in Switches, NEW f \in flows[s], IdleOut(s, f) PROVE Accounts'
  BY <1>7, IdleOutAccounts
<1>8. ASSUME NEW s \in Switches, NEW h \in Hosts, Move(h, s) PROVE Accounts'
  BY <1>1, <1>8 DEF Move
<1>9. QED BY <1>2, <1>3, <1>4, <1>5, <1>6, <1>7, <1>8 DEF Next, Event

LEMMA InitAccounts == Init => Accounts
<1> SUFFICES ASSUME Init, NEW s \in Switches, NEW h \in Hosts PROVE Account(s, h)
  BY DEF Accounts
<1>1. /\ flows[s] = {} /\ up[s] = <<>> /\ down[s] = <<>> /\ m_learnedInfo[s] = <<>> BY DEF Init
<1>2. Known(s) = {} BY <1>1 DEF Known
<1>3. FlowsTo(s, h) = {} /\ InDown(s, h) = {} /\ InUp(s, h) = {}
  BY <1>1 DEF FlowsTo, InDown, InUp
<1>4. FlowPorts(s, h) = {} /\ DownPorts(s, h) = {} /\ UpPorts(s, h) = {}
  BY <1>3 DEF FlowPorts, DownPorts, UpPorts
<1>5. Total(s, h) = 0 BY <1>3, FS_EmptySet DEF Total
<1>6. QED BY <1>2, <1>4, <1>5 DEF Account

\* OneAccount: the L2 table and the switch agree, whatever is under way, whatever
\* flows idle out or are evicted, and wherever the hosts move.
THEOREM OneAccountHolds == Spec => []OneAccount
<1>1. Accounts => OneAccount
  BY DEF Accounts, Account, Total, FlowPorts, DownPorts, UpPorts, OneAccount
<1>2. QED BY <1>1, InitTypes, NextTypes, InitAccounts, NextAccounts, PTL DEF Spec

-----------------------------------------------------------------------------
(* The ways along the tree *)

Toward == CHOOSE toward \in [Switches \X Switches -> Switches] : Leads(toward)

\* The port of switch s on the way to host h.
Way(s, h) == IF at[h] = s THEN h ELSE Toward[<<s, at[h]>>]

\* A frame that is at switch s came in by the way back to its source.
CameRight(s, f) == f.in_port = Way(s, Src[f.packet])

\* A message between the controller and switch s about such a frame.
RightMessage(s, m) ==
  /\ m.type \in {"PACKET_IN", "PACKET_OUT"} => CameRight(s, m.frame)
  /\ m.type = "PACKET_OUT" => m.port \in Ports(s) \cup {FLOOD}

AllRight ==
  /\ ~aborted
  /\ \A s \in Switches : \A h \in Known(s) : m_learnedInfo[s][h] = Way(s, h)
  /\ \A f \in frames : CameRight(f.switch, f)
  /\ \A s \in Switches : \A k \in DOMAIN up[s] : RightMessage(s, up[s][k])
  /\ \A s \in Switches : \A k \in DOMAIN down[s] : RightMessage(s, down[s][k])

WaysRight == moves \in Nat /\ (moves = 0 => AllRight)

LEMMA TowardLeads == Toward \in [Switches \X Switches -> Switches] /\ Leads(Toward)
BY NetworkAssumption DEF Toward, IsTree

\* The way is a port of the switch; only the last one is a host.
LEMMA WayIsPort ==
  ASSUME Types, NEW s \in Switches, NEW h \in Hosts
  PROVE  Way(s, h) \in Ports(s) /\ (Way(s, h) \in Hosts => Way(s, h) = h)
<1>1. at[h] \in Switches BY DEF Types
<1>2. CASE at[h] = s BY <1>2 DEF Way, Ports, HostsAt
<1>3. CASE at[h] # s
  <2>1. Toward[<<s, at[h]>>] \in Neighbours(s) BY <1>1, <1>3, TowardLeads DEF Leads
  <2>2. Toward[<<s, at[h]>>] \notin Hosts BY <2>1, NetworkAssumption DEF Neighbours
  <2>3. QED BY <1>3, <2>1, <2>2 DEF Way, Ports
<1>4. QED BY <1>2, <1>3

\* What a switch sends to a neighbour that is not on the way to h has the switch
\* itself on its way to h from there.
LEMMA WayBack ==
  ASSUME Types, NEW s \in Switches, NEW h \in Hosts, NEW t \in Neighbours(s), t # Way(s, h)
  PROVE  Way(t, h) = s
<1>1. at[h] \in Switches /\ t \in Switches BY DEF Types, Neighbours
<1>2. (s # at[h] /\ Toward[<<s, at[h]>>] = t) <=> ~(t # at[h] /\ Toward[<<t, at[h]>>] = s)
  BY <1>1, TowardLeads DEF Leads
<1>3. ~(s # at[h] /\ Toward[<<s, at[h]>>] = t) BY DEF Way
<1>4. QED BY <1>2, <1>3 DEF Way

\* As long as no host moves, so do the ways not change.
LEMMA WaysKept ==
  ASSUME UNCHANGED at
  PROVE  /\ \A s, h : Way(s, h)' = Way(s, h)
         /\ \A s : Ports(s)' = Ports(s)
         /\ \A s, f : CameRight(s, f)' <=> CameRight(s, f)
         /\ \A s, m : RightMessage(s, m)' <=> RightMessage(s, m)
BY DEF Way, Ports, HostsAt, Neighbours, CameRight, RightMessage

\* A switch sends on only frames that come right where they go.
LEMMA ForwardRight ==
  ASSUME Types, AllRight, NEW s \in Switches, NEW f \in Frame, CameRight(s, f),
         NEW port \in Ports(s) \cup {FLOOD}, Forward(s, f, OutPorts(s, f, port))
  PROVE  \A g \in frames' : CameRight(g.switch, g)
<1>1. Src[f.packet] \in Hosts BY FrameFields
<1>2. OutPorts(s, f, port) \subseteq Ports(s) \ {f.in_port} BY DEF OutPorts
<1>3. ASSUME NEW t \in OutPorts(s, f, port) \cap Switches
      PROVE  s = Way(t, Src[f.packet])
  <2>1. t \in Neighbours(s) BY <1>2, NetworkAssumption DEF Ports, HostsAt
  <2>2. t # Way(s, Src[f.packet]) BY <1>2 DEF CameRight
  <2>3. QED BY <1>1, <2>1, <2>2, WayBack
<1>4. ASSUME NEW t \in OutPorts(s, f, port) \cap Switches,
             NEW g, g = [packet |-> f.packet, switch |-> t, in_port |-> s]
      PROVE  CameRight(g.switch, g)
  BY <1>3, <1>4 DEF CameRight
<1>5. \A g \in frames' : g \in frames \/ \E t \in OutPorts(s, f, port) \cap Switches :
                           g = [packet |-> f.packet, switch |-> t, in_port |-> s]
  BY DEF Forward
<1>6. QED BY <1>4, <1>5 DEF AllRight

\* The ports of the flows are ways, by the accounts.
LEMMA FlowsRight ==
  ASSUME Types, Accounts, AllRight, NEW s \in Switches, NEW f \in flows[s]
  PROVE  f.port \in Ports(s)
<1>1. f.dst \in Hosts /\ Account(s, f.dst) BY DEF Types, Flow, Accounts
<1>2. f \in FlowsTo(s, f.dst) /\ f.port \in FlowPorts(s, f.dst) BY DEF FlowsTo, FlowPorts
<1>3. Cardinality(FlowsTo(s, f.dst)) # 0 BY <1>2, NothingThere
<1>4. /\ Cardinality(FlowsTo(s, f.dst)) \in Nat /\ Cardinality(InDown(s, f.dst)) \in Nat
      /\ Cardinality(InUp(s, f.dst)) \in Nat
  BY Countable
<1>5. Total(s, f.dst) # 0 BY <1>3, <1>4 DEF Total
<1>6. f.dst \in Known(s) /\ f.port = m_learnedInfo[s][f.dst] BY <1>1, <1>2, <1>5 DEF Account
<1>7. QED BY <1>1, <1>6, WayIsPort DEF AllRight

LEMMA MatchRight ==
  ASSUME Types, Accounts, AllRight, NEW s \in Switches, NEW f \in Frame, CameRight(s, f),
         Match(s, f), UNCHANGED <<m_learnedInfo, down, at, aborted>>
  PROVE  AllRight'
<1>1. \A g \in frames' : CameRight(g.switch, g)
  <2>1. ASSUME NEW flow \in flows[s], Forward(s, f, OutPorts(s, f, flow.port))
        PROVE  \A g \in frames' : CameRight(g.switch, g)
    BY <2>1, FlowsRight, ForwardRight
  <2>2. CASE frames' = frames \ {f} BY <2>2 DEF AllRight
  <2>3. QED BY <2>1, <2>2 DEF Match
<1>2. \A t \in Switches : \A k \in DOMAIN up'[t] : RightMessage(t, up'[t][k])
  <2>1. CASE up' = up BY <2>1 DEF AllRight
  <2>2. CASE up' = [up EXCEPT ![s] = Append(@, PacketIn(f))]
    <3>1. RightMessage(s, PacketIn(f)) BY DEF RightMessage, PacketIn
    <3> HIDE DEF RightMessage
    <3>2. ASSUME NEW t \in Switches, NEW k \in DOMAIN up'[t] PROVE RightMessage(t, up'[t][k])
      <4>1. up[t] \in Seq(Message) BY DEF Types
      <4>2. CASE t # s BY <2>2, <4>2 DEF Types, AllRight
      <4>3. CASE t = s
        <5>1. up'[s] = Append(up[s], PacketIn(f)) BY <2>2 DEF Types
        <5>2. \/ k \in DOMAIN up[s] /\ up'[s][k] = up[s][k]
              \/ up'[s][k] = PacketIn(f)
          BY <4>1, <4>3, <5>1
        <5>3. QED BY <3>1, <4>3, <5>2 DEF AllRight
      <4>4. QED BY <4>2, <4>3
    <3>3. QED BY <3>2
  <2>3. QED BY <2>1, <2>2, MatchShape
<1>3. QED BY <1>1, <1>2, WaysKept DEF AllRight, Known

LEMMA HandlePacketInRight ==
  ASSUME Types, AllRight, NEW s \in Switches, HandlePacketIn(s)
  PROVE  AllRight'
<1> DEFINE f == Head(up[s]).frame
           h == Src[f.packet]
<1>1. /\ up[s] \in Seq(Message) /\ down[s] \in Seq(Message)
      /\ up[s] # <<>> /\ Head(up[s]).type = "PACKET_IN"
  BY DEF Types, HandlePacketIn
<1>2. f \in Frame BY <1>1, FirstMessage, MessageFields
<1>3. CameRight(s, f)
  <2>1. 1 \in DOMAIN up[s] /\ Head(up[s]) = up[s][1] BY <1>1
  <2>2. RightMessage(s, Head(up[s])) BY <2>1 DEF AllRight
  <2>3. QED BY <1>1, <2>2 DEF RightMessage
<1>4. /\ up' = [up EXCEPT ![s] = Tail(@)] /\ UNCHANGED <<frames, at>>
      /\ \/ h \in Known(s) /\ m_learnedInfo[s][h] # f.in_port
         \/ /\ m_learnedInfo' = [m_learnedInfo EXCEPT ![s] = Learned(s, f)]
            /\ down' = [down EXCEPT ![s] = Answered(s, f)]
            /\ UNCHANGED aborted
  BY DEF HandlePacketIn, Answered
<1>5. h \in Known(s) => m_learnedInfo[s][h] = f.in_port BY <1>3 DEF AllRight, CameRight
<1>6. h \in Hosts BY <1>2, FrameFields
<1> HIDE DEF f
<1>7. \A t \in Switches : \A k \in Known(t)' : m_learnedInfo'[t][k] = Way(t, k)
  <2>1. \A k \in DOMAIN Learned(s, f) : Learned(s, f)[k] = Way(s, k)
    BY <1>3 DEF Learned, AllRight, CameRight
  <2>2. m_learnedInfo' = [m_learnedInfo EXCEPT ![s] = Learned(s, f)] BY <1>4, <1>5
  <2>3. ASSUME NEW t \in Switches, NEW k \in Known(t)' PROVE m_learnedInfo'[t][k] = Way(t, k)
    <3>1. CASE t = s
      <4>1. m_learnedInfo'[s] = Learned(s, f) BY <2>2 DEF Types
      <4>2. QED BY <2>1, <2>3, <3>1, <4>1 DEF Known
    <3>2. CASE t # s
      <4>1. m_learnedInfo'[t] = m_learnedInfo[t] BY <2>2, <3>2 DEF Types
      <4>2. QED BY <2>3, <4>1 DEF Known, AllRight
    <3>3. QED BY <3>1, <3>2
  <2>4. QED BY <2>3
<1>8. ASSUME NEW t \in Switches, NEW k \in DOMAIN up'[t] PROVE RightMessage(t, up'[t][k])
  <2>1. CASE t # s BY <1>4, <1>8, <2>1 DEF Types, AllRight
  <2>2. CASE t = s
    <3>1. up'[s] = Tail(up[s]) BY <1>4 DEF Types
    <3>2. k + 1 \in DOMAIN up[s] /\ up'[s][k] = up[s][k + 1] BY <1>1, <1>8, <2>2, <3>1
    <3>3. QED BY <2>2, <3>2 DEF AllRight
  <2>3. QED BY <2>1, <2>2
<1>9. ASSUME NEW t \in Switches, NEW k \in DOMAIN down'[t] PROVE RightMessage(t, down'[t][k])
  <2>1. CASE t # s BY <1>4, <1>5, <1>9, <2>1 DEF Types, AllRight
  <2>2. CASE t = s
    <3> DEFINE mod == FlowMod(h, f.in_port)
               packetOut == PacketOut(f, OutPort(s, f.packet))
    <3>1. down'[s] = Answered(s, f) BY <1>4, <1>5 DEF Types
    <3>2. RightMessage(s, mod) BY DEF RightMessage, FlowMod
    <3>3. OutPort(s, f.packet) \in Ports(s) \cup {FLOOD}
      <4>1. \A j \in Known(s) : m_learnedInfo[s][j] \in Ports(s) BY WayIsPort DEF AllRight, Types
      <4>2. QED BY <4>1 DEF OutPort
    <3>4. RightMessage(s, packetOut) BY <1>3, <3>3 DEF RightMessage, PacketOut
    <3>5. mod \in Message BY <1>2, FrameFields, MessagesMade
    <3>6. /\ packetOut \in Message
          /\ Answered(s, f) = Append(IF h \in Known(s) THEN down[s] ELSE Append(down[s], mod), packetOut)
      BY <1>2, AnsweredShape
    <3> HIDE DEF mod, packetOut
    <3>7. \/ k \in DOMAIN down[s] /\ down'[s][k] = down[s][k]
          \/ down'[s][k] = mod \/ down'[s][k] = packetOut
      <4>1. CASE h \in Known(s)
        <5>1. down'[s] = Append(down[s], packetOut) BY <3>1, <3>6, <4>1
        <5>2. QED BY <1>1, <1>9, <2>2, <5>1
      <4>2. CASE h \notin Known(s)
        <5>1. down'[s] = Append(Append(down[s], mod), packetOut) BY <3>1, <3>6, <4>2
        <5>2. QED BY <1>1, <1>9, <2>2, <3>5, <5>1
      <4>3. QED BY <4>1, <4>2
    <3>8. QED BY <2>2, <3>2, <3>4, <3>7 DEF AllRight
  <2>3. QED BY <2>1, <2>2
<1>10. QED BY <1>4, <1>5, <1>7, <1>8, <1>9, WaysKept DEF AllRight

LEMMA HandleFlowRemovedRight ==
  ASSUME Types, AllRight, NEW s \in Switches, HandleFlowRemoved(s)
  PROVE  AllRight'
<1>1. up[s] \in Seq(Message) /\ up[s] # <<>> BY DEF Types, HandleFlowRemoved
<1>2. /\ up' = [up EXCEPT ![s] = Tail(@)] /\ UNCHANGED <<down, frames, at, aborted>>
      /\ m_learnedInfo' = [m_learnedInfo EXCEPT ![s] = Forget(s, Head(up[s]).dst)]
  BY DEF HandleFlowRemoved
<1>3. \A t \in Switches : \A k \in Known(t)' : m_learnedInfo'[t][k] = Way(t, k)
  BY <1>2 DEF Types, AllRight, Known, Forget
<1>4. ASSUME NEW t \in Switches, NEW k \in DOMAIN up'[t] PROVE RightMessage(t, up'[t][k])
  <2>1. CASE t # s BY <1>2, <1>4, <2>1 DEF Types, AllRight
  <2>2. CASE t = s
    <3>1. up'[s] = Tail(up[s]) BY <1>2 DEF Types
    <3>2. k + 1 \in DOMAIN up[s] /\ up'[s][k] = up[s][k + 1] BY <1>1, <1>4, <2>2, <3>1
    <3>3. QED BY <2>2, <3>2 DEF AllRight
  <2>3. QED BY <2>1, <2>2
<1>5. QED BY <1>2, <1>3, <1>4, WaysKept DEF AllRight

LEMMA ReceiveRight ==
  ASSUME Types, Accounts, AllRight, NEW s \in Switches, Receive(s)
  PROVE  AllRight'
<1>1. /\ down[s] \in Seq(Message) /\ down[s] # <<>> /\ down' = [down EXCEPT ![s] = Tail(@)]
      /\ UNCHANGED <<m_learnedInfo, at, aborted>>
  BY ReceiveCases DEF Types
<1>2. ASSUME NEW t \in Switches, NEW k \in DOMAIN down'[t] PROVE RightMessage(t, down'[t][k])
  <2>1. CASE t # s BY <1>1, <1>2, <2>1 DEF Types, AllRight
  <2>2. CASE t = s
    <3>1. down'[s] = Tail(down[s]) BY <1>1 DEF Types
    <3>2. k \in DOMAIN Tail(down[s]) BY <1>2, <2>2, <3>1
    <3>3. down[s] \in Seq(Message) /\ down[s] # <<>> BY <1>1
    <3>4. k + 1 \in DOMAIN down[s] /\ Tail(down[s])[k] = down[s][k + 1] BY <3>2, <3>3
    <3>5. QED BY <2>2, <3>1, <3>4 DEF AllRight
  <2>3. QED BY <2>1, <2>2
<1>3. ASSUME NEW R \in Evictions(s), Installs(s, R) PROVE AllRight'
  <2>1. up' = [up EXCEPT ![s] = Removed(s, R)] /\ frames' = frames BY <1>3 DEF Installs
  <2>2. ASSUME NEW t \in Switches, NEW k \in DOMAIN up'[t] PROVE RightMessage(t, up'[t][k])
    <3>1. CASE t # s BY <2>1, <2>2, <3>1 DEF Types, AllRight
    <3>2. CASE t = s
      <4>1. up[s] \in Seq(Message) /\ up'[s] = Removed(s, R) BY <2>1 DEF Types
      <4>2. CASE Removed(s, R) = up[s] BY <2>2, <3>2, <4>1, <4>2 DEF AllRight
      <4>3. ASSUME NEW f \in flows[s], Removed(s, R) = Append(up[s], FlowRemoved(f))
            PROVE  RightMessage(s, up'[s][k])
        <5>1. RightMessage(s, FlowRemoved(f)) BY DEF RightMessage, FlowRemoved
        <5>2. \/ k \in DOMAIN up[s] /\ up'[s][k] = up[s][k]
              \/ up'[s][k] = FlowRemoved(f)
          BY <2>2, <3>2, <4>1, <4>3
        <5>3. QED BY <5>1, <5>2 DEF AllRight
      <4>4. QED BY <3>2, <4>2, <4>3, RemovedShape
    <3>3. QED BY <3>1, <3>2
  <2>3. QED BY <1>1, <1>2, <2>1, <2>2, WaysKept DEF AllRight, Known
<1>4. CASE SendsOut(s)
  <2> DEFINE msg == Head(down[s])
  <2>1. msg.type = "PACKET_OUT" /\ Forward(s, msg.frame, OutPorts(s, msg.frame, msg.port)) /\ up' = up
    BY <1>4 DEF SendsOut
  <2>2. RightMessage(s, msg)
    <3>1. 1 \in DOMAIN down[s] /\ msg = down[s][1] BY <1>1
    <3>2. QED BY <3>1 DEF AllRight
  <2>3. msg.frame \in Frame BY <1>1, <2>1, FirstMessage, MessageFields
  <2>4. CameRight(s, msg.frame) /\ msg.port \in Ports(s) \cup {FLOOD} BY <2>1, <2>2 DEF RightMessage
  <2> HIDE DEF msg
  <2>5. \A g \in frames' : CameRight(g.switch, g) BY <2>1, <2>3, <2>4, ForwardRight
  <2>6. QED BY <1>1, <1>2, <2>1, <2>5, WaysKept DEF AllRight, Known
<1>5. QED BY <1>3, <1>4, ReceiveCases

LEMMA IdleOutRight ==
  ASSUME Types, AllRight, NEW s \in Switches, NEW f \in flows[s], IdleOut(s, f)
  PROVE  AllRight'
<1>1. /\ up' = [up EXCEPT ![s] = Append(@, FlowRemoved(f))]
      /\ UNCHANGED <<m_learnedInfo, down, frames, at, aborted>>
  BY DEF IdleOut
<1>2. ASSUME NEW t \in Switches, NEW k \in DOMAIN up'[t] PROVE RightMessage(t, up'[t][k])
  <2>1. CASE t # s BY <1>1, <1>2, <2>1 DEF Types, AllRight
  <2>2. CASE t = s
    <3>1. up[s] \in Seq(Message) /\ up'[s] = Append(up[s], FlowRemoved(f)) BY <1>1 DEF Types
    <3>2. RightMessage(s, FlowRemoved(f)) BY DEF RightMessage, FlowRemoved
    <3>3. \/ k \in DOMAIN up[s] /\ up'[s][k] = up[s][k]
          \/ up'[s][k] = FlowRemoved(f)
      BY <1>2, <2>2, <3>1
    <3>4. QED BY <2>2, <3>2, <3>3 DEF AllRight
  <2>3. QED BY <2>1, <2>2
<1>3. QED BY <1>1, <1>2, WaysKept DEF AllRight, Known

LEMMA NextRight == Types /\ Accounts /\ WaysRight /\ [Next]_vars => WaysRight'
<1> SUFFICES ASSUME Types, Accounts, WaysRight, [Next]_vars PROVE WaysRight' OBVIOUS
<1>1. ASSUME NEW s \in Switches, NEW h \in Hosts, Move(h, s) PROVE WaysRight'
  BY <1>1 DEF Move, WaysRight
<1>2. CASE UNCHANGED vars
  <2>1. AllRight => AllRight' BY <1>2, WaysKept DEF vars, AllRight, Known
  <2>2. QED BY <1>2, <2>1 DEF vars, WaysRight
<1>3. SUFFICES ASSUME UNCHANGED moves, AllRight,
                      \/ \E s \in Switches : HandlePacketIn(s) \/ HandleFlowRemoved(s) \/ Receive(s)
                      \/ \E f \in frames : Arrive(f)
                      \/ \E p \in Packets : Send(p)
                      \/ \E s \in Switches : \E f \in flows[s] : IdleOut(s, f)
               PROVE  AllRight'
  <2>1. UNCHANGED moves \/ (\E s \in Switches, h \in Hosts : Move(h, s)) \/ UNCHANGED vars
    BY DEF Next, Event, HandlePacketIn, HandleFlowRemoved, Receive, Arrive, Send, IdleOut
  <2>2. QED BY <1>1, <1>2, <1>3, <2>1 DEF WaysRight, Next, Event
<1>4. ASSUME NEW f \in frames, Arrive(f) PROVE AllRight'
  <2>1. f \in Frame /\ CameRight(f.switch, f) BY <1>3 DEF Types, AllRight
  <2>2. f.switch \in Switches BY <2>1, FrameFields
  <2>3. QED BY <1>3, <1>4, <2>1, <2>2, MatchRight DEF Arrive
<1>5. ASSUME NEW p \in Packets, Send(p) PROVE AllRight'
  <2> DEFINE f == [packet |-> p, switch |-> at[Src[p]], in_port |-> Src[p]]
  <2>1. at[Src[p]] \in Switches /\ f \in Frame BY SentFrame
  <2>2. CameRight(at[Src[p]], f) BY DEF CameRight, Way
  <2> HIDE DEF f
  <2>3. Match(at[Src[p]], f) /\ UNCHANGED <<m_learnedInfo, down, at, aborted>>
    BY <1>5 DEF Send, f
  <2>4. QED BY <1>3, <2>1, <2>2, <2>3, MatchRight
<1>6. QED BY <1>3, <1>4, <1>5, HandlePacketInRight, HandleFlowRemovedRight, ReceiveRight, IdleOutRight

LEMMA InitRight == Init => WaysRight
<1> SUFFICES ASSUME Init PROVE WaysRight OBVIOUS
<1>1. \A s \in Switches : DOMAIN m_learnedInfo[s] = {} /\ DOMAIN up[s] = {} /\ DOMAIN down[s] = {}
  BY DEF Init
<1>2. QED BY <1>1 DEF Init, WaysRight, AllRight, Known

\* LearnedIsRight: while no host moves, every port the controller has learned is
\* the one towards the host, and it never aborts.
THEOREM LearnedIsRightHolds == Spec => []LearnedIsRight
<1>1. Types /\ WaysRight => LearnedIsRight
  <2> SUFFICES ASSUME Types, AllRight
               PROVE  /\ ~aborted
                      /\ \A s \in Switches : \A h \in Known(s) :
                           /\ h \in Hosts /\ m_learnedInfo[s][h] \in Ports(s)
                           /\ at[h] = s => m_learnedInfo[s][h] = h
                           /\ m_learnedInfo[s][h] \in Hosts => m_learnedInfo[s][h] = h
    BY DEF WaysRight, LearnedIsRight
  <2>1. ASSUME NEW s \in Switches, NEW h \in Known(s)
        PROVE  /\ h \in Hosts /\ m_learnedInfo[s][h] \in Ports(s)
               /\ at[h] = s => m_learnedInfo[s][h] = h
               /\ m_learnedInfo[s][h] \in Hosts => m_learnedInfo[s][h] = h
    <3>1. h \in Hosts /\ m_learnedInfo[s][h] = Way(s, h) BY DEF Types, AllRight
    <3>2. at[h] = s => Way(s, h) = h BY DEF Way
    <3>3. QED BY <3>1, <3>2, WayIsPort
  <2>2. QED BY <2>1 DEF AllRight
<1>2. QED BY <1>1, InitTypes, NextTypes, InitAccounts, NextAccounts, InitRight, NextRight, PTL DEF Spec

-----------------------------------------------------------------------------
(* The routes of the Dijkstra controller: what they cost *)

\* The costs along a route r of the topology t.
Sums(t, r, c) ==
  /\ c \in [1..Len(r) -> Nat]
  /\ \A k \in 1..Len(r) : c[k] = IF k = 1 THEN 0 ELSE c[k - 1] + t[r[k - 1]][r[k]]

Weights == [Vertices -> [Vertices -> Nat]]

\* The cost of a route is the last of its sums.
LEMMA CostIs ==
  ASSUME NEW t \in Weights, NEW r \in Seq(Vertices), r # <<>>
  PROVE  \E c : Sums(t, r, c) /\ Cost(t, r) = c[Len(r)]
<1> DEFINE n == Len(r)
           d == [k \in 2..n |-> t[r[k - 1]][r[k]]]
           Next1(f) == [k \in 1..n |-> IF k = 1 THEN 0 ELSE f[k - 1] + t[r[k - 1]][r[k]]]
           sum == CHOOSE f : f = Next1(f)
<1>1. n \in Nat /\ n > 0 OBVIOUS
<1>2. \A k \in 2..n : d[k] \in Nat
  <2>1. SUFFICES ASSUME NEW k \in 2..n PROVE d[k] \in Nat OBVIOUS
  <2>2. k - 1 \in 1..n /\ k \in 1..n OBVIOUS
  <2>3. r[k - 1] \in Vertices /\ r[k] \in Vertices BY <2>2
  <2>4. QED BY <2>3 DEF Weights
<1>3. \A k \in 2..n : d[k] = t[r[k - 1]][r[k]] OBVIOUS
<1> HIDE DEF d
<1>4. PICK c \in [1..n -> Nat] : \A k \in 1..n : c[k] = IF k = 1 THEN 0 ELSE c[k - 1] + d[k]
  <2> HIDE DEF n, Next1, sum
  <2>1. n \in Nat BY <1>1
  <2>2. Summands(n, d) BY <1>2 DEF Summands
  <2>3. PICK c : SumsOf(n, d, c) BY <2>1, <2>2, SumsExist
  <2>4. QED BY <2>3 DEF SumsOf
<1>5. \A k \in 1..n : c[k] = IF k = 1 THEN 0 ELSE c[k - 1] + t[r[k - 1]][r[k]]
  <2>1. \A k \in 1..n : k = 1 \/ k \in 2..n OBVIOUS
  <2> HIDE DEF n
  <2>2. QED BY <1>3, <1>4, <2>1
<1>6. c = Next1(c)
  <2> HIDE DEF n
  <2>1. QED BY <1>4, <1>5
<1>7. sum = Next1(sum)
  <2> HIDE DEF Next1
  <2>1. QED BY <1>6
<1>8. Cost(t, r) = sum[n] BY DEF Cost
<1> HIDE DEF sum
<1>9. \A k \in 1..n : sum[k] = IF k = 1 THEN 0 ELSE sum[k - 1] + t[r[k - 1]][r[k]]
  <2> HIDE DEF n
  <2>1. QED BY <1>7
<1> HIDE DEF n, Next1
<1>10. \A k \in 1..n : sum[k] = c[k]
  <2> DEFINE K == {k \in 1..n : sum[k] = c[k]}
  <2>1. 1 \in K BY <1>1, <1>5, <1>9
  <2>2. ASSUME NEW k \in 1..(n - 1), k \in K PROVE k + 1 \in K
    <3>1. k + 1 \in 1..n /\ k + 1 # 1 /\ k + 1 - 1 = k BY <1>1
    <3>2. sum[k + 1] = sum[k] + t[r[k]][r[k + 1]] BY <1>9, <3>1
    <3>3. c[k + 1] = c[k] + t[r[k]][r[k + 1]] BY <1>5, <3>1
    <3>4. QED BY <2>2, <3>1, <3>2, <3>3
  <2> HIDE DEF K
  <2>3. \A k \in 1..n : k \in K BY <1>1, <2>1, <2>2, Climb
  <2>4. QED BY <2>3 DEF K
<1>11. Sums(t, r, c) BY <1>5 DEF Sums, n
<1>12. Cost(t, r) = c[Len(r)] BY <1>1, <1>8, <1>10 DEF n
<1>13. QED BY <1>11, <1>12

\* The costs grow along a route, and by at most the greatest weight a link.
LEMMA SumsBound ==
  ASSUME NEW r \in Seq(Vertices), NEW most \in Nat, NEW t \in [Vertices -> [Vertices -> 0..most]],
         NEW c, Sums(t, r, c), r # <<>>, Len(r) <= V
  PROVE  \A k \in 1..Len(r) : c[k] <= V * most
<1> DEFINE n == Len(r)
           B(k) == (k - 1) * most
           K == {k \in 1..n : c[k] <= B(k)}
<1>1. n \in Nat /\ n > 0 OBVIOUS
<1>2. c \in [1..n -> Nat] /\ \A k \in 1..n : c[k] = IF k = 1 THEN 0 ELSE c[k - 1] + t[r[k - 1]][r[k]]
  BY DEF Sums
<1>10. \A k \in 1..n : r[k] \in Vertices OBVIOUS
<1>3. ASSUME NEW k \in 1..(n - 1) PROVE B(k + 1) = B(k) + most /\ B(k) \in Nat
  <2>1. PICK i \in Nat : k = i + 1 OBVIOUS
  <2>2. B(k + 1) = (i + 1) * most /\ B(k) = i * most BY <2>1
  <2>3. QED BY <2>2
<1>4. 1 \in K
  <2>1. c[1] = 0 /\ 1 \in 1..n BY <1>1, <1>2
  <2>2. B(1) = 0 OBVIOUS
  <2> HIDE DEF B, n
  <2>3. QED BY <2>1, <2>2
<1>5. ASSUME NEW k \in 1..(n - 1), k \in K PROVE k + 1 \in K
  <2>1. k \in 1..n /\ k + 1 \in 1..n /\ k + 1 # 1 /\ k + 1 - 1 = k BY <1>1
  <2>2. r[k] \in Vertices /\ r[k + 1] \in Vertices BY <1>10, <2>1
  <2>3. t[r[k]][r[k + 1]] \in 0..most BY <2>2
  <2> HIDE DEF n
  <2>4. c[k + 1] = c[k] + t[r[k]][r[k + 1]] BY <1>2, <2>1
  <2>5. c[k] <= B(k) BY <1>5
  <2>6. B(k + 1) = B(k) + most /\ B(k) \in Nat BY <1>3
  <2>7. c[k] \in Nat BY <1>2, <2>1
  <2> HIDE DEF B
  <2>8. c[k + 1] <= B(k + 1)
    <3>1. ASSUME NEW x \in Nat, NEW y \in Nat, NEW w \in 0..most, x <= y
          PROVE  x + w <= y + most
      BY <3>1
    <3>2. c[k] + t[r[k]][r[k + 1]] <= B(k) + most BY <2>3, <2>5, <2>6, <2>7, <3>1
    <3>3. QED BY <2>4, <2>6, <3>2
  <2>9. QED BY <2>1, <2>8
<1> HIDE DEF K
<1>6. \A k \in 1..n : k \in K
  <2> HIDE DEF n
  <2>1. QED BY <1>1, <1>4, <1>5, Climb
<1>7. ASSUME NEW k \in 1..n PROVE B(k) <= V * most
  <2>1. PICK d \in Nat : V = (k - 1) + d
    <3>1. V \in Nat /\ k - 1 \in Nat /\ k - 1 <= V BY <1>1, VAssumption
    <3>2. V - (k - 1) \in Nat /\ V = (k - 1) + (V - (k - 1)) BY <3>1
    <3>3. QED BY <3>2
  <2>2. V * most = (k - 1) * most + d * most
    <3>1. PICK i \in Nat : i = k - 1 OBVIOUS
    <3>2. V = i + d BY <2>1, <3>1
    <3>3. V * most = i * most + d * most BY <3>2
    <3>4. QED BY <3>1, <3>3
  <2>3. (k - 1) * most \in Nat /\ d * most \in Nat
    <3>1. k - 1 \in Nat OBVIOUS
    <3>2. QED BY <3>1
  <2>4. QED BY <2>2, <2>3
<1>8. ASSUME NEW k \in 1..n PROVE c[k] <= V * most
  <2>1. c[k] <= B(k) /\ c[k] \in Nat BY <1>6, <1>2 DEF K
  <2>2. B(k) <= V * most BY <1>7
  <2>3. B(k) \in Int /\ V * most \in Int BY VAssumption
  <2> HIDE DEF B, n
  <2>4. QED BY <2>1, <2>2, <2>3
<1>9. QED BY <1>8

-----------------------------------------------------------------------------
(* Ways and their reversals *)

\* The places of a way, and its length.
LEMMA WayShape ==
  ASSUME NEW t, NEW a \in Vertices, NEW b \in Vertices, NEW r \in Ways(t, a, b)
  PROVE  /\ r \in Seq(Vertices) /\ r # <<>> /\ Len(r) \in 1..V
         /\ r[1] = a /\ r[Len(r)] = b
         /\ \A k \in 1..(Len(r) - 1) : t[r[k]][r[k + 1]] # 0
         /\ \A i, j \in 1..Len(r) : r[i] = r[j] => i = j
<1>1. PICK n \in Vertices : r \in [1..n -> Vertices] BY DEF Ways
<1>2. n \in Nat BY VAssumption DEF Vertices
<1>3. r \in Seq(Vertices) /\ Len(r) = n BY <1>1, <1>2
<1>4. Len(r) \in 1..V BY <1>3 DEF Vertices
<1>5. IsInjective(r) /\ r # <<>> /\ Head(r) = a /\ Last(r) = b BY DEF Ways, IsWay
<1>6. \A k \in 1..(Len(r) - 1) : t[r[k]][r[k + 1]] # 0 BY DEF Ways, IsWay
<1>7. r[1] = a BY <1>3, <1>5
<1>8. r[Len(r)] = b BY <1>5 DEF Last
<1>9. DOMAIN r = 1..Len(r) BY <1>3
<1>10. \A i, j \in 1..Len(r) : r[i] = r[j] => i = j BY <1>5, <1>9 DEF IsInjective
<1>11. QED BY <1>3, <1>4, <1>5, <1>6, <1>7, <1>8, <1>10

\* A way is a list of switches.
LEMMA WayIsRoute ==
  ASSUME NEW t, NEW a, NEW b, NEW r \in Ways(t, a, b)
  PROVE  r \in Seq(Vertices) /\ r # <<>>
<1>1. PICK n \in Vertices : r \in [1..n -> Vertices] BY DEF Ways
<1>2. n \in Nat BY VAssumption DEF Vertices
<1>3. r # <<>> BY DEF Ways, IsWay
<1>4. QED BY <1>1, <1>2, <1>3

\* What has the shape of a way is one.
LEMMA WayMade ==
  ASSUME NEW t, NEW a \in Vertices, NEW b \in Vertices,
         NEW r \in Seq(Vertices), Len(r) \in 1..V, r[1] = a, r[Len(r)] = b,
         \A k \in 1..(Len(r) - 1) : t[r[k]][r[k + 1]] # 0,
         \A i, j \in 1..Len(r) : r[i] = r[j] => i = j
  PROVE  r \in Ways(t, a, b)
<1>1. Len(r) \in Vertices BY DEF Vertices
<1>2. r \in [1..Len(r) -> Vertices] OBVIOUS
<1>3. r # <<>> BY VAssumption
<1>4. Head(r) = a BY <1>3
<1>5. Last(r) = b BY DEF Last
<1>6. IsInjective(r) BY <1>2 DEF IsInjective
<1>7. IsWay(t, r, a, b) BY <1>3, <1>4, <1>5 DEF IsWay
<1>8. r \in UNION {[1..n -> Vertices] : n \in Vertices} BY <1>1, <1>2
<1>9. QED BY <1>6, <1>7, <1>8 DEF Ways

\* What Reverse does, place by place.
LEMMA ReverseShape ==
  ASSUME NEW r \in Seq(Vertices)
  PROVE  /\ Reverse(r) \in Seq(Vertices) /\ Len(Reverse(r)) = Len(r)
         /\ \A k \in 1..Len(r) : Reverse(r)[k] = r[Len(r) - k + 1]
<1>1. \A k \in 1..Len(r) : Len(r) - k + 1 \in 1..Len(r) OBVIOUS
<1>2. \A k \in 1..Len(r) : r[Len(r) - k + 1] \in Vertices BY <1>1
<1>3. Reverse(r) \in [1..Len(r) -> Vertices] BY <1>2 DEF Reverse
<1>4. Reverse(r) \in Seq(Vertices) /\ Len(Reverse(r)) = Len(r) BY <1>3
<1>5. \A k \in 1..Len(r) : Reverse(r)[k] = r[Len(r) - k + 1] BY DEF Reverse
<1>6. QED BY <1>4, <1>5

\* A way read backwards is a way back.
LEMMA ReverseWay ==
  ASSUME NEW t, \A a, b \in Vertices : t[a][b] = t[b][a],
         NEW a \in Vertices, NEW b \in Vertices, NEW r \in Ways(t, a, b)
  PROVE  Reverse(r) \in Ways(t, b, a)
<1> DEFINE n == Len(r)
           q == Reverse(r)
<1>1. /\ r \in Seq(Vertices) /\ r # <<>> /\ n \in 1..V
      /\ r[1] = a /\ r[n] = b
      /\ \A k \in 1..(n - 1) : t[r[k]][r[k + 1]] # 0
      /\ \A i, j \in 1..n : r[i] = r[j] => i = j
  BY WayShape
<1>2. q \in Seq(Vertices) /\ Len(q) = n /\ \A k \in 1..n : q[k] = r[n - k + 1] BY <1>1, ReverseShape
<1>3. n \in Nat /\ n > 0 BY <1>1, VAssumption
<1>8. \A k \in 1..n : r[k] \in Vertices BY <1>1
<1> HIDE DEF n, q
<1>4. q[1] = b /\ q[n] = a
  <2>1. 1 \in 1..n /\ n \in 1..n /\ n - 1 + 1 = n /\ n - n + 1 = 1 BY <1>3
  <2>2. QED BY <1>1, <1>2, <2>1
<1>5. ASSUME NEW k \in 1..(n - 1) PROVE t[q[k]][q[k + 1]] # 0
  <2>1. k \in 1..n /\ k + 1 \in 1..n /\ n - k \in 1..(n - 1) /\ n - (k + 1) + 1 = n - k BY <1>3
  <2>2. q[k] = r[(n - k) + 1] /\ q[k + 1] = r[n - k] BY <1>2, <2>1
  <2>3. t[r[n - k]][r[(n - k) + 1]] # 0 BY <1>1, <2>1
  <2>4. r[n - k] \in Vertices /\ r[(n - k) + 1] \in Vertices
    <3>1. n - k \in 1..n /\ (n - k) + 1 \in 1..n BY <2>1, <1>3
    <3>2. QED BY <3>1, <1>8
  <2>5. QED BY <2>2, <2>3, <2>4
<1>6. ASSUME NEW i \in 1..n, NEW j \in 1..n, q[i] = q[j] PROVE i = j
  <2>1. n - i + 1 \in 1..n /\ n - j + 1 \in 1..n BY <1>3
  <2>2. r[n - i + 1] = r[n - j + 1] BY <1>2, <1>6
  <2>3. n - i + 1 = n - j + 1 BY <1>1, <2>1, <2>2
  <2>4. QED BY <2>3, <1>3
<1>7. q \in Ways(t, b, a)
  <2>1. Len(q) \in 1..V /\ q[Len(q)] = a BY <1>1, <1>2, <1>4
  <2>2. \A k \in 1..(Len(q) - 1) : t[q[k]][q[k + 1]] # 0 BY <1>2, <1>5
  <2>3. \A i, j \in 1..Len(q) : q[i] = q[j] => i = j BY <1>2, <1>6
  <2>4. QED BY <1>2, <1>4, <2>1, <2>2, <2>3, WayMade
<1>9. QED BY <1>7 DEF q


\* As far in one direction as in the other.
Symmetric(t) == t \in Weights /\ \A a, b \in Vertices : t[a][b] = t[b][a]

\* There and back cost the same.
LEMMA ReverseCost ==
  ASSUME NEW t, Symmetric(t), NEW r \in Seq(Vertices), r # <<>>
  PROVE  Cost(t, Reverse(r)) = Cost(t, r) /\ Cost(t, r) \in Nat
<1> DEFINE n == Len(r)
           q == Reverse(r)
<1>1. n \in Nat /\ n > 0 OBVIOUS
<1>2. q \in Seq(Vertices) /\ Len(q) = n /\ \A k \in 1..n : q[k] = r[n - k + 1] BY ReverseShape
<1>3. \A k \in 1..n : r[k] \in Vertices OBVIOUS
<1>4. PICK c : Sums(t, r, c) /\ Cost(t, r) = c[n] BY CostIs DEF Symmetric
<1> HIDE DEF q
<1>5. PICK d : Sums(t, q, d) /\ Cost(t, q) = d[n]
  <2>1. q # <<>> BY <1>1, <1>2
  <2>2. QED BY <1>2, <2>1, CostIs DEF Symmetric
<1>6. c \in [1..n -> Nat] /\ \A k \in 1..n : c[k] = IF k = 1 THEN 0 ELSE c[k - 1] + t[r[k - 1]][r[k]]
  BY <1>4 DEF Sums
<1>7. d \in [1..n -> Nat] /\ \A k \in 1..n : d[k] = IF k = 1 THEN 0 ELSE d[k - 1] + t[q[k - 1]][q[k]]
  BY <1>2, <1>5 DEF Sums
<1> HIDE DEF n
<1> DEFINE K == {k \in 1..n : d[k] = c[n] - c[n - k + 1]}
<1>8. 1 \in K
  <2>1. 1 \in 1..n /\ n \in 1..n /\ n - 1 + 1 = n BY <1>1
  <2>2. d[1] = 0 BY <1>7, <2>1
  <2>3. c[n] - c[n] = 0
    <3>1. c[n] \in Nat BY <1>6, <2>1
    <3>2. QED BY <3>1
  <2>4. QED BY <2>1, <2>2, <2>3
<1>9. ASSUME NEW k \in 1..(n - 1), k \in K PROVE k + 1 \in K
  <2>1. k \in 1..n /\ k + 1 \in 1..n /\ k + 1 # 1 /\ k + 1 - 1 = k BY <1>1
  <2>2. /\ n - k \in 1..n /\ n - k + 1 \in 1..n /\ n - k + 1 # 1
        /\ (n - k + 1) - 1 = n - k /\ n - (k + 1) + 1 = n - k
    BY <1>1
  <2>3. d[k + 1] = d[k] + t[q[k]][q[k + 1]] BY <1>7, <2>1
  <2>4. q[k] = r[n - k + 1] /\ q[k + 1] = r[n - k] BY <1>2, <2>1, <2>2
  <2>5. c[n - k + 1] = c[n - k] + t[r[n - k]][r[n - k + 1]] BY <1>6, <2>2
  <2>6. r[n - k] \in Vertices /\ r[n - k + 1] \in Vertices BY <1>3, <2>2
  <2>7. /\ t[r[n - k]][r[n - k + 1]] = t[r[n - k + 1]][r[n - k]]
        /\ t[r[n - k]][r[n - k + 1]] \in Nat
    BY <2>6 DEF Symmetric, Weights
  <2>8. d[k] = c[n] - c[n - k + 1] BY <1>9
  <2>9. c[n] \in Nat /\ c[n - k] \in Nat
    <3>1. n \in 1..n BY <1>1
    <3>2. QED BY <3>1, <1>6, <2>2
  <2>10. ASSUME NEW x \in Nat, NEW y \in Nat, NEW w \in Nat PROVE x - (y + w) + w = x - y BY <2>10
  <2>11. d[k + 1] = c[n] - (c[n - k] + t[r[n - k]][r[n - k + 1]]) + t[r[n - k]][r[n - k + 1]]
    BY <2>3, <2>4, <2>5, <2>7, <2>8
  <2>12. d[k + 1] = c[n] - c[n - k] BY <2>11, <2>10, <2>7, <2>9
  <2>13. QED BY <2>1, <2>2, <2>12
<1> HIDE DEF K
<1>10. \A k \in 1..n : k \in K BY <1>1, <1>8, <1>9, Climb
<1>11. n \in 1..n /\ 1 \in 1..n /\ n - n + 1 = 1 BY <1>1
<1>12. d[n] = c[n] - c[1] BY <1>10, <1>11 DEF K
<1>13. c[1] = 0 /\ c[n] \in Nat BY <1>6, <1>11
<1>14. d[n] = c[n] BY <1>12, <1>13
<1>15. QED BY <1>4, <1>5, <1>13, <1>14 DEF q, n

\* A shortest way read backwards is a shortest way back.
LEMMA ReverseShortest ==
  ASSUME NEW t, Symmetric(t), NEW a \in Vertices, NEW b \in Vertices,
         NEW r, IsShortest(t, r, a, b)
  PROVE  IsShortest(t, Reverse(r), b, a)
<1>1. \A x, y \in Vertices : t[x][y] = t[y][x] BY DEF Symmetric
<1>2. \A w \in Ways(t, a, b) : Reverse(w) \in Ways(t, b, a) BY <1>1, ReverseWay
<1>3. \A w \in Ways(t, b, a) : Reverse(w) \in Ways(t, a, b) BY <1>1, ReverseWay
<1>4. CASE Ways(t, a, b) = {}
  <2>1. r = <<>> BY <1>4 DEF IsShortest
  <2>2. Ways(t, b, a) = {} BY <1>3, <1>4
  <2>3. Reverse(<<>>) = <<>>
    <3>1. <<>> \in Seq(Vertices) /\ Len(<<>>) = 0 OBVIOUS
    <3>2. Reverse(<<>>) \in Seq(Vertices) /\ Len(Reverse(<<>>)) = 0 BY <3>1, ReverseShape
    <3>3. QED BY <3>2
  <2>4. QED BY <2>1, <2>2, <2>3 DEF IsShortest
<1>5. CASE Ways(t, a, b) # {}
  <2>1. r \in Ways(t, a, b) /\ \A w \in Ways(t, a, b) : Cost(t, r) <= Cost(t, w)
    BY <1>5 DEF IsShortest
  <2>2. Reverse(r) \in Ways(t, b, a) BY <1>2, <2>1
  <2>3. r \in Seq(Vertices) /\ r # <<>> BY <2>1, WayIsRoute
  <2>4. Cost(t, Reverse(r)) = Cost(t, r) BY <2>3, ReverseCost
  <2>5. ASSUME NEW w \in Ways(t, b, a) PROVE Cost(t, Reverse(r)) <= Cost(t, w)
    <3>1. w \in Seq(Vertices) /\ w # <<>> BY WayIsRoute
    <3>2. Cost(t, Reverse(w)) = Cost(t, w) BY <3>1, ReverseCost
    <3>3. Reverse(w) \in Ways(t, a, b) BY <1>3
    <3>4. QED BY <2>1, <2>4, <3>2, <3>3
  <2>6. QED BY <2>2, <2>5 DEF IsShortest
<1>6. QED BY <1>4, <1>5

\* From a switch to itself there is the way that stays.
LEMMA StayShortest ==
  ASSUME NEW t, Symmetric(t), NEW a \in Vertices
  PROVE  IsShortest(t, <<a>>, a, a)
<1> DEFINE r == <<a>>
<1>1. r \in Seq(Vertices) /\ r # <<>> /\ Len(r) = 1 /\ r[1] = a OBVIOUS
<1> HIDE DEF r
<1>2. Len(r) \in 1..V /\ r[Len(r)] = a BY <1>1, VAssumption
<1>3. \A k \in 1..(Len(r) - 1) : t[r[k]][r[k + 1]] # 0 BY <1>1
<1>4. \A i, j \in 1..Len(r) : r[i] = r[j] => i = j BY <1>1
<1>5. r \in Ways(t, a, a) BY <1>1, <1>2, <1>3, <1>4, WayMade
<1>6. Cost(t, r) = 0
  <2>1. PICK c : Sums(t, r, c) /\ Cost(t, r) = c[Len(r)] BY <1>1, CostIs DEF Symmetric
  <2>2. c[1] = 0 BY <1>1, <2>1 DEF Sums
  <2>3. QED BY <1>1, <2>1, <2>2
<1>7. ASSUME NEW w \in Ways(t, a, a) PROVE Cost(t, r) <= Cost(t, w)
  <2>1. w \in Seq(Vertices) /\ w # <<>> BY WayIsRoute
  <2>2. Cost(t, w) \in Nat BY <2>1, ReverseCost
  <2>3. QED BY <1>6, <2>2
<1>8. IsShortest(t, r, a, a) BY <1>5, <1>7 DEF IsShortest
<1>9. QED BY <1>8 DEF r


-----------------------------------------------------------------------------
(* The inductive invariant *)

RouteTypes ==
  /\ m_nettopo \in Topologies
  /\ m_routes \in [Vertices -> [Vertices -> Seq(Vertices)]]
  /\ src \in 1..(V + 1) /\ dst \in 1..(V + 1) /\ src <= dst
  /\ Computing => dst \in Vertices
  /\ dist \in [Vertices -> 0..INT_MAX]
  /\ prev \in [Vertices -> 0..V]
  /\ sptSet \in SUBSET Vertices
  /\ res \in Seq(Vertices)
  /\ u \in 0..V

\* The search is over for the pair.
Searched == dst \in sptSet \/ Cardinality(sptSet) >= V - 1

\* A switch that was reached is as far as the one before it and their link,
\* and the one before it is final; only src is reached without one before.
Reached ==
  /\ dist[src] = 0 /\ prev[src] = 0
  /\ \A v \in Vertices :
       prev[v] # 0 => /\ prev[v] \in sptSet /\ dist[v] < INT_MAX
                      /\ m_nettopo[prev[v]][v] # 0
                      /\ dist[v] = dist[prev[v]] + m_nettopo[prev[v]][v]
  /\ \A v \in Vertices : prev[v] = 0 /\ v # src => dist[v] = INT_MAX

\* The final switches are the nearest ones, and their links were looked at.
Settled ==
  /\ \A s \in sptSet : \A w \in Vertices \ sptSet : dist[s] <= dist[w]
  /\ \A s \in sptSet : \A w \in Vertices :
       s # dst /\ dist[s] < INT_MAX /\ m_nettopo[s][w] # 0
         => dist[w] <= dist[s] + m_nettopo[s][w]

\* What was read back so far leads from u to dst, along prev.
Traced ==
  /\ u = 0 <=> res = <<>>
  /\ res # <<>> => /\ src # dst /\ Searched
                   /\ res[Len(res)] = dst
                   /\ u = prev[res[1]]
                   /\ \A k \in 1..(Len(res) - 1) : prev[res[k + 1]] = res[k]

\* The pairs before <<src, dst>> have their routes.
Done(a, b) == a <= b /\ (a < src \/ (a = src /\ b < dst))

RoutesKept ==
  \A a, b \in Vertices :
    Done(a, b) => /\ IsShortest(m_nettopo, m_routes[a][b], a, b)
                  /\ IsShortest(m_nettopo, m_routes[b][a], b, a)

RouteInv == RouteTypes /\ (Computing => Reached /\ Settled /\ Traced) /\ RoutesKept


-----------------------------------------------------------------------------
(* A search that is over *)

\* A topology is symmetric, and its weights are small.
LEMMA TopologyIs ==
  ASSUME m_nettopo \in Topologies
  PROVE  /\ Symmetric(m_nettopo)
         /\ \E most \in Nat : V * most < INT_MAX /\ m_nettopo \in [Vertices -> [Vertices -> 0..most]]
<1>1. PICK most \in 0..INT_MAX : /\ V * most < INT_MAX
                                 /\ m_nettopo \in [Vertices -> [Vertices -> 0..most]]
                                 /\ \A a, b \in Vertices : m_nettopo[a][b] = m_nettopo[b][a]
  BY TopologiesAssumption
<1>2. most \in Nat BY TopologiesAssumption
<1>3. 0..most \in SUBSET Nat BY <1>2
<1>4. \A a \in Vertices : m_nettopo[a] \in [Vertices -> 0..most] BY <1>1
<1>5. \A a \in Vertices : m_nettopo[a] \in [Vertices -> Nat] BY <1>3, <1>4
<1>6. m_nettopo \in [Vertices -> [Vertices -> Nat]] BY <1>1, <1>5
<1>7. Symmetric(m_nettopo) BY <1>1, <1>6 DEF Symmetric, Weights
<1>8. QED BY <1>1, <1>2, <1>7

\* The pair is one of two switches.
LEMMA PairIs ==
  ASSUME RouteTypes, Computing
  PROVE  src \in Vertices /\ dst \in Vertices
<1>1. src \in 1..V BY VAssumption DEF RouteTypes, Computing
<1>2. QED BY <1>1 DEF Vertices, RouteTypes

\* Without dst, all switches but dst are final.
LEMMA OthersFinal ==
  ASSUME RouteTypes, Computing, Searched, dst \notin sptSet
  PROVE  sptSet = Vertices \ {dst}
<1>1. dst \in Vertices BY PairIs
<1>2. IsFiniteSet(Vertices) /\ Cardinality(Vertices) = V
  <2>1. 1 \in Int /\ V \in Int /\ (IF 1 > V THEN 0 ELSE V - 1 + 1) = V BY VAssumption
  <2>2. QED BY <2>1, FS_Interval DEF Vertices
<1> DEFINE Others == Vertices \ {dst}
<1>3. IsFiniteSet(Others) /\ Cardinality(Others) = V - 1 BY <1>1, <1>2, FS_RemoveElement
<1>4. sptSet \in SUBSET Others BY DEF RouteTypes
<1>5. Cardinality(sptSet) >= V - 1 BY DEF Searched
<1>6. Cardinality(sptSet) <= Cardinality(Others) /\ (Cardinality(sptSet) = Cardinality(Others) => sptSet = Others)
  BY <1>3, <1>4, FS_Subset
<1>7. Cardinality(sptSet) \in Nat BY <1>3, <1>4, FS_Subset, FS_CardinalityType
<1> HIDE DEF Others
<1>8. sptSet = Others BY <1>3, <1>5, <1>6, <1>7, VAssumption
<1>9. QED BY <1>8 DEF Others

\* No way is shorter than the distance that was found.
LEMMA NoneShorter ==
  ASSUME RouteTypes, Reached, Settled, Computing, Searched,
         NEW w \in Ways(m_nettopo, src, dst)
  PROVE  dist[dst] <= Cost(m_nettopo, w) /\ dist[dst] < INT_MAX
<1> DEFINE t == m_nettopo
           n == Len(w)
<1>1. src \in Vertices /\ dst \in Vertices BY PairIs
<1>2. m_nettopo \in Topologies BY DEF RouteTypes
<1>3. PICK most \in Nat : V * most < INT_MAX /\ t \in [Vertices -> [Vertices -> 0..most]]
  BY <1>2, TopologyIs
<1>4. Symmetric(t) BY <1>2, TopologyIs
<1>5. /\ w \in Seq(Vertices) /\ w # <<>> /\ n \in 1..V
      /\ w[1] = src /\ w[n] = dst
      /\ \A k \in 1..(n - 1) : t[w[k]][w[k + 1]] # 0
  BY <1>1, WayShape
<1>6. n \in Nat /\ n > 0 /\ n <= V BY <1>5, VAssumption
<1>7. PICK c : Sums(t, w, c) /\ Cost(t, w) = c[n] BY <1>4, <1>5, CostIs DEF Symmetric
<1>8. \A k \in 1..n : c[k] <= V * most BY <1>3, <1>5, <1>6, <1>7, SumsBound
<1>9. c \in [1..n -> Nat] /\ \A k \in 1..n : c[k] = IF k = 1 THEN 0 ELSE c[k - 1] + t[w[k - 1]][w[k]]
  BY <1>7 DEF Sums
<1>10. INT_MAX \in Nat /\ V * most \in Nat BY TopologiesAssumption, VAssumption
<1>11. \A v \in Vertices : dist[v] \in Nat BY <1>10 DEF RouteTypes
<1>12. \A k \in 1..n : w[k] \in Vertices BY <1>5
<1>13. \A a, b \in Vertices : t[a][b] \in Nat BY <1>4 DEF Symmetric, Weights
<1>14. dist[src] = 0 BY DEF Reached
<1>15. \A k \in 1..n : c[k] \in Nat /\ c[k] < INT_MAX
  <2>1. SUFFICES ASSUME NEW k \in 1..n PROVE c[k] \in Nat /\ c[k] < INT_MAX OBVIOUS
  <2>2. c[k] \in Nat BY <1>9
  <2>3. c[k] <= V * most BY <1>8
  <2>4. V * most < INT_MAX BY <1>3
  <2> HIDE DEF n, t
  <2>5. QED BY <2>2, <2>3, <2>4, <1>10
<1> HIDE DEF n, t
<1> DEFINE K == {k \in 1..n : dist[w[k]] <= c[k] \/ dist[dst] <= c[k]}
<1>16. 1 \in K
  <2>1. 1 \in 1..n /\ c[1] = 0 BY <1>6, <1>9
  <2>2. QED BY <1>5, <1>14, <2>1
<1>17. ASSUME NEW k \in 1..(n - 1), k \in K PROVE k + 1 \in K
  <2> DEFINE v == w[k]
             x == w[k + 1]
  <2>1. k \in 1..n /\ k + 1 \in 1..n /\ k + 1 # 1 /\ k + 1 - 1 = k BY <1>6
  <2>2. v \in Vertices /\ x \in Vertices BY <1>12, <2>1
  <2>3. c[k + 1] = c[k] + t[v][x] BY <1>9, <2>1
  <2>4. t[v][x] \in Nat /\ t[v][x] # 0 BY <1>5, <1>13, <2>2
  <2>5. c[k] \in Nat /\ c[k] < INT_MAX BY <1>15, <2>1
  <2>6. dist[v] <= c[k] \/ dist[dst] <= c[k] BY <1>17
  <2>7. dist[v] \in Nat /\ dist[x] \in Nat /\ dist[dst] \in Nat BY <1>1, <1>11, <2>2
  <2> HIDE DEF v, x, K
  <2>8. CASE dist[dst] <= c[k]
    <3>1. dist[dst] <= c[k + 1] BY <2>3, <2>4, <2>5, <2>7, <2>8
    <3>2. QED BY <2>1, <3>1 DEF K
  <2>9. CASE dist[v] <= c[k] /\ v \in sptSet /\ v # dst
    <3>1. dist[v] < INT_MAX BY <1>10, <2>5, <2>7, <2>9
    <3>2. dist[x] <= dist[v] + t[v][x] BY <2>2, <2>4, <2>9, <3>1 DEF Settled, t
    <3>3. dist[x] <= c[k + 1] BY <2>3, <2>4, <2>5, <2>7, <2>9, <3>2
    <3>4. QED BY <2>1, <3>3 DEF K, x
  <2>10. CASE dist[v] <= c[k] /\ v \notin sptSet /\ dst \in sptSet
    <3>1. dist[dst] <= dist[v] BY <2>2, <2>10 DEF Settled
    <3>2. dist[dst] <= c[k] BY <2>5, <2>7, <2>10, <3>1
    <3>3. QED BY <2>8, <3>2
  <2>11. CASE dist[v] <= c[k] /\ v \notin sptSet /\ dst \notin sptSet
    <3>1. v = dst BY <2>2, <2>11, OthersFinal
    <3>2. QED BY <2>8, <2>11, <3>1
  <2>12. CASE dist[v] <= c[k] /\ v = dst BY <2>8, <2>12
  <2>13. QED BY <2>6, <2>8, <2>9, <2>10, <2>11, <2>12
<1> HIDE DEF K
<1>18. \A k \in 1..n : k \in K BY <1>6, <1>16, <1>17, Climb
<1>19. n \in 1..n BY <1>6
<1>20. dist[dst] <= c[n] BY <1>5, <1>18, <1>19 DEF K
<1>21. c[n] \in Nat /\ c[n] < INT_MAX /\ dist[dst] \in Nat BY <1>1, <1>11, <1>15, <1>19
<1>22. dist[dst] < INT_MAX BY <1>10, <1>20, <1>21
<1>23. QED BY <1>7, <1>20, <1>22 DEF t

\* The route that was read back is a way of the distance that was found.
LEMMA RouteFound ==
  ASSUME RouteTypes, Reached, Settled, Traced, Computing, res # <<>>, prev[u] = 0
  PROVE  /\ <<src>> \o res \in Ways(m_nettopo, src, dst)
         /\ Cost(m_nettopo, <<src>> \o res) = dist[dst]
<1> DEFINE t == m_nettopo
           r == <<src>> \o res
           m == Len(res)
           n == Len(r)
<1>1. src \in Vertices /\ dst \in Vertices BY PairIs
<1>2. m_nettopo \in Topologies /\ res \in Seq(Vertices) /\ prev \in [Vertices -> 0..V] /\ u \in 0..V
  BY DEF RouteTypes
<1>3. Symmetric(t) BY <1>2, TopologyIs
<1>4. m \in Nat /\ m > 0 BY <1>2
<1>5. /\ src # dst /\ res[m] = dst /\ u = prev[res[1]] /\ u # 0
      /\ \A k \in 1..(m - 1) : prev[res[k + 1]] = res[k]
  BY DEF Traced
<1>6. r \in Seq(Vertices) /\ n = m + 1 /\ r[1] = src /\ \A k \in 1..m : r[k + 1] = res[k] BY <1>1, <1>2
<1>7. \A k \in 1..m : res[k] \in Vertices BY <1>2
<1>8. \A k \in 1..n : r[k] \in Vertices BY <1>6
<1>9. INT_MAX \in Nat /\ \A v \in Vertices : dist[v] \in 0..INT_MAX BY TopologiesAssumption DEF RouteTypes
<1>10. \A a, b \in Vertices : t[a][b] \in Nat BY <1>3 DEF Symmetric, Weights
<1> HIDE DEF r, m, n
\* The switch from which nothing leads further back is src.
<1>11. u = src
  <2>1. res[1] \in Vertices BY <1>4, <1>7
  <2>2. u \in Vertices BY <1>2, <1>5, VAssumption DEF Vertices
  <2>3. dist[res[1]] < INT_MAX /\ dist[res[1]] = dist[u] + t[u][res[1]] BY <1>5, <2>1 DEF Reached, t
  <2>4. dist[u] # INT_MAX
    <3>1. dist[u] \in Nat /\ t[u][res[1]] \in Nat BY <1>9, <1>10, <2>1, <2>2
    <3>2. QED BY <1>9, <2>3, <3>1
  <2>5. QED BY <2>2, <2>4 DEF Reached
<1>12. ASSUME NEW k \in 1..(n - 1) PROVE prev[r[k + 1]] = r[k]
  <2>1. k \in 1..m BY <1>4, <1>6
  <2>2. r[k + 1] = res[k] BY <1>6, <2>1
  <2>3. CASE k = 1 BY <1>5, <1>6, <1>11, <2>2, <2>3
  <2>4. CASE k # 1
    <3>1. k - 1 \in 1..(m - 1) /\ k - 1 \in 1..m /\ (k - 1) + 1 = k BY <1>4, <2>1, <2>4
    <3>2. prev[res[k]] = res[k - 1] BY <1>5, <3>1
    <3>3. r[k] = res[k - 1] BY <1>6, <3>1
    <3>4. QED BY <2>2, <3>2, <3>3
  <2>5. QED BY <2>3, <2>4
<1>13. ASSUME NEW k \in 1..(n - 1)
       PROVE  /\ t[r[k]][r[k + 1]] # 0 /\ dist[r[k + 1]] = dist[r[k]] + t[r[k]][r[k + 1]]
              /\ dist[r[k]] < dist[r[k + 1]]
  <2>1. k \in 1..n /\ k + 1 \in 1..n BY <1>4, <1>6
  <2>2. r[k] \in Vertices /\ r[k + 1] \in Vertices BY <1>8, <2>1
  <2>3. prev[r[k + 1]] # 0 BY <1>12, <2>2 DEF Vertices
  <2>4. t[r[k]][r[k + 1]] # 0 /\ dist[r[k + 1]] = dist[r[k]] + t[r[k]][r[k + 1]]
    BY <1>12, <2>2, <2>3 DEF Reached, t
  <2>5. dist[r[k]] \in Nat /\ dist[r[k + 1]] \in Nat /\ t[r[k]][r[k + 1]] \in Nat
    BY <1>9, <1>10, <2>2
  <2>6. QED BY <2>4, <2>5
<1>14. n \in Nat /\ n > 0 BY <1>4, <1>6
\* The distances along the route are its costs.
<1>15. PICK c : Sums(t, r, c) /\ Cost(t, r) = c[n]
  <2>1. r # <<>> BY <1>6, <1>14 DEF n
  <2>2. QED BY <1>3, <1>6, <2>1, CostIs DEF Symmetric, n
<1>16. c \in [1..n -> Nat] /\ \A k \in 1..n : c[k] = IF k = 1 THEN 0 ELSE c[k - 1] + t[r[k - 1]][r[k]]
  BY <1>15 DEF Sums, n
<1> DEFINE K == {k \in 1..n : c[k] = dist[r[k]]}
<1>17. 1 \in K
  <2>1. 1 \in 1..n /\ c[1] = 0 BY <1>14, <1>16
  <2>2. QED BY <1>6, <2>1 DEF Reached
<1>18. ASSUME NEW k \in 1..(n - 1), k \in K PROVE k + 1 \in K
  <2>1. k + 1 \in 1..n /\ k + 1 # 1 /\ k + 1 - 1 = k BY <1>14
  <2>2. c[k + 1] = c[k] + t[r[k]][r[k + 1]] BY <1>16, <2>1
  <2>3. QED BY <1>13, <1>18, <2>1, <2>2
<1> HIDE DEF K
<1>19. \A k \in 1..n : k \in K BY <1>14, <1>17, <1>18, Climb
<1>20. r[n] = dst
  <2>1. m \in 1..m BY <1>4
  <2>2. QED BY <1>5, <1>6, <2>1
<1>21. Cost(t, r) = dist[dst]
  <2>1. n \in 1..n BY <1>14
  <2>2. QED BY <1>15, <1>19, <1>20, <2>1 DEF K
\* They grow, so that no switch comes twice.
<1>22. ASSUME NEW i \in 1..n, NEW j \in 1..n, i < j PROVE dist[r[i]] < dist[r[j]]
  <2> DEFINE J == {k \in 1..(n - i) : dist[r[i]] < dist[r[i + k]]}
  <2>1. n - i \in Nat /\ n - i > 0 BY <1>14, <1>22
  <2>2. dist[r[i]] \in Nat BY <1>8, <1>9
  <2>3. 1 \in J
    <3>1. i \in 1..(n - 1) /\ 1 \in 1..(n - i) BY <1>14, <1>22
    <3>2. QED BY <1>13, <3>1
  <2>4. ASSUME NEW k \in 1..((n - i) - 1), k \in J PROVE k + 1 \in J
    <3>1. i + k \in 1..(n - 1) /\ i + (k + 1) = (i + k) + 1 /\ k + 1 \in 1..(n - i)
      BY <1>14, <2>1
    <3>2. dist[r[i + k]] < dist[r[(i + k) + 1]] BY <1>13, <3>1
    <3>3. dist[r[i]] < dist[r[i + k]] BY <2>4
    <3>4. dist[r[i + k]] \in Nat /\ dist[r[(i + k) + 1]] \in Nat
      <4>1. i + k \in 1..n /\ (i + k) + 1 \in 1..n BY <3>1, <1>14
      <4>2. QED BY <1>8, <1>9, <4>1
    <3>5. QED BY <2>2, <3>1, <3>2, <3>3, <3>4
  <2> HIDE DEF J
  <2>5. \A k \in 1..(n - i) : k \in J BY <2>1, <2>3, <2>4, Climb
  <2>6. j - i \in 1..(n - i) /\ i + (j - i) = j BY <1>14, <1>22
  <2>7. QED BY <2>5, <2>6 DEF J
<1>23. ASSUME NEW i \in 1..n, NEW j \in 1..n, r[i] = r[j] PROVE i = j
  <2>1. dist[r[i]] \in Nat BY <1>8, <1>9
  <2>2. ~(i < j) /\ ~(j < i) BY <1>22, <1>23, <2>1
  <2>3. QED BY <2>2, <1>14
<1>24. n \in 1..V
  <2>1. SUFFICES ASSUME n > V PROVE FALSE BY <1>14, VAssumption
  <2>2. IsFiniteSet(1..n) /\ Cardinality(1..n) = n
    <3>1. 1 \in Int /\ n \in Int /\ (IF 1 > n THEN 0 ELSE n - 1 + 1) = n BY <1>14
    <3>2. QED BY <3>1, FS_Interval
  <2>3. IsFiniteSet(Vertices) /\ Cardinality(Vertices) = V
    <3>1. 1 \in Int /\ V \in Int /\ (IF 1 > V THEN 0 ELSE V - 1 + 1) = V BY VAssumption
    <3>2. QED BY <3>1, FS_Interval DEF Vertices
  <2>4. r \in [1..n -> Vertices] BY <1>6 DEF n
  <2>5. Cardinality(Vertices) < Cardinality(1..n) BY <2>1, <2>2, <2>3
  <2>6. \E x, y \in 1..n : x # y /\ r[x] = r[y] BY <2>2, <2>3, <2>4, <2>5, FS_PigeonHole
  <2>7. QED BY <1>23, <2>6
<1>25. r \in Ways(t, src, dst)
  <2>1. \A k \in 1..(Len(r) - 1) : t[r[k]][r[k + 1]] # 0 BY <1>13 DEF n
  <2>2. \A i, j \in 1..Len(r) : r[i] = r[j] => i = j BY <1>23 DEF n
  <2>3. Len(r) \in 1..V /\ r[Len(r)] = dst BY <1>20, <1>24 DEF n
  <2>4. QED BY <1>1, <1>6, <2>1, <2>2, <2>3, WayMade
<1>26. QED BY <1>21, <1>25 DEF r, t

-----------------------------------------------------------------------------
(* What the steps do to the invariant *)

\* A pair begins with nothing known but src.
LEMMA Begins ==
  ASSUME NEW a \in Nat, NEW b \in Nat, 1 <= a, a <= b, b <= V + 1, a <= V => b <= V, Begin(a, b)
  PROVE  /\ src' \in 1..(V + 1) /\ dst' \in 1..(V + 1) /\ src' <= dst'
         /\ Computing' => dst' \in Vertices
         /\ dist' \in [Vertices -> 0..INT_MAX] /\ prev' \in [Vertices -> 0..V]
         /\ sptSet' \in SUBSET Vertices /\ res' \in Seq(Vertices) /\ u' \in 0..V
         /\ Computing' => Reached' /\ Settled' /\ Traced'
<1>1. src' = a /\ dst' = b /\ sptSet' = {} /\ res' = <<>> /\ u' = 0 BY DEF Begin
<1>2. dist' = [v \in Vertices |-> IF v = a THEN 0 ELSE INT_MAX] /\ prev' = [v \in Vertices |-> 0]
  BY DEF Begin, DistFrom, NoPrev
<1>3. V \in Nat /\ INT_MAX \in Nat BY VAssumption, TopologiesAssumption
<1>4. a \in 1..(V + 1) /\ b \in 1..(V + 1) BY <1>3
<1>5. a <= V => a \in Vertices /\ b \in Vertices BY <1>3 DEF Vertices
<1>6. dist' \in [Vertices -> 0..INT_MAX] /\ prev' \in [Vertices -> 0..V] BY <1>2, <1>3
<1>7. ASSUME Computing' PROVE Reached'
  <2>1. a \in Vertices BY <1>1, <1>5, <1>7 DEF Computing
  <2>2. dist'[a] = 0 /\ prev'[a] = 0 BY <1>2, <2>1
  <2>3. \A v \in Vertices : prev'[v] = 0 /\ (v # a => dist'[v] = INT_MAX) BY <1>2
  <2>4. QED BY <1>1, <2>2, <2>3 DEF Reached
<1>8. Settled' BY <1>1 DEF Settled
<1>9. Traced' BY <1>1 DEF Traced
<1>10. Computing' => dst' \in Vertices BY <1>1, <1>5 DEF Computing
<1>11. src' \in 1..(V + 1) /\ dst' \in 1..(V + 1) /\ src' <= dst' BY <1>1, <1>4
<1>12. sptSet' \in SUBSET Vertices /\ res' \in Seq(Vertices) /\ u' \in 0..V BY <1>1, <1>3
<1>13. QED BY <1>6, <1>7, <1>8, <1>9, <1>10, <1>11, <1>12

\* One round of the search: the switch that becomes final is a nearest one.
LEMMA SettleInv ==
  ASSUME RouteInv, NEW v \in Vertices, Settle(v)
  PROVE  RouteInv'
<1> DEFINE t == m_nettopo
           closer == IF v = dst THEN {} ELSE Closer(v)
<1>1. /\ Computing /\ u = 0 /\ src # dst /\ dst \notin sptSet
      /\ v \in Nearest
      /\ sptSet' = sptSet \cup {v}
      /\ UNCHANGED <<m_nettopo, m_routes, src, dst, res, u>>
  BY DEF Settle, Searching
<1>2. /\ dist' = [w \in Vertices |-> IF w \in closer THEN dist[v] + t[v][w] ELSE dist[w]]
      /\ prev' = [w \in Vertices |-> IF w \in closer THEN v ELSE prev[w]]
  BY DEF Settle
<1>3. RouteTypes /\ Reached /\ Settled /\ Traced BY <1>1 DEF RouteInv
<1>4. v \notin sptSet /\ \A w \in Vertices \ sptSet : dist[v] <= dist[w] BY <1>1 DEF Nearest
<1>5. \A w \in closer : /\ w \in Vertices \ sptSet /\ v # w /\ t[v][w] # 0
                        /\ dist[v] # INT_MAX /\ dist[v] + t[v][w] < dist[w]
  BY DEF Closer
<1>6. v # dst => \A w \in Vertices \ sptSet :
                   w # v /\ w \notin closer /\ t[v][w] # 0 /\ dist[v] # INT_MAX
                     => ~(dist[v] + t[v][w] < dist[w])
  BY DEF Closer
<1>7. Symmetric(t) BY <1>3, TopologyIs DEF RouteTypes
<1>8. \A a, b \in Vertices : t[a][b] \in Nat BY <1>7 DEF Symmetric, Weights
<1>9. INT_MAX \in Nat /\ \A w \in Vertices : dist[w] \in 0..INT_MAX
  BY <1>3, TopologiesAssumption DEF RouteTypes
<1>10. src \in Vertices /\ dst \in Vertices BY <1>1, <1>3, PairIs
<1>11. sptSet \in SUBSET Vertices BY <1>3 DEF RouteTypes
<1>12. V \in Nat /\ v \in 1..V BY VAssumption DEF Vertices
<1>13. \A w \in Vertices : /\ w \in closer => dist'[w] = dist[v] + t[v][w] /\ prev'[w] = v
                           /\ w \notin closer => dist'[w] = dist[w] /\ prev'[w] = prev[w]
  BY <1>2
<1> HIDE DEF closer, t
<1>14. \A w \in closer : dist[v] + t[v][w] \in 0..INT_MAX
  <2>1. SUFFICES ASSUME NEW w \in closer PROVE dist[v] + t[v][w] \in 0..INT_MAX OBVIOUS
  <2>2. w \in Vertices /\ dist[v] + t[v][w] < dist[w] BY <1>5
  <2>3. dist[v] \in Nat /\ t[v][w] \in Nat /\ dist[w] \in 0..INT_MAX BY <1>8, <1>9, <2>2
  <2>4. QED BY <1>9, <2>2, <2>3
<1>15. dist' \in [Vertices -> 0..INT_MAX] /\ prev' \in [Vertices -> 0..V]
  <2>1. \A w \in Vertices : (IF w \in closer THEN dist[v] + t[v][w] ELSE dist[w]) \in 0..INT_MAX
    BY <1>9, <1>14
  <2>2. prev \in [Vertices -> 0..V] /\ v \in 0..V BY <1>3, <1>12 DEF RouteTypes
  <2>3. QED BY <1>2, <2>1, <2>2
\* What is final stays as it was.
<1>16. \A w \in sptSet \cup {v} : dist'[w] = dist[w] /\ w \in Vertices BY <1>5, <1>11, <1>13
<1>17. \A w \in Vertices : dist'[w] \in Nat /\ dist[w] \in Nat /\ dist'[w] <= dist[w]
  <2>1. SUFFICES ASSUME NEW w \in Vertices PROVE dist'[w] \in Nat /\ dist[w] \in Nat /\ dist'[w] <= dist[w]
    OBVIOUS
  <2>2. dist[w] \in Nat BY <1>9
  <2>3. CASE w \in closer
    <3>1. dist'[w] = dist[v] + t[v][w] /\ dist[v] + t[v][w] < dist[w] BY <1>5, <1>13, <2>3
    <3>2. dist'[w] \in 0..INT_MAX BY <1>15
    <3>3. QED BY <1>9, <2>2, <3>1, <3>2
  <2>4. CASE w \notin closer BY <1>13, <2>2, <2>4
  <2>5. QED BY <2>3, <2>4
<1>18. src \notin closer
  <2>1. SUFFICES ASSUME src \in closer PROVE FALSE OBVIOUS
  <2>2. dist[v] + t[v][src] < dist[src] BY <1>5, <2>1
  <2>3. dist[src] = 0 BY <1>3 DEF Reached
  <2>4. dist[v] \in Nat /\ t[v][src] \in Nat BY <1>8, <1>9, <1>10
  <2>5. QED BY <2>2, <2>3, <2>4
<1>19. RouteTypes'
  <2>1. sptSet' \in SUBSET Vertices BY <1>1, <1>11
  <2>2. Computing' <=> Computing BY <1>1 DEF Computing
  <2>3. QED BY <1>1, <1>3, <1>15, <2>1, <2>2 DEF RouteTypes
<1>20. Reached'
  <2>1. dist'[src'] = 0 /\ prev'[src'] = 0 BY <1>1, <1>3, <1>10, <1>13, <1>18 DEF Reached
  <2>2. ASSUME NEW w \in Vertices, prev'[w] # 0
        PROVE  /\ prev'[w] \in sptSet' /\ dist'[w] < INT_MAX /\ t[prev'[w]][w] # 0
               /\ dist'[w] = dist'[prev'[w]] + t[prev'[w]][w]
    <3>1. CASE w \in closer
      <4>1. prev'[w] = v /\ dist'[w] = dist[v] + t[v][w] /\ dist'[v] = dist[v] BY <1>13, <1>16, <3>1
      <4>2. t[v][w] # 0 /\ dist[v] + t[v][w] < dist[w] BY <1>5, <3>1
      <4>3. dist[w] \in 0..INT_MAX /\ dist'[w] \in Nat BY <1>9, <1>17
      <4>4. dist'[w] < INT_MAX BY <1>9, <4>1, <4>2, <4>3
      <4>5. QED BY <1>1, <4>1, <4>2, <4>4
    <3>2. CASE w \notin closer
      <4>1. prev'[w] = prev[w] /\ dist'[w] = dist[w] BY <1>13, <3>2
      <4>2. /\ prev[w] \in sptSet /\ dist[w] < INT_MAX /\ t[prev[w]][w] # 0
            /\ dist[w] = dist[prev[w]] + t[prev[w]][w]
        BY <1>3, <2>2, <4>1 DEF Reached, t
      <4>3. dist'[prev[w]] = dist[prev[w]] BY <1>16, <4>2
      <4>4. QED BY <1>1, <4>1, <4>2, <4>3
    <3>3. QED BY <3>1, <3>2
  <2>3. ASSUME NEW w \in Vertices, prev'[w] = 0, w # src PROVE dist'[w] = INT_MAX
    <3>1. w \notin closer BY <1>12, <1>13, <2>3
    <3>2. QED BY <1>3, <1>13, <2>3, <3>1 DEF Reached
  <2>4. m_nettopo' = t BY <1>1 DEF t
  <2>5. QED BY <1>1, <2>1, <2>2, <2>3, <2>4 DEF Reached
<1>21. Settled'
  <2>1. ASSUME NEW s \in sptSet', NEW w \in Vertices \ sptSet' PROVE dist'[s] <= dist'[w]
    <3>1. s \in sptSet \cup {v} /\ w \in Vertices /\ w \notin sptSet /\ w # v BY <1>1, <2>1
    <3>2. dist'[s] = dist[s] /\ s \in Vertices BY <1>16, <3>1
    <3>3. dist[s] <= dist[v] /\ dist[v] <= dist[w]
      <4>1. dist[v] <= dist[w] BY <1>4, <3>1
      <4>2. CASE s = v
        <5>1. dist[v] \in Nat BY <1>17
        <5>2. QED BY <4>1, <4>2, <5>1
      <4>3. CASE s \in sptSet BY <1>3, <1>4, <4>1, <4>3 DEF Settled
      <4>4. QED BY <3>1, <4>2, <4>3
    <3>4. dist[s] \in Nat /\ dist[v] \in Nat /\ dist[w] \in Nat BY <1>17, <3>1, <3>2
    <3>5. CASE w \in closer
      <4>1. dist'[w] = dist[v] + t[v][w] /\ t[v][w] \in Nat BY <1>8, <1>13, <3>1, <3>5
      <4>2. QED BY <3>2, <3>3, <3>4, <4>1
    <3>6. CASE w \notin closer
      <4>1. dist'[w] = dist[w] BY <1>13, <3>1, <3>6
      <4>2. QED BY <3>2, <3>3, <3>4, <4>1
    <3>7. QED BY <3>5, <3>6
  <2>2. ASSUME NEW s \in sptSet', NEW w \in Vertices, s # dst, dist'[s] < INT_MAX, t[s][w] # 0
        PROVE  dist'[w] <= dist'[s] + t[s][w]
    <3>1. s \in sptSet \cup {v} BY <1>1
    <3>2. dist'[s] = dist[s] /\ s \in Vertices BY <1>16, <3>1
    <3>3. /\ dist[s] \in Nat /\ dist[w] \in Nat /\ dist'[w] \in Nat /\ dist'[w] <= dist[w]
          /\ t[s][w] \in Nat
      BY <1>8, <1>17, <3>2
    <3>4. CASE s \in sptSet
      <4>1. dist[w] <= dist[s] + t[s][w] BY <1>3, <2>2, <3>2, <3>4 DEF Settled, t
      <4>2. QED BY <3>2, <3>3, <4>1
    <3>5. CASE s = v /\ w \in closer
      <4>1. dist'[w] = dist[v] + t[v][w] BY <1>13, <3>5
      <4>2. QED BY <3>2, <3>3, <3>5, <4>1
    <3>6. CASE s = v /\ w \notin closer /\ w \in sptSet
      <4>1. dist[w] <= dist[v] BY <1>3, <1>4, <3>6 DEF Settled
      <4>2. QED BY <3>2, <3>3, <3>6, <4>1
    <3>7. CASE s = v /\ w = v BY <3>2, <3>3, <3>7
    <3>8. CASE s = v /\ w \notin closer /\ w \notin sptSet /\ w # v
      <4>1. dist[v] # INT_MAX BY <1>9, <2>2, <3>2, <3>3, <3>8
      <4>2. ~(dist[v] + t[v][w] < dist[w]) BY <1>6, <2>2, <3>8, <4>1
      <4>3. QED BY <3>2, <3>3, <3>8, <4>2
    <3>9. QED BY <3>1, <3>4, <3>5, <3>6, <3>7, <3>8
  <2>3. m_nettopo' = t /\ dst' = dst BY <1>1 DEF t
  <2>4. QED BY <2>1, <2>2, <2>3 DEF Settled
<1>22. Traced' BY <1>1, <1>3 DEF Traced
<1>23. RoutesKept' BY <1>1 DEF RouteInv, RoutesKept, Done
<1>24. QED BY <1>19, <1>20, <1>21, <1>22, <1>23 DEF RouteInv

\* One switch more is read back.
LEMMA TraceInv ==
  ASSUME RouteInv, Trace
  PROVE  RouteInv'
<1> DEFINE from == IF u = 0 THEN dst ELSE u
<1>1. /\ Computing /\ ~Searching /\ src # dst
      /\ prev[from] # 0 /\ res' = <<from>> \o res /\ u' = prev[from]
      /\ UNCHANGED <<m_nettopo, m_routes, src, dst, dist, prev, sptSet>>
  BY DEF Trace
<1>2. RouteTypes /\ Reached /\ Settled /\ Traced BY <1>1 DEF RouteInv
<1>3. src \in Vertices /\ dst \in Vertices BY <1>1, <1>2, PairIs
<1>4. from \in Vertices
  <2>1. u # 0 => u \in Vertices BY <1>2 DEF RouteTypes, Vertices
  <2>2. QED BY <1>3, <2>1
<1>5. res \in Seq(Vertices) /\ prev \in [Vertices -> 0..V] BY <1>2 DEF RouteTypes
<1>6. Searched
  <2>1. CASE u = 0
    <3>1. dst \in sptSet \/ ~(Cardinality(sptSet) < V - 1) BY <1>1, <2>1 DEF Searching
    <3>2. Cardinality(sptSet) \in Nat
      <4>1. IsFiniteSet(Vertices) BY FS_Interval, VAssumption DEF Vertices
      <4>2. QED BY <1>2, <4>1, FS_Subset, FS_CardinalityType DEF RouteTypes
    <3>3. QED BY <3>1, <3>2, VAssumption DEF Searched
  <2>2. CASE u # 0 BY <1>2, <2>2 DEF Traced
  <2>3. QED BY <2>1, <2>2
<1> HIDE DEF from
<1>7. /\ res' \in Seq(Vertices) /\ res' # <<>> /\ Len(res') = Len(res) + 1 /\ res'[1] = from
      /\ \A k \in 1..Len(res) : res'[k + 1] = res[k]
  BY <1>1, <1>4, <1>5
<1>8. u' \in 0..V /\ u' # 0 BY <1>1, <1>4, <1>5
<1>9. RouteTypes'
  <2>1. Computing' <=> Computing BY <1>1 DEF Computing
  <2>2. QED BY <1>1, <1>2, <1>7, <1>8, <2>1 DEF RouteTypes
<1>10. Reached' BY <1>1, <1>2 DEF Reached
<1>11. Settled' BY <1>1, <1>2 DEF Settled
<1>12. Traced'
  <2>1. Searched' BY <1>1, <1>6 DEF Searched
  <2>2. res'[Len(res')] = dst
    <3>1. CASE res = <<>>
      <4>1. from = dst BY <1>2, <3>1 DEF Traced, from
      <4>2. Len(res') = 1 BY <1>7, <3>1
      <4>3. QED BY <1>7, <4>1, <4>2
    <3>2. CASE res # <<>>
      <4>1. Len(res) \in 1..Len(res) BY <1>5, <3>2
      <4>2. res[Len(res)] = dst BY <1>2, <3>2 DEF Traced
      <4>3. QED BY <1>7, <4>1, <4>2
    <3>3. QED BY <3>1, <3>2
  <2>3. ASSUME NEW k \in 1..(Len(res') - 1) PROVE prev[res'[k + 1]] = res'[k]
    <3>1. k \in 1..Len(res) /\ res'[k + 1] = res[k] BY <1>5, <1>7
    <3>2. res # <<>> BY <3>1
    <3>3. u = prev[res[1]] /\ u # 0 /\ \A i \in 1..(Len(res) - 1) : prev[res[i + 1]] = res[i]
      BY <1>2, <3>2 DEF Traced
    <3>4. CASE k = 1 BY <1>7, <3>1, <3>3, <3>4 DEF from
    <3>5. CASE k # 1
      <4>1. k - 1 \in 1..(Len(res) - 1) /\ k - 1 \in 1..Len(res) /\ (k - 1) + 1 = k
        BY <1>5, <3>1, <3>5
      <4>2. res'[k] = res[k - 1] BY <1>7, <4>1
      <4>3. prev[res[k]] = res[k - 1] BY <3>3, <4>1
      <4>4. QED BY <3>1, <4>2, <4>3
    <3>6. QED BY <3>4, <3>5
  <2>4. QED BY <1>1, <1>7, <1>8, <2>1, <2>2, <2>3 DEF Traced
<1>13. RoutesKept' BY <1>1 DEF RouteInv, RoutesKept, Done
<1>14. QED BY <1>9, <1>10, <1>11, <1>12, <1>13 DEF RouteInv

\* The route that is kept is a shortest one.
LEMMA KeptIsShortest ==
  ASSUME RouteInv, Keep
  PROVE  LET route == IF src = dst THEN <<src>>
                      ELSE IF res = <<>> THEN res ELSE <<src>> \o res
         IN  /\ IsShortest(m_nettopo, route, src, dst)
             /\ route \in Seq(Vertices)
<1> DEFINE route == IF src = dst THEN <<src>> ELSE IF res = <<>> THEN res ELSE <<src>> \o res
<1>1. /\ Computing /\ ~Searching
      /\ src # dst => prev[IF u = 0 THEN dst ELSE u] = 0
  BY DEF Keep
<1>2. RouteTypes /\ Reached /\ Settled /\ Traced BY <1>1 DEF RouteInv
<1>3. src \in Vertices /\ dst \in Vertices BY <1>1, <1>2, PairIs
<1>4. Symmetric(m_nettopo) BY <1>2, TopologyIs DEF RouteTypes
<1>5. CASE src = dst
  <2>1. IsShortest(m_nettopo, <<src>>, src, src) BY <1>3, <1>4, StayShortest
  <2>2. <<src>> \in Seq(Vertices) BY <1>3
  <2>3. QED BY <1>5, <2>1, <2>2
<1>6. CASE src # dst /\ res = <<>>
  <2>1. u = 0 /\ prev[dst] = 0 BY <1>1, <1>2, <1>6 DEF Traced
  <2>2. dist[dst] = INT_MAX BY <1>2, <1>3, <1>6, <2>1 DEF Reached
  <2>3. Searched
    <3>1. dst \in sptSet \/ ~(Cardinality(sptSet) < V - 1) BY <1>1, <1>6, <2>1 DEF Searching
    <3>2. Cardinality(sptSet) \in Nat
      <4>1. IsFiniteSet(Vertices) BY FS_Interval, VAssumption DEF Vertices
      <4>2. QED BY <1>2, <4>1, FS_Subset, FS_CardinalityType DEF RouteTypes
    <3>3. QED BY <3>1, <3>2, VAssumption DEF Searched
  <2>4. Ways(m_nettopo, src, dst) = {}
    <3>1. SUFFICES ASSUME NEW w \in Ways(m_nettopo, src, dst) PROVE FALSE OBVIOUS
    <3>2. dist[dst] < INT_MAX BY <1>1, <1>2, <2>3, NoneShorter
    <3>3. QED BY <2>2, <3>2, TopologiesAssumption
  <2>5. IsShortest(m_nettopo, <<>>, src, dst) BY <2>4 DEF IsShortest
  <2>6. QED BY <1>6, <2>5
<1>7. CASE src # dst /\ res # <<>>
  <2> DEFINE r == <<src>> \o res
  <2>1. u # 0 /\ prev[u] = 0 /\ Searched BY <1>1, <1>2, <1>7 DEF Traced
  <2>2. r \in Ways(m_nettopo, src, dst) /\ Cost(m_nettopo, r) = dist[dst] BY <1>1, <1>2, <1>7, <2>1, RouteFound
  <2> HIDE DEF r
  <2>3. \A w \in Ways(m_nettopo, src, dst) : Cost(m_nettopo, r) <= Cost(m_nettopo, w)
    BY <1>1, <1>2, <2>1, <2>2, NoneShorter
  <2>4. IsShortest(m_nettopo, r, src, dst) BY <2>2, <2>3 DEF IsShortest
  <2>5. r \in Seq(Vertices) BY <2>2, WayIsRoute
  <2>6. QED BY <1>7, <2>4, <2>5 DEF r
<1>8. QED BY <1>5, <1>6, <1>7

\* A route is kept, and the next pair begins.
LEMMA KeepInv ==
  ASSUME RouteInv, Keep
  PROVE  RouteInv'
<1> DEFINE route == IF src = dst THEN <<src>> ELSE IF res = <<>> THEN res ELSE <<src>> \o res
<1>1. IsShortest(m_nettopo, route, src, dst) /\ route \in Seq(Vertices) BY KeptIsShortest
<1>2. /\ Computing /\ m_nettopo' = m_nettopo
      /\ m_routes' = Store(route)
      /\ IF dst < V THEN Begin(src, dst + 1) ELSE Begin(src + 1, src + 1)
  BY DEF Keep
<1> HIDE DEF route
<1>3. RouteTypes BY DEF RouteInv
<1>4. src \in Vertices /\ dst \in Vertices BY <1>2, <1>3, PairIs
<1>5. Symmetric(m_nettopo) BY <1>3, TopologyIs DEF RouteTypes
<1>6. IsShortest(m_nettopo, Reverse(route), dst, src) BY <1>1, <1>4, <1>5, ReverseShortest
<1>7. Reverse(route) \in Seq(Vertices) BY <1>1, ReverseShape
<1>8. m_routes \in [Vertices -> [Vertices -> Seq(Vertices)]] BY <1>3 DEF RouteTypes
<1>9. m_routes' = [m_routes EXCEPT ![src][dst] = route, ![dst][src] = Reverse(route)] BY <1>2 DEF Store
<1>10. m_routes' \in [Vertices -> [Vertices -> Seq(Vertices)]] BY <1>1, <1>4, <1>7, <1>8, <1>9
<1>11. \A a, b \in Vertices : <<a, b>> # <<src, dst>> /\ <<a, b>> # <<dst, src>> => m_routes'[a][b] = m_routes[a][b]
  BY <1>4, <1>8, <1>9
<1>12. m_routes'[dst][src] = Reverse(route) BY <1>4, <1>8, <1>9
<1>13. src # dst => m_routes'[src][dst] = route BY <1>4, <1>8, <1>9
<1>14. IsShortest(m_nettopo, m_routes'[src][dst], src, dst) /\ IsShortest(m_nettopo, m_routes'[dst][src], dst, src)
  <2>1. CASE src = dst BY <1>6, <1>12, <2>1
  <2>2. CASE src # dst BY <1>1, <1>6, <1>12, <1>13, <2>2
  <2>3. QED BY <2>1, <2>2
<1>15. src \in 1..V /\ dst \in 1..V /\ src <= dst /\ V \in Nat BY <1>3, <1>4, VAssumption DEF Vertices, RouteTypes
<1>16. PICK a \in Nat, b \in Nat :
         /\ Begin(a, b) /\ 1 <= a /\ a <= b /\ b <= V + 1 /\ (a <= V => b <= V)
         /\ (a = src /\ b = dst + 1) \/ (a = src + 1 /\ b = src + 1 /\ dst = V)
  <2>1. CASE dst < V
    <3>1. Begin(src, dst + 1) BY <1>2, <2>1
    <3>2. src \in Nat /\ dst + 1 \in Nat /\ 1 <= src /\ src <= dst + 1 /\ dst + 1 <= V + 1 /\ dst + 1 <= V
      BY <1>15, <2>1
    <3>3. QED BY <3>1, <3>2
  <2>2. CASE ~(dst < V)
    <3>1. Begin(src + 1, src + 1) BY <1>2, <2>2
    <3>2. src + 1 \in Nat /\ 1 <= src + 1 /\ src + 1 <= src + 1 /\ src + 1 <= V + 1 /\ dst = V
      BY <1>15, <2>2
    <3>3. QED BY <3>1, <3>2
  <2>3. QED BY <2>1, <2>2
<1>17. /\ src' \in 1..(V + 1) /\ dst' \in 1..(V + 1) /\ src' <= dst'
       /\ Computing' => dst' \in Vertices
       /\ dist' \in [Vertices -> 0..INT_MAX] /\ prev' \in [Vertices -> 0..V]
       /\ sptSet' \in SUBSET Vertices /\ res' \in Seq(Vertices) /\ u' \in 0..V
       /\ Computing' => Reached' /\ Settled' /\ Traced'
  BY <1>16, Begins
<1>18. m_nettopo' \in Topologies BY <1>2, <1>3 DEF RouteTypes
<1>19. RouteTypes' BY <1>10, <1>17, <1>18 DEF RouteTypes
<1>20. src' = a /\ dst' = b BY <1>16 DEF Begin
<1>21. RoutesKept'
  <2>1. SUFFICES ASSUME NEW x \in Vertices, NEW y \in Vertices, Done(x, y)'
                 PROVE  /\ IsShortest(m_nettopo, m_routes'[x][y], x, y)
                        /\ IsShortest(m_nettopo, m_routes'[y][x], y, x)
    BY <1>2 DEF RoutesKept
  <2>2. x <= y /\ (x < a \/ (x = a /\ y < b)) BY <1>20, <2>1 DEF Done
  <2>3. x \in 1..V /\ y \in 1..V BY DEF Vertices
  <2>4. (x = src /\ y = dst) \/ Done(x, y)
    <3>1. CASE a = src /\ b = dst + 1 BY <1>15, <2>2, <2>3, <3>1 DEF Done
    <3>2. CASE a = src + 1 /\ b = src + 1 /\ dst = V BY <1>15, <2>2, <2>3, <3>2 DEF Done
    <3>3. QED BY <1>16, <3>1, <3>2
  <2>5. CASE x = src /\ y = dst BY <1>14, <2>5
  <2>6. CASE Done(x, y)
    <3>1. /\ IsShortest(m_nettopo, m_routes[x][y], x, y)
          /\ IsShortest(m_nettopo, m_routes[y][x], y, x)
      BY <2>6 DEF RouteInv, RoutesKept
    <3>2. ~(x = src /\ y = dst) /\ ~(y = src /\ x = dst)
      BY <1>15, <2>3, <2>6 DEF Done
    <3>3. m_routes'[x][y] = m_routes[x][y] /\ m_routes'[y][x] = m_routes[y][x]
      <4>1. <<x, y>> # <<src, dst>> /\ <<x, y>> # <<dst, src>> BY <3>2
      <4>2. <<y, x>> # <<src, dst>> /\ <<y, x>> # <<dst, src>> BY <3>2
      <4>3. QED BY <1>11, <4>1, <4>2
    <3>4. QED BY <3>1, <3>3
  <2>7. QED BY <2>4, <2>5, <2>6
<1>22. QED BY <1>17, <1>19, <1>21 DEF RouteInv

\* The first pair begins.
LEMMA RouteInitInv ==
  ASSUME RouteInit
  PROVE  RouteInv
<1>1. src = 1 /\ dst = 1 /\ sptSet = {} /\ res = <<>> /\ u = 0 /\ m_nettopo \in Topologies BY DEF RouteInit
<1>2. dist = [v \in Vertices |-> IF v = 1 THEN 0 ELSE INT_MAX] /\ prev = [v \in Vertices |-> 0]
  BY DEF RouteInit, DistFrom, NoPrev
<1>3. V \in Nat /\ V >= 1 /\ INT_MAX \in Nat /\ 1 \in Vertices BY VAssumption, TopologiesAssumption DEF Vertices
<1>4. m_routes \in [Vertices -> [Vertices -> Seq(Vertices)]]
  <2>1. <<>> \in Seq(Vertices) OBVIOUS
  <2>2. m_routes = [a \in Vertices |-> [b \in Vertices |-> <<>>]] BY DEF RouteInit
  <2>3. QED BY <2>1, <2>2
<1>5. dist \in [Vertices -> 0..INT_MAX] /\ prev \in [Vertices -> 0..V] BY <1>2, <1>3
<1>6. RouteTypes BY <1>1, <1>3, <1>4, <1>5 DEF RouteTypes
<1>7. Reached
  <2>1. dist[1] = 0 /\ \A v \in Vertices : prev[v] = 0 /\ (v # 1 => dist[v] = INT_MAX) BY <1>2, <1>3
  <2>2. QED BY <1>1, <1>3, <2>1 DEF Reached
<1>8. Settled /\ Traced BY <1>1 DEF Settled, Traced
<1>9. RoutesKept BY <1>1 DEF RoutesKept, Done, Vertices
<1>10. QED BY <1>6, <1>7, <1>8, <1>9 DEF RouteInv

\* Every step.
LEMMA RouteStepInv ==
  ASSUME RouteInv, [RouteNext]_route_vars
  PROVE  RouteInv'
<1>1. CASE RouteNext BY <1>1, SettleInv, TraceInv, KeepInv DEF RouteNext
<1>2. CASE UNCHANGED route_vars
  BY <1>2 DEF RouteInv, RouteTypes, Reached, Settled, Traced, Searched, RoutesKept, Done, Computing, route_vars
<1>3. QED BY <1>1, <1>2

\* When the constructor is done, m_routes holds for any two switches a way of the
\* lowest cost in each direction, and none only where there is none.
THEOREM RoutesAreShortestHolds == RouteSpec => RoutesAreShortest
<1>1. ASSUME RouteInv, RouteInv' PROVE Computing /\ ~Computing' => AllShortest'
  <2>1. SUFFICES ASSUME ~Computing' PROVE AllShortest' OBVIOUS
  <2>2. RouteTypes' /\ RoutesKept' BY <1>1 DEF RouteInv
  <2>3. src' > V /\ V \in Nat
    <3>1. src' \in 1..(V + 1) /\ V \in Nat BY <2>2, VAssumption DEF RouteTypes
    <3>2. QED BY <2>1, <3>1 DEF Computing
  <2>4. SUFFICES ASSUME NEW x \in Vertices, NEW y \in Vertices
                 PROVE  IsShortest(m_nettopo', m_routes'[x][y], x, y)
    BY DEF AllShortest
  <2>5. x \in 1..V /\ y \in 1..V BY DEF Vertices
  <2>6. src' \in Nat BY <2>2, VAssumption DEF RouteTypes
  <2>7. Done(x, y)' \/ Done(y, x)' BY <2>3, <2>5, <2>6 DEF Done
  <2>8. QED BY <2>2, <2>7 DEF RoutesKept
<1>2. RouteInit => RouteInv BY RouteInitInv
<1>3. RouteInv /\ [RouteNext]_route_vars => RouteInv' BY RouteStepInv
<1>4. QED BY <1>1, <1>2, <1>3, PTL DEF RouteSpec, RoutesAreShortest

=============================================================================
