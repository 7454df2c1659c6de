------------------------- MODULE DijkstraController -------------------------
(***************************************************************************)
(* The controller of model/ofswitch13-dijkstra-controller.cc and the       *)
(* switches it routes for, joined by their connections: packets that no    *)
(* entry of a switch matches are sent to the controller, which installs    *)
(* entries along a route while others are evicted and flow-mods, packet    *)
(* outs and packets overtake each other.                                   *)
(*                                                                         *)
(* A flow table is the set of its exact-match entries, at most Room of     *)
(* them: which one is evicted is open, FlowTable has the policies.  The    *)
(* flow of a packet is its pair of hosts; ARP and IPv4 differ only in the  *)
(* fields the match names.  A packet in the buffer of a switch, or carried *)
(* by the messages when there is no buffer, is in neither case lost;       *)
(* PacketBuffers has the buffers.  FLOW_REMOVED and the counts of          *)
(* packet-ins change nothing here and are left out.                        *)
(***************************************************************************)
EXTENDS ShortestRoutes

Switches == Vertices

CONSTANTS
  Hosts,
  HostSwitch,     \* the edge switch of a host, computed from its address
  Packets,        \* numbers; a host sends its packets in their order
  SrcHost, DstHost,
  Room,           \* entries a table has room for, beside the table-miss entry
  Connected       \* switches that have shaken hands before the first packet

ASSUME HostsAssumption == /\ HostSwitch \in [Hosts -> Switches]
                          /\ Packets \subseteq Nat
                          /\ SrcHost \in [Packets -> Hosts]
                          /\ DstHost \in [Packets -> Hosts]
                          /\ \A p \in Packets : SrcHost[p] # DstHost[p]
                          /\ Room \in Nat \ {0}
                          /\ Connected \subseteq Switches

VARIABLES
  registered,     \* switches GetRemoteSwitch finds: their features reply came
  table_miss,     \* switches with a table-miss entry
  tables,         \* by switch, the entries: records [flow, port]
  to_controller,  \* by switch, packet-ins on their way, in order
  to_switch,      \* by switch, messages on their way, in order
  where,          \* by packet, where it is
  crashed         \* the controller used a switch that GetRemoteSwitch did not find

net_vars == <<registered, table_miss, tables, to_controller, to_switch, where, crashed>>
vars == <<route_vars, net_vars>>

Flow(p) == <<SrcHost[p], DstHost[p]>>

At(place, s) == [place |-> place, switch |-> s]

FlowMod(flow, port) == [type |-> "FLOW_MOD", flow |-> flow, port |-> port]
TableMiss == [type |-> "TABLE_MISS"]
PacketOut(p, port) == [type |-> "PACKET_OUT", packet |-> p, port |-> port]

\* Where a packet is once it left switch s through a port: at a neighbour, or at
\* the host that has this port there, none of the Hosts if the switch is not its own.
Through(s, port) ==
  IF port \notin Hosts THEN At("link", port)
  ELSE IF HostSwitch[port] = s THEN At("host", port)
  ELSE At("dropped", 0)

-----------------------------------------------------------------------------
(* The controller *)

\* HandleFeaturesReply and HandshakeSuccessful: from now on GetRemoteSwitch finds
\* the switch, and the table-miss entry is on its way.
HandshakeSuccessful(s) ==
  /\ ~Computing /\ ~crashed
  /\ s \notin registered
  /\ registered' = registered \cup {s}
  /\ to_switch' = [to_switch EXCEPT ![s] = Append(@, TableMiss)]
  /\ UNCHANGED <<route_vars, table_miss, tables, to_controller, where, crashed>>

\* The ports of the route for packet p: the next switch, at the end the host.
OutPort(route, k, p) == IF k = Len(route) THEN DstHost[p] ELSE route[k + 1]

\* The route that answers switch s.
RouteFrom(s, p) == m_routes[s][HostSwitch[DstHost[p]]]

\* The places of the route that get a flow-mod: all of them for the source, or
\* only the switch that asked.
Installed(s, p) ==
  {k \in DOMAIN RouteFrom(s, p) : HostSwitch[SrcHost[p]] = s \/ RouteFrom(s, p)[k] = s}

Known(s, p) == m_routes[HostSwitch[SrcHost[p]]][HostSwitch[DstHost[p]]] # <<>>

\* Mutant: only the source gets its packet back.
PacketOutToSource(s, p) ==
  IF s = HostSwitch[SrcHost[p]]
  THEN <<PacketOut(p, OutPort(RouteFrom(s, p), 1, p))>> ELSE <<>>

\* The packet leaves the switch that asked through the port of its own entry.
PacketOutTo(s, p) ==
  <<PacketOut(p, OutPort(RouteFrom(s, p), CHOOSE k \in Installed(s, p) : RouteFrom(s, p)[k] = s, p))>>

FlowModsTo(t, s, p) ==
  [n \in 1..Cardinality({k \in Installed(s, p) : RouteFrom(s, p)[k] = t}) |->
     FlowMod(Flow(p), OutPort(RouteFrom(s, p),
                              CHOOSE k \in Installed(s, p) : RouteFrom(s, p)[k] = t, p))]

HandlePacketIn(s) ==
  /\ ~crashed
  /\ to_controller[s] # <<>>
  /\ to_controller' = [to_controller EXCEPT ![s] = Tail(@)]
  /\ LET p == Head(to_controller[s])
         used == {RouteFrom(s, p)[k] : k \in Installed(s, p)}
     IN  \/ /\ ~Known(s, p)
            /\ UNCHANGED <<to_switch, crashed>>
         \/ /\ Known(s, p)
            /\ ~(used \subseteq registered)
            /\ crashed' = TRUE
            /\ UNCHANGED to_switch
         \/ /\ Known(s, p)
            /\ used \subseteq registered
            /\ to_switch' = [t \in Switches |-> to_switch[t] \o FlowModsTo(t, s, p)
                                                \o IF t = s THEN PacketOutTo(s, p) ELSE <<>>]
            /\ UNCHANGED crashed
  /\ UNCHANGED <<route_vars, registered, table_miss, tables, where>>

-----------------------------------------------------------------------------
(* The switches *)

\* The host of packet p, at switch s, is about to send it.
IsNext(s, p) ==
  /\ ~Computing
  /\ where[p] = At("unsent", 0)
  /\ HostSwitch[SrcHost[p]] = s
  /\ \A q \in Packets : q < p /\ SrcHost[q] = SrcHost[p] => where[q] # At("unsent", 0)

\* A packet comes in, from its host or over a link.
Arrive(s, p) ==
  /\ where[p] = At("link", s) \/ IsNext(s, p)
  /\ \/ \E e \in tables[s] :
          /\ e.flow = Flow(p)
          /\ where' = [where EXCEPT ![p] = Through(s, e.port)]
          /\ UNCHANGED to_controller
     \/ /\ \A e \in tables[s] : e.flow # Flow(p)
        /\ \/ /\ s \in table_miss
              /\ where' = [where EXCEPT ![p] = At("buffer", s)]
              /\ to_controller' = [to_controller EXCEPT ![s] = Append(@, p)]
           \/ /\ s \notin table_miss
              /\ where' = [where EXCEPT ![p] = At("dropped", 0)]
              /\ UNCHANGED to_controller
  /\ UNCHANGED <<route_vars, registered, table_miss, tables, to_switch, crashed>>

\* The entries that may be left when one for flow comes in: without the one it
\* replaces, and if the table is full, without one that was evicted before.
Kept(s, flow) ==
  {{e \in rest : e.flow # flow} :
     rest \in IF Cardinality(tables[s]) = Room THEN {tables[s] \ {v} : v \in tables[s]}
              ELSE {tables[s]}}

\* The switch takes the next message of its connection.
Receive(s) ==
  /\ to_switch[s] # <<>>
  /\ to_switch' = [to_switch EXCEPT ![s] = Tail(@)]
  /\ LET msg == Head(to_switch[s]) IN
       \/ /\ msg.type = "TABLE_MISS"
          /\ table_miss' = table_miss \cup {s}
          /\ UNCHANGED <<tables, where>>
       \/ /\ msg.type = "FLOW_MOD"
          /\ \E kept \in Kept(s, msg.flow) :
               tables' = [tables EXCEPT ![s] = kept \cup {[flow |-> msg.flow, port |-> msg.port]}]
          /\ UNCHANGED <<table_miss, where>>
       \/ /\ msg.type = "PACKET_OUT"
          /\ where' = [where EXCEPT ![msg.packet] = Through(s, msg.port)]
          /\ UNCHANGED <<table_miss, tables>>
  /\ UNCHANGED <<route_vars, registered, to_controller, crashed>>

-----------------------------------------------------------------------------
Init ==
  /\ RouteInit
  /\ registered = Connected /\ table_miss = Connected
  /\ tables = [s \in Switches |-> {}]
  /\ to_controller = [s \in Switches |-> <<>>]
  /\ to_switch = [s \in Switches |-> <<>>]
  /\ where = [p \in Packets |-> At("unsent", 0)]
  /\ crashed = FALSE

Next ==
  \/ RouteNext /\ UNCHANGED net_vars
  \/ \E s \in Switches :
       HandshakeSuccessful(s) \/ HandlePacketIn(s) \/ Receive(s) \/ \E p \in Packets : Arrive(s, p)

Spec == Init /\ [][Next]_vars

\* What the simulator has scheduled: messages and packets on their way arrive.
Event ==
  \E s \in Switches :
    \/ HandlePacketIn(s)
    \/ Receive(s)
    \/ \E p \in Packets : where[p] = At("link", s) /\ Arrive(s, p)

\* The simulator goes on while an event is scheduled; no order of them is assumed.
\* Hosts need not send anything, switches need not connect.
FairSpec == Spec /\ WF_vars(Event)

-----------------------------------------------------------------------------
(* Properties *)

\* Once every switch has its table-miss entry, a packet that is sent, or under way
\* between the switches and the controller, reaches its host, whatever is evicted.
PacketsArrive ==
  \A p \in Packets :
    (/\ table_miss = Switches /\ ~crashed
     /\ where[p].place \in {"link", "buffer"}
     /\ m_routes[HostSwitch[SrcHost[p]]][HostSwitch[DstHost[p]]] # <<>>)
      ~> where[p] = At("host", DstHost[p])

=============================================================================
