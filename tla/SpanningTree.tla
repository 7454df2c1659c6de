---------------------------- MODULE SpanningTree ----------------------------
(***************************************************************************)
(* The spanning tree protocol (lib/stp.c, an implementation of IEEE        *)
(* 802.1D-1998): bridges that exchange configuration and topology change   *)
(* messages until the links that forward frames form a tree rooted at the  *)
(* bridge with the lowest identifier.                                      *)
(*                                                                         *)
(* The library is taken at its interface: time passes (stp_tick), a frame  *)
(* comes in at a port (stp_received_bpdu), ports are enabled and disabled. *)
(* Its user, secchan/stp-secchan.c, no longer finds out the port of a      *)
(* frame -- that line was taken out -- and hands every one to port 0; here *)
(* a frame comes in at the port at the other end of the link.              *)
(*                                                                         *)
(* A bridge is a record of the fields of struct stp and a port one of the  *)
(* fields of struct stp_port; the functions of stp.c are operators from    *)
(* such a record to the next one, with the frames sent collected in "out". *)
(* A timer that is off has the value Off.  The clocks of the bridges agree:*)
(* all of them tick, frames cross and arrive in any order, and when the    *)
(* last has arrived it is time for the next tick.  All the bridges ask for *)
(* the same timeouts, so that recording those of the root                  *)
(* (stp_record_config_timeout_values) changes nothing but the flag.        *)
(***************************************************************************)
EXTENDS Naturals, Integers, Sequences, FiniteSets, FiniteSetsExt, SequencesExt

CONSTANTS
    Bridges,        \* the bridge identifiers, naturals; the lowest is the root
    Ports,          \* the port numbers of each bridge: 1 .. n
    Links,          \* sets of two ends <<bridge, port>>, each end in one link
    PathCost,       \* the cost of a port, by end
    HelloTime, MaxAge, ForwardDelay, HoldTime,   \* in STP ticks
    BigEndian,      \* whether htons() is the identity on this build
    MaxFaults       \* bound: frames lost, ports removed or added again

Ends == UNION Links

ASSUME SpanningTreeAssumption ==
    /\ Bridges \subseteq Nat \ {0}
    /\ IsFiniteSet(Ports) /\ Ports = 1 .. Cardinality(Ports)
    /\ Links \subseteq { {d, e} : d, e \in Bridges \X Ports }
    /\ \A l, k \in Links : Cardinality(l) = 2 /\ (l # k => l \cap k = {})
    /\ PathCost \in [Ends -> Nat \ {0}]
    /\ HelloTime \in Nat \ {0} /\ HoldTime \in Nat \ {0}
    /\ MaxAge >= 2 * (HelloTime + HoldTime)
    /\ 2 * (ForwardDelay - HoldTime) >= MaxAge
    /\ BigEndian \in BOOLEAN
    /\ MaxFaults \in Nat

VARIABLES
    bridge,         \* bridge[b]: the struct stp of b with its ports
    wire,           \* wire[e]: the frames sent at the end e, on their way
    faults          \* how many have happened

vars == <<bridge, wire, faults>>

Off == -1
MESSAGE_AGE_INCREMENT == 1

PeerOf(e) == CHOOSE d \in UNION {l \in Links : e \in l} : d # e

-----------------------------------------------------------------------------
(* What a bridge knows of its ports.                                       *)

EnabledPorts(s) == {p \in Ports : s.port[p].state # "disabled"}

stp_is_root_bridge(s) == s.designated_root = s.bridge_id

stp_is_designated_port(s, p) ==
    /\ s.port[p].designated_bridge = s.bridge_id
    /\ s.port[p].designated_port = p

(* Lexicographic order, of priority vectors.                               *)
Precedes(u, v) ==
    \E i \in DOMAIN u : u[i] < v[i] /\ \A j \in 1 .. i - 1 : u[j] = v[j]

-----------------------------------------------------------------------------
(* Sending.  The flags of a configuration message are one byte, to which   *)
(* htons() of the flag is added: they survive on a big-endian build only.  *)

ConfigFrame(s, p) ==
    [type |-> "config",
     ack  |-> BigEndian /\ s.port[p].topology_change_ack,
     tc   |-> BigEndian /\ s.topology_change,
     root_id |-> s.designated_root, root_path_cost |-> s.root_path_cost,
     bridge_id |-> s.bridge_id, port_id |-> p,
     message_age |->
        IF stp_is_root_bridge(s) THEN 0
        ELSE s.port[s.root_port].message_age_timer + MESSAGE_AGE_INCREMENT]

TcnFrame == [type |-> "tcn"]

(* stp_transmit_config on each port of P: a port that sent less than the   *)
(* hold time ago sends when that time has passed.                          *)
stp_transmit_config(s, P) ==
    LET held == {p \in P : s.port[p].hold_timer # Off}
        sent == {p \in P \ held : ConfigFrame(s, p).message_age < MaxAge}
    IN  IF ~ stp_is_root_bridge(s) /\ s.root_port = 0 THEN s
        ELSE [s EXCEPT
                !.port = [p \in Ports |->
                    IF p \in held THEN [@[p] EXCEPT !.config_pending = TRUE]
                    ELSE IF p \in sent
                    THEN [@[p] EXCEPT !.topology_change_ack = FALSE,
                                      !.config_pending = FALSE, !.hold_timer = 0]
                    ELSE @[p]],
                !.out = [p \in Ports |->
                    IF p \in sent THEN Append(@[p], ConfigFrame(s, p)) ELSE @[p]]]

stp_config_bpdu_generation(s) ==
    stp_transmit_config(s, {p \in EnabledPorts(s) : stp_is_designated_port(s, p)})

stp_transmit_tcn(s) ==
    IF s.root_port = 0 THEN s
    ELSE [s EXCEPT !.out[s.root_port] = Append(@, TcnFrame)]

-----------------------------------------------------------------------------
(* Choosing the root, the designated ports and the state of each port.     *)

stp_become_designated_port(s, P) ==
    [s EXCEPT !.port = [p \in Ports |->
        IF p \in P
        THEN [@[p] EXCEPT !.designated_root = s.designated_root,
                          !.designated_cost = s.root_path_cost,
                          !.designated_bridge = s.bridge_id,
                          !.designated_port = p]
        ELSE @[p]]]

CostThrough(s, p) == s.port[p].designated_cost + PathCost[<<s.bridge_id, p>>]

(* stp_supersedes_root as a vector: the best root port has the least.      *)
RootVector(s, p) ==
    <<s.port[p].designated_root, CostThrough(s, p),
      s.port[p].designated_bridge, s.port[p].designated_port, p>>

stp_root_selection(s) ==
    LET heard == {p \in EnabledPorts(s) :
                    /\ ~ stp_is_designated_port(s, p)
                    /\ s.port[p].designated_root < s.bridge_id}
        best == {p \in heard : \A q \in heard \ {p} :
                    Precedes(RootVector(s, p), RootVector(s, q))}
    IN  IF heard = {}
        THEN [s EXCEPT !.root_port = 0, !.designated_root = s.bridge_id,
                       !.root_path_cost = 0]
        ELSE LET p == CHOOSE q \in best : TRUE
             IN  [s EXCEPT !.root_port = p,
                           !.designated_root = s.port[p].designated_root,
                           !.root_path_cost = CostThrough(s, p)]

stp_designated_port_selection(s) ==
    stp_become_designated_port(s,
        {p \in EnabledPorts(s) :
            \/ stp_is_designated_port(s, p)
            \/ s.port[p].designated_root # s.designated_root
            \/ Precedes(<<s.root_path_cost, s.bridge_id, p>>,
                        <<s.port[p].designated_cost, s.port[p].designated_bridge,
                          s.port[p].designated_port>>)})

stp_configuration_update(s) == stp_designated_port_selection(stp_root_selection(s))

(* Mutant: no time spent listening.                                        *)
MakesLearning(port) ==
    IF port.state = "blocking"
    THEN [port EXCEPT !.state = "learning", !.forward_delay_timer = 0]
    ELSE port

stp_topology_change_detection(s) ==
    [ (IF stp_is_root_bridge(s)
       THEN [s EXCEPT !.topology_change = TRUE, !.topology_change_timer = 0]
       ELSE IF s.topology_change_detected THEN s
       ELSE [stp_transmit_tcn(s) EXCEPT !.tcn_timer = 0])
      EXCEPT !.topology_change_detected = TRUE]

stp_make_forwarding(port) ==
    IF port.state = "blocking"
    THEN [port EXCEPT !.state = "listening", !.forward_delay_timer = 0]
    ELSE port

stp_make_blocking(port) ==
    [port EXCEPT !.state = "blocking", !.forward_delay_timer = Off]

(* The root port and the designated ports go towards forwarding, the other *)
(* enabled ones block; blocking a port that was learning or forwarding is  *)
(* a change of topology.                                                   *)
stp_port_state_selection(s) ==
    LET Quiet(port) == [port EXCEPT !.config_pending = FALSE,
                                    !.topology_change_ack = FALSE]
        Selected(p) ==
            IF p = s.root_port THEN stp_make_forwarding(Quiet(s.port[p]))
            ELSE IF stp_is_designated_port(s, p)
            THEN stp_make_forwarding([s.port[p] EXCEPT !.message_age_timer = Off])
            ELSE stp_make_blocking(Quiet(s.port[p]))
        blocked == {p \in EnabledPorts(s) :
                        /\ Selected(p).state = "blocking"
                        /\ s.port[p].state \in {"learning", "forwarding"}}
        selected == [s EXCEPT !.port = [p \in Ports |->
                        IF p \in EnabledPorts(s) THEN Selected(p) ELSE @[p]]]
    IN  IF blocked = {} THEN selected ELSE stp_topology_change_detection(selected)

stp_become_root_bridge(s) ==
    LET detected == [stp_topology_change_detection(s) EXCEPT !.tcn_timer = Off]
    IN  [stp_config_bpdu_generation(detected) EXCEPT !.hello_timer = 0]

(* What follows a port's loss of its information, whatever took it.        *)
Reselect(s, wasRoot) ==
    LET selected == stp_port_state_selection(stp_configuration_update(s))
    IN  IF stp_is_root_bridge(selected) /\ ~ wasRoot
        THEN stp_become_root_bridge(selected) ELSE selected

-----------------------------------------------------------------------------
(* Receiving.                                                              *)

stp_supersedes_port_info(s, p, m) ==
    LET mine == <<s.port[p].designated_root, s.port[p].designated_cost,
                  s.port[p].designated_bridge>>
        its  == <<m.root_id, m.root_path_cost, m.bridge_id>>
    IN  \/ Precedes(its, mine)
        \/ /\ its = mine
           /\ m.bridge_id # s.bridge_id \/ m.port_id <= s.port[p].designated_port

stp_record_config_information(s, p, m) ==
    [s EXCEPT !.port[p].designated_root = m.root_id,
              !.port[p].designated_cost = m.root_path_cost,
              !.port[p].designated_bridge = m.bridge_id,
              !.port[p].designated_port = m.port_id,
              !.port[p].message_age_timer = m.message_age]

(* A bridge that is no longer the root stops its hellos, and tells the new *)
(* root of the change it had detected.                                     *)
StepDown(s) ==
    LET quiet == [s EXCEPT !.hello_timer = Off]
    IN  IF quiet.topology_change_detected
        THEN [stp_transmit_tcn([quiet EXCEPT !.topology_change_timer = Off])
                EXCEPT !.tcn_timer = 0]
        ELSE quiet

(* The message of the root port is passed on to the designated ports.      *)
HearRoot(s, m) ==
    LET passed == stp_config_bpdu_generation([s EXCEPT !.topology_change = m.tc])
    IN  IF m.ack
        THEN [passed EXCEPT !.topology_change_detected = FALSE, !.tcn_timer = Off]
        ELSE passed

stp_received_config_bpdu(s, p, m) ==
    IF m.message_age >= MaxAge \/ s.port[p].state = "disabled" THEN s
    ELSE IF stp_supersedes_port_info(s, p, m)
    THEN LET selected == stp_port_state_selection(stp_configuration_update(
                            stp_record_config_information(s, p, m)))
             settled == IF stp_is_root_bridge(s) /\ ~ stp_is_root_bridge(selected)
                        THEN StepDown(selected) ELSE selected
         IN  IF p = settled.root_port THEN HearRoot(settled, m) ELSE settled
    ELSE IF stp_is_designated_port(s, p) THEN stp_transmit_config(s, {p})
    ELSE s

stp_received_tcn_bpdu(s, p) ==
    IF s.port[p].state = "disabled" \/ ~ stp_is_designated_port(s, p) THEN s
    ELSE stp_transmit_config(
            [stp_topology_change_detection(s)
                EXCEPT !.port[p].topology_change_ack = TRUE], {p})

stp_received_bpdu(s, p, m) ==
    IF m.type = "config" THEN stp_received_config_bpdu(s, p, m)
    ELSE stp_received_tcn_bpdu(s, p)

-----------------------------------------------------------------------------
(* The timers, in the order stp_tick looks at them.                        *)

Advanced(timer) == IF timer = Off THEN Off ELSE timer + 1
Expires(timer, timeout) == timer # Off /\ timer + 1 >= timeout

(* Mutant: the timer of the topology change is not started again.          *)
TickTcnOnce(s) ==
    IF Expires(s.tcn_timer, HelloTime)
    THEN [stp_transmit_tcn(s) EXCEPT !.tcn_timer = Off]
    ELSE [s EXCEPT !.tcn_timer = Advanced(@)]

TickHello(s) ==
    IF Expires(s.hello_timer, HelloTime)
    THEN [stp_config_bpdu_generation(s) EXCEPT !.hello_timer = 0]
    ELSE [s EXCEPT !.hello_timer = Advanced(@)]

TickTcn(s) ==
    IF Expires(s.tcn_timer, HelloTime)
    THEN [stp_transmit_tcn(s) EXCEPT !.tcn_timer = 0]
    ELSE [s EXCEPT !.tcn_timer = Advanced(@)]

TickTopologyChange(s) ==
    IF Expires(s.topology_change_timer, MaxAge + ForwardDelay)
    THEN [s EXCEPT !.topology_change_timer = Off,
                   !.topology_change_detected = FALSE, !.topology_change = FALSE]
    ELSE [s EXCEPT !.topology_change_timer = Advanced(@)]

(* Mutant: what is too old is given up, and nothing is chosen in its place. *)
TickMessageAgeOnly(s, p) ==
    IF s.port[p].state = "disabled" THEN s
    ELSE IF Expires(s.port[p].message_age_timer, MaxAge)
    THEN [s EXCEPT !.port[p].message_age_timer = Off]
    ELSE [s EXCEPT !.port[p].message_age_timer = Advanced(@)]

TickMessageAge(s, p) ==
    IF s.port[p].state = "disabled" THEN s
    ELSE IF Expires(s.port[p].message_age_timer, MaxAge)
    THEN Reselect(stp_become_designated_port(
                    [s EXCEPT !.port[p].message_age_timer = Off], {p}),
                  stp_is_root_bridge(s))
    ELSE [s EXCEPT !.port[p].message_age_timer = Advanced(@)]

stp_is_designated_for_some_port(s) ==
    \E p \in EnabledPorts(s) : s.port[p].designated_bridge = s.bridge_id

stp_forward_delay_timer_expiry(s, p) ==
    IF s.port[p].state = "listening"
    THEN [s EXCEPT !.port[p].state = "learning", !.port[p].forward_delay_timer = 0]
    ELSE LET open == [s EXCEPT !.port[p].state = "forwarding",
                               !.port[p].forward_delay_timer = Off]
         IN  IF stp_is_designated_for_some_port(open)
             THEN stp_topology_change_detection(open) ELSE open

TickForwardDelay(s, p) ==
    IF Expires(s.port[p].forward_delay_timer, ForwardDelay)
    THEN stp_forward_delay_timer_expiry(s, p)
    ELSE [s EXCEPT !.port[p].forward_delay_timer = Advanced(@)]

TickHold(s, p) ==
    IF Expires(s.port[p].hold_timer, HoldTime)
    THEN LET free == [s EXCEPT !.port[p].hold_timer = Off]
         IN  IF free.port[p].config_pending
             THEN stp_transmit_config(free, {p}) ELSE free
    ELSE [s EXCEPT !.port[p].hold_timer = Advanced(@)]

TickPort(s, p) ==
    IF s.port[p].state = "disabled" THEN s ELSE TickHold(TickForwardDelay(s, p), p)

PortSeq == SetToSortSeq(Ports, <)

stp_tick(s) ==
    FoldLeft(TickPort,
        FoldLeft(TickMessageAge, TickTopologyChange(TickTcn(TickHello(s))), PortSeq),
        PortSeq)

-----------------------------------------------------------------------------
(* Ports that go and come back.                                            *)

stp_port_disable(s, p) ==
    LET gone == [stp_become_designated_port(s, {p}) EXCEPT
                    !.port[p].state = "disabled",
                    !.port[p].topology_change_ack = FALSE,
                    !.port[p].config_pending = FALSE,
                    !.port[p].message_age_timer = Off,
                    !.port[p].forward_delay_timer = Off]
    IN  Reselect(gone, stp_is_root_bridge(s))

stp_initialize_port(s, p, state) ==
    [stp_become_designated_port(s, {p}) EXCEPT
        !.port[p].state = state,
        !.port[p].topology_change_ack = FALSE, !.port[p].config_pending = FALSE,
        !.port[p].message_age_timer = Off, !.port[p].forward_delay_timer = Off,
        !.port[p].hold_timer = Off]

stp_port_enable(s, p) ==
    stp_port_state_selection(stp_initialize_port(s, p, "blocking"))

(* stp_create and the first enabling of the ports that have a link.        *)
Created(b) ==
    LET disabled == [state |-> "disabled", designated_root |-> b,
                     designated_cost |-> 0, designated_bridge |-> b,
                     designated_port |-> 0, topology_change_ack |-> FALSE,
                     config_pending |-> FALSE, message_age_timer |-> Off,
                     forward_delay_timer |-> Off, hold_timer |-> Off]
        fresh == [bridge_id |-> b, designated_root |-> b, root_path_cost |-> 0,
                  root_port |-> 0, topology_change_detected |-> FALSE,
                  topology_change |-> FALSE, hello_timer |-> 0, tcn_timer |-> Off,
                  topology_change_timer |-> Off,
                  port |-> [p \in Ports |-> [disabled EXCEPT !.designated_port = p]],
                  out |-> [p \in Ports |-> << >>]]
        wired == SelectSeq(PortSeq, LAMBDA p : <<b, p>> \in Ends)
    IN  FoldLeft(stp_port_enable, fresh, wired)

-----------------------------------------------------------------------------
Init ==
    /\ bridge = [b \in Bridges |-> Created(b)]
    /\ wire = [e \in Ends |-> << >>]
    /\ faults = 0

(* What send_bpdu leaves of s once its frames are on the wires.            *)
Sent(s) == [s EXCEPT !.out = [p \in Ports |-> << >>]]

(* The handler has left the bridge b as s; "wires" is what it found.       *)
Left(b, s, wires) ==
    /\ bridge' = [bridge EXCEPT ![b] = Sent(s)]
    /\ wire' = [e \in Ends |-> IF e[1] = b THEN wires[e] \o s.out[e[2]] ELSE wires[e]]

(* Time passes on every bridge; the calls of stp_tick share nothing.       *)
Tick ==
    /\ \A e \in Ends : wire[e] = << >>
    /\ LET after == [b \in Bridges |-> stp_tick(bridge[b])]
       IN  /\ bridge' = [b \in Bridges |-> Sent(after[b])]
           /\ wire' = [e \in Ends |-> after[e[1]].out[e[2]]]
    /\ UNCHANGED faults

(* The first frame sent at the end e arrives at the other end of its link. *)
Deliver(e) ==
    /\ wire[e] # << >>
    /\ LET d == PeerOf(e)
       IN  Left(d[1], stp_received_bpdu(bridge[d[1]], d[2], Head(wire[e])),
                [wire EXCEPT ![e] = Tail(@)])
    /\ UNCHANGED faults

Lose(e) ==
    /\ faults < MaxFaults /\ wire[e] # << >>
    /\ wire' = [wire EXCEPT ![e] = Tail(@)]
    /\ faults' = faults + 1
    /\ UNCHANGED bridge

RemovePort(e) ==
    /\ faults < MaxFaults
    /\ bridge[e[1]].port[e[2]].state # "disabled"
    /\ Left(e[1], stp_port_disable(bridge[e[1]], e[2]), wire)
    /\ faults' = faults + 1

AddPort(e) ==
    /\ faults < MaxFaults
    /\ bridge[e[1]].port[e[2]].state = "disabled"
    /\ Left(e[1], stp_port_enable(bridge[e[1]], e[2]), wire)
    /\ faults' = faults + 1

Next ==
    \/ Tick
    \/ \E e \in Ends : Deliver(e) \/ Lose(e) \/ RemovePort(e) \/ AddPort(e)

Spec == Init /\ [][Next]_vars

(* The clocks run and the wires deliver: some tick or delivery, one or the *)
(* other always possible, always comes.  The bounds end the faults.        *)
FairSpec == Spec /\ []<><<UNCHANGED faults>>_vars

-----------------------------------------------------------------------------
(* What the protocol is for.                                               *)

StateOf(e) == bridge[e[1]].port[e[2]].state
UpLinks == {l \in Links : \A e \in l : StateOf(e) # "disabled"}
ForwardingLinks == {l \in Links : \A e \in l : StateOf(e) = "forwarding"}
Joins == [l \in Links |-> {e[1] : e \in l}]

(* No frame can go round: the links that forward at both ends never close  *)
(* a cycle, in any set of them there are fewer links than bridges -- not   *)
(* while the bridges disagree on the root, not after a message was lost,   *)
(* a port removed or added again (stp_make_blocking at once, but           *)
(* forwarding only after two forward delays).                              *)
NoForwardingLoop ==
    \A L \in (SUBSET ForwardingLinks) \ {{}} :
        Cardinality(L) < Cardinality(UNION {Joins[l] : l \in L})

ClosedUnder(S, L) == \A l \in L : Joins[l] \subseteq S \/ Joins[l] \cap S = {}

(* The tree stands: no port is on its way, the bridges on a link agree on  *)
(* a root with none lower below it, each has the least cost its neighbours *)
(* offer -- nothing for the root alone --, and the forwarding links reach  *)
(* all that the links that are up reach.                                   *)
Settled ==
    LET up == UpLinks
        root(b) == bridge[b].designated_root
        Offers(b) == {bridge[PeerOf(e)[1]].root_path_cost + PathCost[e] :
                        e \in {d \in UNION up : d[1] = b}}
    IN  /\ \A e \in Ends : StateOf(e) \notin {"listening", "learning"}
        /\ \A l \in up : \A a, b \in Joins[l] : root(a) = root(b)
        /\ \A b \in Bridges :
            /\ root(b) <= b
            /\ IF root(b) = b THEN bridge[b].root_path_cost = 0
               ELSE /\ bridge[b].root_path_cost \in Offers(b)
                    /\ \A cost \in Offers(b) : bridge[b].root_path_cost <= cost
        /\ LET forwarding == ForwardingLinks
           IN  \A S \in SUBSET Bridges :
                ClosedUnder(S, forwarding) => ClosedUnder(S, up)

(* Once nothing more is lost and no port comes or goes, the tree is built  *)
(* and stays: stale information about a root that is gone dies out         *)
(* (stp_message_age_timer_expiry) and no port flaps for ever.              *)
TreeIsBuilt == <>[]Settled

(* A change of topology seen by any bridge comes to the knowledge of its   *)
(* root, through the bridges in between and in spite of a lost frame       *)
(* (stp_tcn_timer_expiry, stp_received_tcn_bpdu).                          *)
ChangeReachesRoot ==
    \A b \in Bridges :
        bridge[b].topology_change_detected ~>
            bridge[bridge[b].designated_root].topology_change

=============================================================================
