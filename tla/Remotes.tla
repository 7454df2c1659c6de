------------------------------ MODULE Remotes ------------------------------
(***************************************************************************)
(* The controllers of a switch, as datapath.c keeps them, and the requests *)
(* that change more than one thing of the switch: roles and the generation *)
(* ids that order the masters, the configuration of asynchronous messages, *)
(* table-features requests that come in pieces (pipeline.c), and the ports *)
(* whose changes are announced to every controller.                        *)
(*                                                                         *)
(* A handler runs to its end, so each message of a controller is one step; *)
(* the messages of different controllers come in any order.  What flow,    *)
(* group and meter messages do is in other modules; all that concerns them *)
(* here is that a slave's are refused.                                     *)
(***************************************************************************)
EXTENDS Lists

CONSTANTS
  Controllers,     \* what may become a remote
  Modulus,         \* 2^64: generation ids wrap around
  NumTables,       \* pl->num_tables
  MaxEntries,      \* FLOW_TABLE_MAX_ENTRIES
  TablesPerReply,  \* 8
  Ports,           \* numbers of the ports
  AsyncConfigs,    \* asynchronous configurations that controllers ask for
  Pieces,          \* table-features messages
  MaxPending,      \* bound of the features of a request under reassembly
  MaxAdvance       \* bound of the advance of the generation id

Tables == 0..(NumTables - 1)

\* The asynchronous messages, by their reasons.
PacketIns == {"OFPR_NO_MATCH", "OFPR_ACTION", "OFPR_INVALID_TTL"}
PortStatuses == {"OFPPR_ADD", "OFPPR_DELETE", "OFPPR_MODIFY"}
FlowRemoveds == {"OFPRR_IDLE_TIMEOUT", "OFPRR_HARD_TIMEOUT", "OFPRR_DELETE", "OFPRR_GROUP_DELETE",
                 "OFPRR_METER_DELETE"}
Reasons == PacketIns \cup PortStatuses \cup FlowRemoveds

\* The masks of a remote: [0] for a master or an equal, [1] for a slave.
Masks == [full : SUBSET Reasons, slave : SUBSET Reasons]

Feature == [table_id : Nat, max_entries : Nat]
Piece == [xid : Nat, features : Seq(Feature), more : BOOLEAN]

ASSUME GenerationsAssumption == Modulus \in Nat /\ Modulus > 1 /\ MaxAdvance \in Nat
ASSUME TablesAssumption ==
  NumTables \in Nat \ {0} /\ MaxEntries \in Nat /\ TablesPerReply \in Nat \ {0} /\ MaxPending \in Nat
ASSUME RequestsAssumption == AsyncConfigs \subseteq Masks /\ Pieces \subseteq Piece

VARIABLES
  role,           \* role of each remote; its domain is the list dp->remotes
  config,         \* config of each remote: what it wants to be told
  mp_req,         \* mp_req_msg and mp_req_xid of each remote
  generation_id,  \* dp->generation_id
  tables,         \* features and disabled of each table of the pipeline
  ports,          \* configuration and state of each port
  told,           \* the role in the last role reply to each remote
  granted,        \* the generation of the last reply that made it master
  pieces          \* the pieces of each remote taken since its last request

requests == <<mp_req, pieces>>
roles == <<role, told, granted>>
vars == <<role, config, mp_req, generation_id, tables, ports, told, granted, pieces>>

remotes == DOMAIN role

EQUAL == "EQUAL"
MASTER == "MASTER"
SLAVE == "SLAVE"
NoGeneration == -1
NoRequest == [xid |-> -1, features |-> <<>>]

Generations == 0..(Modulus - 1)

With(f, r, v) == [x \in DOMAIN f \cup {r} |-> IF x = r THEN v ELSE f[x]]
Minus(f, r) == [x \in DOMAIN f \ {r} |-> f[x]]

-----------------------------------------------------------------------------
(* Connections: remote_create and remote_destroy                              *)

\* Every remote starts as an equal that is told of everything.
Connect(r) ==
  /\ r \notin remotes
  /\ role' = With(role, r, EQUAL)
  /\ config' = With(config, r, [full |-> Reasons, slave |-> Reasons])
  /\ mp_req' = With(mp_req, r, NoRequest)
  /\ told' = With(told, r, EQUAL)
  /\ granted' = With(granted, r, NoGeneration)
  /\ pieces' = With(pieces, r, <<>>)
  /\ UNCHANGED <<generation_id, tables, ports>>

Disconnect(r) ==
  /\ r \in remotes
  /\ role' = Minus(role, r)
  /\ config' = Minus(config, r)
  /\ mp_req' = Minus(mp_req, r)
  /\ told' = Minus(told, r)
  /\ granted' = Minus(granted, r)
  /\ pieces' = Minus(pieces, r)
  /\ UNCHANGED <<generation_id, tables, ports>>

-----------------------------------------------------------------------------
(* Roles: dp_handle_role_request                                              *)

\* (int64_t)(new_gen_id - dp->generation_id), as the distance ahead.
Ahead(new, old) == (new - old) % Modulus

\* Mutant: generation ids are compared as plain numbers.
IsStalePlain(new) == new < generation_id /\ generation_id # Modulus - 1

\* generation_id is unsigned: that it was never set is not told apart from its
\* largest value.
IsStale(new) == 2 * Ahead(new, generation_id) >= Modulus

\* Mutant: only a request with a newer generation demotes the master.
DemotedIfNewer(r, generation) ==
  [x \in remotes |-> IF x = r THEN MASTER
                     ELSE IF role[x] = MASTER /\ generation # generation_id THEN SLAVE ELSE role[x]]

Demoted(r, generation) ==
  [x \in remotes |-> IF x = r THEN MASTER ELSE IF role[x] = MASTER THEN SLAVE ELSE role[x]]

Reply(r, new_role, generation) ==
  /\ told' = [told EXCEPT ![r] = new_role]
  /\ granted' = [granted EXCEPT ![r] = IF new_role = MASTER THEN generation ELSE NoGeneration]

\* Mutant: a slave's role is set before its generation is looked at.
RoleAfterSlave(r, generation) == [role EXCEPT ![r] = SLAVE]

RoleAfter(r, generation) == IF IsStale(generation) THEN role ELSE [role EXCEPT ![r] = SLAVE]

RoleNoChange(r) ==
  /\ Reply(r, role[r], generation_id)
  /\ UNCHANGED <<role, generation_id>>

RoleEqual(r, generation) ==
  /\ role' = [role EXCEPT ![r] = EQUAL]
  /\ Reply(r, EQUAL, generation)
  /\ UNCHANGED generation_id

RoleMaster(r, generation) ==
  IF IsStale(generation) THEN UNCHANGED <<roles, generation_id>>
  ELSE /\ generation_id' = generation
       /\ role' = Demoted(r, generation)
       /\ Reply(r, MASTER, generation)

RoleSlave(r, generation) ==
  /\ role' = RoleAfter(r, generation)
  /\ IF IsStale(generation) THEN UNCHANGED <<told, granted, generation_id>>
     ELSE generation_id' = generation /\ Reply(r, SLAVE, generation)

RoleRequest(r, generation) ==
  /\ r \in remotes
  /\ IsStale(generation) \/ Ahead(generation, Modulus - 1) <= MaxAdvance
  /\ \/ RoleNoChange(r)
     \/ RoleEqual(r, generation)
     \/ RoleMaster(r, generation)
     \/ RoleSlave(r, generation)
  /\ UNCHANGED <<config, requests, tables, ports>>

-----------------------------------------------------------------------------
(* Asynchronous messages: dp_handle_async_request, send_openflow_buffer       *)

SetAsync(r, masks) ==
  /\ r \in remotes
  /\ config' = [config EXCEPT ![r] = masks]
  /\ UNCHANGED <<roles, requests, generation_id, tables, ports>>

\* Whom an asynchronous message is sent to.  For a PORT_STATUS the switch
\* statement runs on into the case of FLOW_REMOVED, whose reason is then an octet
\* of the port number; it is 0, which is IDLE_TIMEOUT, for the ports below 256.
Receivers(reason) ==
  {r \in remotes :
     IF role[r] = SLAVE THEN reason \in PortStatuses \cap config[r].slave
     ELSE /\ reason \in config[r].full
          /\ reason \in PortStatuses => "OFPRR_IDLE_TIMEOUT" \in config[r].full}

-----------------------------------------------------------------------------
(* Ports: dp_ports_handle_port_mod, OFSwitch13Port::PortUpdateState           *)

IsLive(down, link_down) == ~link_down /\ ~down

PortMod(r, p, down) ==
  /\ r \in remotes
  /\ role[r] # SLAVE
  /\ ports' = [ports EXCEPT ![p].down = down, ![p].live = IsLive(down, ports[p].link_down)]
  /\ UNCHANGED <<roles, config, requests, generation_id, tables>>

LinkChange(p) ==
  /\ ports' = [ports EXCEPT ![p].link_down = ~@, ![p].live = IsLive(ports[p].down, ~ports[p].link_down)]
  /\ UNCHANGED <<roles, config, requests, generation_id, tables>>

-----------------------------------------------------------------------------
(* Tables: pipeline_handle_stats_request_table_features_request               *)

IsBadTable(piece) == \E i \in DOMAIN piece.features : piece.features[i].table_id >= NumTables

IsForeign(r, piece) == mp_req[r] # NoRequest /\ mp_req[r].xid # piece.xid

\* Mutant: the last piece is used instead of what was put together.
MergedLast(r, piece) == piece.features

Merged(r, piece) == mp_req[r].features \o piece.features

Listed(features, t) == {i \in DOMAIN features : features[i].table_id = t}

LastOf(features, t) == features[CHOOSE i \in Listed(features, t) : \A j \in Listed(features, t) : j <= i]

\* The check that the table ids ascend compares them with 0 and never fails.
Applied(features) ==
  [t \in Tables |->
     IF Listed(features, t) = {} THEN [tables[t] EXCEPT !.disabled = TRUE]
     ELSE [max_entries |-> LastOf(features, t).max_entries, disabled |-> FALSE]]

IsTooLarge(features) == \E i \in DOMAIN features : features[i].max_entries > MaxEntries

PendingAfter(r, features) == NoRequest

\* A request that is complete: a query if its body is empty, refused if a table
\* would be too large, and otherwise the new features of the pipeline.
Complete(r, features) ==
  /\ tables' = IF features = <<>> \/ IsTooLarge(features) THEN tables ELSE Applied(features)
  /\ mp_req' = [mp_req EXCEPT ![r] = PendingAfter(r, features)]
  /\ pieces' = [pieces EXCEPT ![r] = <<>>]

\* A message of a slave is handled as well.  One with a table that does not exist,
\* or with another transaction id than the pieces before it, is refused and
\* changes nothing: they stay.
TableFeatures(r, piece) ==
  /\ r \in remotes
  /\ ~IsBadTable(piece) /\ ~IsForeign(r, piece)
  /\ \/ ~piece.more /\ Complete(r, Merged(r, piece))
     \/ /\ piece.more
        /\ Len(Merged(r, piece)) <= MaxPending
        /\ mp_req' = [mp_req EXCEPT ![r] = [xid |-> piece.xid, features |-> Merged(r, piece)]]
        /\ pieces' = [pieces EXCEPT ![r] = Append(@, piece)]
        /\ UNCHANGED tables
  /\ UNCHANGED <<roles, config, generation_id, ports>>

\* Mutant: a full message is never the last one.
MoreIfFull(next, full) == full

More(next, full) == next # NumTables

\* The tables from t on that are not disabled.
Enabled(t) == {v \in Tables : v >= t /\ ~tables[v].disabled}

\* The replies to a request: the tables that are not disabled, in order, some in
\* each message; each but the last says that more follow.
RepliesFrom[t \in 0..NumTables] ==
  LET full == Cardinality(Enabled(t)) >= TablesPerReply
      num == IF full THEN TablesPerReply ELSE Cardinality(Enabled(t))
      next == IF full THEN Nth(Enabled(t), TablesPerReply) + 1 ELSE NumTables
      reply == [tables |-> [n \in 1..num |-> Nth(Enabled(t), n)], more |-> More(next, full)]
  IN  <<reply>> \o (IF next = NumTables THEN <<>> ELSE RepliesFrom[next])

-----------------------------------------------------------------------------
Init ==
  /\ role = <<>> /\ config = <<>> /\ mp_req = <<>>
  /\ told = <<>> /\ granted = <<>> /\ pieces = <<>>
  /\ generation_id = Modulus - 1
  /\ tables = [t \in Tables |-> [max_entries |-> MaxEntries, disabled |-> FALSE]]
  /\ ports = [p \in Ports |-> [down |-> FALSE, link_down |-> FALSE, live |-> TRUE]]

Next ==
  \/ \E r \in Controllers :
       \/ Connect(r)
       \/ Disconnect(r)
       \/ \E generation \in Generations : RoleRequest(r, generation)
       \/ \E masks \in AsyncConfigs : SetAsync(r, masks)
       \/ \E p \in Ports, down \in BOOLEAN : PortMod(r, p, down)
       \/ \E piece \in Pieces : TableFeatures(r, piece)
  \/ \E p \in Ports : LinkChange(p)

Spec == Init /\ [][Next]_vars

-----------------------------------------------------------------------------
(* Properties *)

\* Every variable has its type.
TypeOK ==
  /\ role \in [remotes -> {EQUAL, MASTER, SLAVE}] /\ remotes \subseteq Controllers
  /\ config \in [remotes -> Masks]
  /\ DOMAIN mp_req = remotes
  /\ \A r \in remotes : mp_req[r] = NoRequest \/ (mp_req[r].xid \in Nat /\ mp_req[r].features \in Seq(Feature))
  /\ generation_id \in Generations
  /\ tables \in [Tables -> [max_entries : 0..MaxEntries, disabled : BOOLEAN]]
  /\ ports \in [Ports -> [down : BOOLEAN, link_down : BOOLEAN, live : BOOLEAN]]
  /\ told \in [remotes -> {EQUAL, MASTER, SLAVE}]
  /\ granted \in [remotes -> Generations \cup {NoGeneration}]
  /\ pieces \in [remotes -> Seq(Piece)]

\* "Full access, at most one master" (openflow.h).
AtMostOneMaster == \A r, s \in remotes : role[r] = MASTER /\ role[s] = MASTER => r = s

\* A remote knows its role from the last reply it got; all that it may have
\* missed is that another one demoted it.  A request that is refused changes
\* nothing behind its back.
ToldIsTrue == \A r \in remotes : told[r] = role[r] \/ (told[r] = MASTER /\ role[r] = SLAVE)

\* The generation ids settle who is master: one that was demoted without being
\* told has no newer generation than the master.
NewestIsMaster ==
  \A r, s \in remotes :
    role[r] = MASTER /\ granted[s] # NoGeneration => 2 * Ahead(granted[r], granted[s]) < Modulus

\* When a request takes effect, the tables that are enabled afterwards are those
\* that its pieces list, from the first piece to the last.
RequestsApplyWhole ==
  [][tables' # tables =>
       \A r \in remotes, piece \in Pieces : TableFeatures(r, piece) =>
         {t \in Tables : ~tables'[t].disabled} =
           UNION {{p.features[i].table_id : i \in DOMAIN p.features} :
                    p \in ToSet(pieces[r]) \cup {piece}}]_vars

\* The replies list every enabled table from t on once, in order, and only the
\* last one says that nothing follows.
AreWhole(replies, t) ==
  /\ UNION {ToSet(replies[i].tables) : i \in DOMAIN replies} = Enabled(t)
  /\ \A i, j \in DOMAIN replies :
       \A m \in DOMAIN replies[i].tables, n \in DOMAIN replies[j].tables :
         i < j \/ (i = j /\ m < n) => replies[i].tables[m] < replies[j].tables[n]
  /\ \A i \in DOMAIN replies : replies[i].more <=> i < Len(replies)

\* The replies to a query of the tables are whole, whichever are disabled.
RepliesAreWhole == AreWhole(RepliesFrom[0], 0)

=============================================================================
