------------------------------ MODULE Pipeline ------------------------------
(***************************************************************************)
(* What the switch does with a packet: pipeline.c, action_set.c,           *)
(* group_entry.c, meter_entry.c, dp_actions.c and the packet-out handler.  *)
(*                                                                         *)
(* The code is a recursion: the walk through the tables runs instructions, *)
(* these run lists of actions, these run groups, whose buckets run action  *)
(* sets, which run groups or put the packet out, which may start a walk.   *)
(* The calls that have not returned are the frames of the stack "work",    *)
(* the innermost first, and each step is one turn of one loop.  All of it  *)
(* runs in one thread, so messages and packets come in between two walks.  *)
(*                                                                         *)
(* A packet is its time to live, its tags and two fields.                  *)
(* Every packet of the run matches the same entry of each table (which one *)
(* that is, FlowTable says), and groups do not change (References).        *)
(***************************************************************************)
EXTENDS Lists

CONSTANTS
  Ports,         \* port numbers, from 1
  NumTables,     \* dp->pipeline_num_tables
  Groups,        \* for a group_id its type and buckets
  Bands,         \* the bands of the one meter, in packets per second
  RefillsPerSec, \* calls of meter_table_add_tokens in a second
  Entries,       \* for a table the sets of instructions that flow-mods bring
  Lists,         \* the lists of actions that packet-outs bring
  InPorts,       \* the ports that packets come in at
  Unstable,      \* the ports whose configuration changes
  TTLs,          \* of the packets that come in
  NumSlots,      \* packets that dp_buffers holds
  MaxTags        \* bound of the tags of a header

ASSUME PortsAssumption == Ports \subseteq 1..9 /\ InPorts \cup Unstable \subseteq Ports /\ NumTables \in Nat \ {0}
ASSUME BandsAssumption ==
  RefillsPerSec \in Nat \ {0} /\ Bands \in Seq([type : {"drop", "remark"}, rate : Nat \ {0}])

UINT16_MAX == 65535

VARIABLES
  work,   \* the calls that have not returned
  pkts,   \* the struct packets that are not freed
  flows,  \* for a table the instructions of the entry that packets match
  down,   \* ports with OFPPC_PORT_DOWN
  wrr,    \* group_entry_wrr_data of the groups of type SELECT
  meter,  \* tokens of the bands
  sent,   \* what the walk has put out
  start   \* what the walk began with

network == <<flows, down>>
vars == <<work, pkts, network, wrr, meter, sent, start>>

OFPP_IN_PORT == 11
OFPP_TABLE == 12
OFPP_ALL == 13
OFPP_CONTROLLER == 14
OFPP_ANY == 15
OFPG_ANY == 15

Tables == 0..(NumTables - 1)
NoTable == -1
NoEntry == {[type |-> "no entry"]}

\* ofl_actions_unpack refuses other types and an output to ANY, and
\* dp_actions_validate a group that is not there.
IsAction(a) ==
  /\ a.type \in {"pop_vlan", "push_vlan", "dec_nw_ttl", "set_field", "group", "output"}
  /\ a = [type |-> a.type, arg |-> a.arg]
  /\ a.type = "group" => a.arg = <<a.arg[1]>> /\ a.arg[1] \in DOMAIN Groups \ {OFPG_ANY}
  /\ a.type = "output" => a.arg = <<a.arg[1]>> /\ a.arg[1] # OFPP_ANY

IsList(acts) == acts \in Seq(Range(acts)) /\ \A i \in DOMAIN acts : IsAction(acts[i])

\* A weight has 16 bits and in a group of type SELECT is not 0
\* (ofl_structs_bucket_unpack).  A port to watch that is not there is looked up
\* all the same (bucket_is_alive): what a null pointer does is not modelled.
IsBucket(b, type) ==
  /\ IsList(b.actions) /\ b.watch_port \in Ports \cup {OFPP_ANY}
  /\ b.weight \in 0..UINT16_MAX /\ (type = "select" => b.weight # 0)

ASSUME ListsAssumption == \A acts \in Lists : IsList(acts)
ASSUME GroupsAssumption ==
  \A g \in DOMAIN Groups :
    /\ Groups[g].buckets \in Seq(Range(Groups[g].buckets))
    /\ \A b \in DOMAIN Groups[g].buckets : IsBucket(Groups[g].buckets[b], Groups[g].type)

Idle == work = <<>>
Handler == [op |-> "return"]
Top == Head(work)
Rest == Tail(work)
Working == {i \in DOMAIN work : work[i] # Handler}
Saved == {p \in DOMAIN pkts : pkts[p].saved}

\* A number that no packet has, for one that is created.
Fresh == CHOOSE n \in 0..Cardinality(DOMAIN pkts) : n \notin DOMAIN pkts

With(ps, p, r) == [x \in DOMAIN ps \cup {p} |-> IF x = p THEN r ELSE ps[x]]
Freed(ps, p) == [x \in DOMAIN ps \ {p} |-> ps[x]]

\* packet_create
NewPacket(hdr, in_port, packet_out) ==
  [hdr |-> hdr, in_port |-> in_port, set |-> <<>>, out_port |-> OFPP_ANY, out_group |-> OFPG_ANY,
   packet_out |-> packet_out, saved |-> FALSE]

\* No action set is left over in the packet, and no output.
IsNew(r) == r.set = <<>> /\ r.out_port = OFPP_ANY /\ r.out_group = OFPG_ANY

\* packet_clone: without the action set, the outputs and the place in the buffers.
Clone(r) == NewPacket(r.hdr, r.in_port, r.packet_out)

\* packet_destroy: a packet that is in a buffer stays.
Destroyed(ps, p) == IF ps[p].saved THEN ps ELSE Freed(ps, p)

\* dp_buffers_save: the packet is there already; or it is put into a free slot
\* or in place of a packet that was kept for OVERWRITE_SECS; or the next slot is
\* not to be overwritten and the packet is not saved.  A packet that was saved
\* in this walk is not overwritten, for the clock stands still.
Saves(ps, p) ==
  LET old == Saved \ {work[i].pkt : i \in Working}
      saved(s) == [s EXCEPT ![p].saved = TRUE]
  IN  IF ps[p].saved THEN {ps}
      ELSE (IF Cardinality(Saved) < NumSlots THEN {saved(ps)} ELSE {ps})
             \cup {saved(Freed(ps, x)) : x \in old}

-----------------------------------------------------------------------------
(* Instructions and action sets                                              *)

\* inst_compare, by which the instructions of an entry are sorted.
InstOrder == <<"meter", "apply", "clear", "write", "goto">>
InstRank(inst) == CHOOSE i \in DOMAIN InstOrder : InstOrder[i] = inst.type

\* That the table of a GOTO_TABLE is there is not looked at (execute_entry):
\* what is read past the end of pl->tables is not modelled.
IsInstruction(inst) ==
  /\ inst.type \in Range(InstOrder)
  /\ inst.type \in {"apply", "write"} => IsList(inst.acts)
  /\ inst.type = "goto" => inst.table \in Tables

ASSUME EntriesAssumption == \A t \in Tables : \A entry \in Entries[t] : \A inst \in entry : IsInstruction(inst)

\* action_set_order
Order(a) ==
  CASE a.type = "pop_vlan" -> 20
    [] a.type = "push_vlan" -> 30
    [] a.type = "dec_nw_ttl" -> 50
    [] a.type = "set_field" -> 60
    [] a.type = "group" -> 80
    [] a.type = "output" -> 90

Replaces(a, old) == a.type = old.type /\ (a.type = "set_field" => a.arg[1] = old.arg[1])

\* action_set_write_action: in place of the action it replaces, else before
\* the first one of a higher order.
WriteAction(set, a) ==
  LET hits == {i \in DOMAIN set : Replaces(a, set[i]) \/ Order(a) < Order(set[i])}
  IN  IF hits = {} THEN Append(set, a)
      ELSE LET i == CHOOSE j \in hits : \A k \in hits : j <= k
           IN  IF Replaces(a, set[i]) THEN [set EXCEPT ![i] = a] ELSE InsertAt(set, i, a)

Owned(a, owner) == [type |-> a.type, arg |-> a.arg, owner |-> owner]

\* action_set_write_actions.  The set points to the actions of their owner: the
\* entry of a table or, -1, a bucket.
WriteActions(set, acts, owner) ==
  LET after[i \in 0..Len(acts)] == IF i = 0 THEN set ELSE WriteAction(after[i - 1], Owned(acts[i], owner))
  IN  after[Len(acts)]

\* What the actions do to the header.  The vid is that of the outermost tag.
SetField(hdr, arg) ==
  IF arg[1] = "vid" THEN [hdr EXCEPT !.tags = IF @ = <<>> THEN @ ELSE <<arg[2]>> \o Tail(@)]
  ELSE [hdr EXCEPT !.fields[arg[1]] = arg[2]]

\* A new tag is a copy of the outermost one.
PushVlan(hdr) ==
  [hdr EXCEPT !.tags = IF Len(@) < MaxTags THEN <<IF @ = <<>> THEN 0 ELSE Head(@)>> \o @ ELSE @]

PopVlan(hdr) == [hdr EXCEPT !.tags = IF @ = <<>> THEN @ ELSE Tail(@)]
DecNwTtl(hdr) == [hdr EXCEPT !.ttl = IF @ > 0 THEN @ - 1 ELSE 0]

Modify(hdr, a) ==
  CASE a.type = "set_field" -> SetField(hdr, a.arg)
    [] a.type = "push_vlan" -> PushVlan(hdr)
    [] a.type = "pop_vlan" -> PopVlan(hdr)
    [] a.type = "dec_nw_ttl" -> DecNwTtl(hdr)

\* dp_execute_action
Execute(r, a) ==
  CASE a.type = "output" -> [r EXCEPT !.out_port = a.arg[1]]
    [] a.type = "group" -> [r EXCEPT !.out_group = a.arg[1]]
    [] OTHER -> [r EXCEPT !.hdr = Modify(@, a)]

-----------------------------------------------------------------------------
(* Output: dp_actions_output_port and dp_ports_output                        *)

\* Which of the ports a packet goes to when "off" are down, in the order of the list.
PortsFor(r, port, off) ==
  LET to == CASE port = OFPP_IN_PORT -> {r.in_port}
              [] port = OFPP_ALL -> Ports \ {r.in_port}
              [] OTHER -> {port} \ {r.in_port}
      up == (to \cap Ports) \ off
  IN  [i \in 1..Cardinality(up) |-> Nth(up, i)]

Copies(r, port, off) == [i \in DOMAIN PortsFor(r, port, off) |-> <<PortsFor(r, port, off)[i], r.hdr>>]

\* The packet p of ps is put out and the calls "then" go on.
Output(ps, p, port, then) ==
  \/ /\ port = OFPP_TABLE /\ ps[p].packet_out
     /\ LET c == Fresh IN
          /\ pkts' = With(ps, c, [Clone(ps[p]) EXCEPT !.packet_out = FALSE])
          /\ work' = <<[op |-> "process", pkt |-> c]>> \o then
     /\ UNCHANGED sent
  \/ /\ port = OFPP_TABLE /\ ~ps[p].packet_out
     /\ pkts' = ps /\ work' = then
     /\ UNCHANGED sent
  \/ /\ port = OFPP_CONTROLLER
     /\ pkts' \in Saves(ps, p)
     /\ sent' = Append(sent, <<OFPP_CONTROLLER, ps[p].hdr>>)
     /\ work' = then
  \/ /\ port \notin {OFPP_TABLE, OFPP_CONTROLLER}
     /\ sent' = sent \o Copies(ps[p], port, down)
     /\ pkts' = ps /\ work' = then

-----------------------------------------------------------------------------
(* The walk through the tables: pipeline_process_packet and execute_entry     *)

\* A packet whose time to live is up goes to controllers and not to a table.
Process ==
  /\ Top.op = "process"
  /\ IF pkts[Top.pkt].hdr.ttl < 1
     THEN /\ \E ps \in Saves(pkts, Top.pkt) : pkts' = Destroyed(ps, Top.pkt)
          /\ sent' = Append(sent, <<OFPP_CONTROLLER, pkts[Top.pkt].hdr>>)
          /\ work' = Rest
     ELSE /\ work' = <<[op |-> "table", pkt |-> Top.pkt, table |-> 0]>> \o Rest
          /\ UNCHANGED <<pkts, sent>>
  /\ UNCHANGED <<network, wrr, meter, start>>

\* Mutant: the table of the instruction before is still the next one.
NextTableKept(t) == t

\* next_table is reset in every turn.
NextTable(t) == NoTable

Table ==
  /\ Top.op = "table"
  /\ IF flows[Top.table] = NoEntry
     THEN /\ pkts' = Destroyed(pkts, Top.pkt)
          /\ work' = Rest
     ELSE /\ work' = <<[op |-> "insts", pkt |-> Top.pkt, table |-> Top.table,
                        insts |-> flows[Top.table], next |-> NextTable(Top.table)]>> \o Rest
          /\ UNCHANGED pkts
  /\ UNCHANGED <<network, wrr, meter, sent, start>>

\* All instructions are executed: the next table, or the action set.
InstsDone ==
  /\ Top.op = "insts" /\ Top.insts = {}
  /\ work' = <<IF Top.next = NoTable THEN [op |-> "set", pkt |-> Top.pkt]
               ELSE [op |-> "table", pkt |-> Top.pkt, table |-> Top.next]>> \o Rest
  /\ UNCHANGED <<pkts, network, wrr, meter, sent, start>>

\* The instruction that comes next, of those that are left.
Inst == CHOOSE inst \in Top.insts : \A other \in Top.insts : InstRank(inst) <= InstRank(other)
AtInst(type) == Top.op = "insts" /\ Top.insts # {} /\ Inst.type = type
NextInst == [Top EXCEPT !.insts = @ \ {Inst}]

ApplyActions ==
  /\ AtInst("apply")
  /\ work' = <<[op |-> "list", pkt |-> Top.pkt, acts |-> Inst.acts], NextInst>> \o Rest
  /\ UNCHANGED <<pkts, network, wrr, meter, sent, start>>

ClearActions ==
  /\ AtInst("clear")
  /\ pkts' = [pkts EXCEPT ![Top.pkt].set = <<>>]
  /\ work' = <<NextInst>> \o Rest
  /\ UNCHANGED <<network, wrr, meter, sent, start>>

WriteActionsInst ==
  /\ AtInst("write")
  /\ pkts' = [pkts EXCEPT ![Top.pkt].set = WriteActions(@, Inst.acts, Top.table)]
  /\ work' = <<NextInst>> \o Rest
  /\ UNCHANGED <<network, wrr, meter, sent, start>>

GotoTable ==
  /\ AtInst("goto")
  /\ work' = <<[NextInst EXCEPT !.next = Inst.table]>> \o Rest
  /\ UNCHANGED <<pkts, network, wrr, meter, sent, start>>

-----------------------------------------------------------------------------
(* Meters: meter_entry_apply, choose_band, consume_tokens, refill_bucket      *)

\* A packet takes 1000 tokens of each band that has them and a refill after
\* 1000 / RefillsPerSec milliseconds brings rate * 1000 / RefillsPerSec; here
\* both are divided by 1000 / RefillsPerSec.
Cost == RefillsPerSec

Exceeded == {i \in DOMAIN Bands : meter.tokens[i] < Cost}

\* Mutant: the band of the lowest rate is taken.
ChosenLowest == CHOOSE i \in Exceeded : \A j \in Exceeded : Bands[i].rate <= Bands[j].rate

\* choose_band: of the bands without tokens the first of those of the highest rate.
Chosen == CHOOSE i \in Exceeded : \A j \in Exceeded :
            Bands[i].rate > Bands[j].rate \/ (Bands[i].rate = Bands[j].rate /\ i <= j)

Consumed == [i \in DOMAIN Bands |-> IF i \in Exceeded THEN meter.tokens[i] ELSE meter.tokens[i] - Cost]

Dropped == Exceeded # {} /\ Bands[Chosen].type = "drop"

\* A band of type DSCP_REMARK sets a field.
Remark == [type |-> "set_field", arg |-> <<"dscp", 1>>]

Meter ==
  /\ AtInst("meter")
  /\ IF Dropped
     THEN /\ meter' = [meter EXCEPT !.tokens = Consumed, !.lost = TRUE]
          /\ pkts' = Destroyed(pkts, Top.pkt)
          /\ work' = Rest
     ELSE /\ meter' = [meter EXCEPT !.tokens = Consumed, !.passed = @ + 1]
          /\ pkts' = IF Exceeded = {} THEN pkts
                     ELSE [pkts EXCEPT ![Top.pkt].hdr = Modify(@, Remark)]
          /\ work' = <<NextInst>> \o Rest
  /\ UNCHANGED <<network, wrr, sent, start>>

\* refill_bucket, without OFPMF_BURST.  Less than a packet's tokens are not stored.
Refilled(i) ==
  LET tokens == meter.tokens[i] + Bands[i].rate
      cap == Bands[i].rate * RefillsPerSec
  IN  IF tokens < Cost THEN meter.tokens[i] ELSE IF tokens < cap THEN tokens ELSE cap

\* The timer of the datapath, between two packets.
Refill ==
  /\ meter' = [tokens |-> [i \in DOMAIN Bands |-> Refilled(i)], passed |-> 0, lost |-> FALSE, filled |-> TRUE]
  /\ UNCHANGED <<work, pkts, network, wrr, sent, start>>

-----------------------------------------------------------------------------
(* Lists of actions and action sets: dp_execute_action_list,                  *)
(* action_set_execute                                                         *)

\* Mutant: the copy for a group keeps the action set.
CopyForGroupWithSet(r) == [Clone(r) EXCEPT !.set = r.set]

CopyForGroup(r) == Clone(r)

\* One action of a list.  A group gets a copy, an output is done at once.
ListAction ==
  /\ Top.op = "list" /\ Top.acts # <<>>
  /\ LET p == Top.pkt
         r == Execute(pkts[p], Head(Top.acts))
         then == <<[Top EXCEPT !.acts = Tail(@)]>> \o Rest
     IN  IF r.out_group # OFPG_ANY
         THEN LET c == Fresh IN
                /\ pkts' = With(With(pkts, p, [r EXCEPT !.out_group = OFPG_ANY]), c, CopyForGroup(r))
                /\ work' = <<[op |-> "group", pkt |-> c, group |-> r.out_group]>> \o then
                /\ UNCHANGED sent
         ELSE IF r.out_port # OFPP_ANY
         THEN Output(With(pkts, p, [r EXCEPT !.out_port = OFPP_ANY]), p, r.out_port, then)
         ELSE pkts' = With(pkts, p, r) /\ work' = then /\ UNCHANGED sent
  /\ UNCHANGED <<network, wrr, meter, start>>

ListDone ==
  /\ Top.op = "list" /\ Top.acts = <<>>
  /\ work' = Rest
  /\ UNCHANGED <<pkts, network, wrr, meter, sent, start>>

\* One action of the set, which is taken off it.
SetAction ==
  /\ Top.op = "set" /\ pkts[Top.pkt].set # <<>>
  /\ LET r == pkts[Top.pkt]
     IN  pkts' = [pkts EXCEPT ![Top.pkt] = Execute([r EXCEPT !.set = Tail(@)], Head(r.set))]
  /\ UNCHANGED <<work, network, wrr, meter, sent, start>>

\* Mutant: the packet is not destroyed after its output.
AfterOutputNothing(p) == <<>>

AfterOutput(p) == <<[op |-> "destroy", pkt |-> p]>>

\* The set is done.  The packet is the group's, or it is put out and destroyed,
\* or there is neither and it is destroyed.
SetDone ==
  /\ Top.op = "set" /\ pkts[Top.pkt].set = <<>>
  /\ LET p == Top.pkt
         r == pkts[p]
     IN  IF r.out_group # OFPG_ANY
         THEN /\ pkts' = With(pkts, p, [r EXCEPT !.out_group = OFPG_ANY])
              /\ work' = <<[op |-> "group", pkt |-> p, group |-> r.out_group]>> \o Rest
              /\ UNCHANGED sent
         ELSE IF r.out_port # OFPP_ANY
         THEN Output(With(pkts, p, [r EXCEPT !.out_port = OFPP_ANY]), p, r.out_port, AfterOutput(p) \o Rest)
         ELSE pkts' = Destroyed(pkts, p) /\ work' = Rest /\ UNCHANGED sent
  /\ UNCHANGED <<network, wrr, meter, start>>

\* What called the walk, or the list of a packet-out, goes back to its loop.
Return ==
  /\ Top.op = "return"
  /\ work' = Rest
  /\ sent' = <<>> /\ start' = [how |-> "none"]
  /\ UNCHANGED <<pkts, network, wrr, meter>>

Destroy ==
  /\ Top.op = "destroy"
  /\ pkts' = Destroyed(pkts, Top.pkt)
  /\ work' = Rest
  /\ UNCHANGED <<network, wrr, meter, sent, start>>

-----------------------------------------------------------------------------
(* Groups: group_entry_execute                                                *)

Buckets(g) == Groups[g].buckets
Weights(g) == [b \in DOMAIN Buckets(g) |-> Buckets(g)[b].weight]
IsDivisor(d, g) == \A b \in DOMAIN Weights(g) : Weights(g)[b] % d = 0

Selecting == {g \in DOMAIN Groups : Groups[g].type = "select"}

MaxWeight == [g \in Selecting |-> Max({0} \cup Range(Weights(g)))]

GcdWeight == [g \in Selecting |->
  IF MaxWeight[g] = 0 THEN 0
  ELSE CHOOSE d \in 1..MaxWeight[g] : IsDivisor(d, g) /\ \A e \in 1..MaxWeight[g] : IsDivisor(e, g) => e <= d]

\* Mutant: the weight goes down to zero.
NextWeightZero(g, w) == IF w < GcdWeight[g] THEN MaxWeight[g] ELSE w - GcdWeight[g]

\* The weight of the next round over the buckets.
NextWeight(g, w) == IF w <= GcdWeight[g] THEN MaxWeight[g] ELSE w - GcdWeight[g]

\* The state of the selection after the buckets up to the k-th from the last
\* one were looked at.
Looked(g, k) ==
  LET n == Len(Buckets(g))
      at == wrr[g].curr_bucket + k
  IN  [curr_bucket |-> ((at - 1) % n) + 1,
       curr_weight |-> IF at > n THEN NextWeight(g, wrr[g].curr_weight) ELSE wrr[g].curr_weight]

\* select_from_select_group: the turns of its loop up to the one that selects.
Turns(g) ==
  LET hits == {k \in 1..Len(Buckets(g)) : Weights(g)[Looked(g, k).curr_bucket] >= Looked(g, k).curr_weight}
  IN  IF hits = {} THEN 0 ELSE CHOOSE k \in hits : \A j \in hits : k <= j

\* init_select_group.  Before the first round curr_bucket is the one before the
\* first and curr_weight is 0; this round begins like any other.
NewWrr(g) == [curr_bucket |-> Len(Buckets(g)), curr_weight |-> 0,
              chosen |-> [b \in DOMAIN Buckets(g) |-> 0]]

\* How often each bucket was chosen, from the beginning of a round: a round is
\* over when each bucket has had its share.
Counted(g, b) ==
  LET chosen == wrr[g].chosen
      over == \A c \in DOMAIN chosen : chosen[c] * GcdWeight[g] = Weights(g)[c]
  IN  [c \in DOMAIN chosen |-> (IF over THEN 0 ELSE chosen[c]) + (IF c = b THEN 1 ELSE 0)]

\* bucket_is_alive
IsAlive(b) == b.watch_port # OFPP_ANY /\ b.watch_port \notin down

AtGroup(type) == Top.op = "group" /\ Groups[Top.group].type = type

\* The packet itself is given to the bucket.
ToBucket(b) ==
  /\ pkts' = [pkts EXCEPT ![Top.pkt].set = WriteActions(@, b.actions, -1)]
  /\ work' = <<[op |-> "set", pkt |-> Top.pkt]>> \o Rest

NoBucket ==
  /\ pkts' = Destroyed(pkts, Top.pkt)
  /\ work' = Rest

\* execute_all: each bucket gets a copy, and then the packet is destroyed.
ExecuteAll ==
  /\ AtGroup("all")
  /\ work' = <<[op |-> "all", pkt |-> Top.pkt, buckets |-> Buckets(Top.group)]>> \o Rest
  /\ UNCHANGED <<pkts, network, wrr, meter, sent, start>>

NextOfAll ==
  /\ Top.op = "all"
  /\ IF Top.buckets = <<>> THEN NoBucket
     ELSE LET c == Fresh IN
            /\ pkts' = With(pkts, c, [Clone(pkts[Top.pkt]) EXCEPT
                                        !.set = WriteActions(@, Head(Top.buckets).actions, -1)])
            /\ work' = <<[op |-> "set", pkt |-> c], [Top EXCEPT !.buckets = Tail(@)]>> \o Rest
  /\ UNCHANGED <<network, wrr, meter, sent, start>>

ExecuteSelect ==
  /\ AtGroup("select")
  /\ LET g == Top.group
         k == Turns(g)
     IN  IF k = 0 THEN NoBucket /\ UNCHANGED wrr
         ELSE LET now == Looked(g, k) IN
                /\ ToBucket(Buckets(g)[now.curr_bucket])
                /\ wrr' = [wrr EXCEPT ![g] = [curr_bucket |-> now.curr_bucket, curr_weight |-> now.curr_weight,
                                              chosen |-> Counted(g, now.curr_bucket)]]
  /\ UNCHANGED <<network, meter, sent, start>>

ExecuteIndirect ==
  /\ AtGroup("indirect")
  /\ IF Buckets(Top.group) = <<>> THEN NoBucket ELSE ToBucket(Head(Buckets(Top.group)))
  /\ UNCHANGED <<network, wrr, meter, sent, start>>

\* execute_ff: the first bucket that is alive.
ExecuteFf ==
  /\ AtGroup("ff")
  /\ LET alive == {b \in DOMAIN Buckets(Top.group) : IsAlive(Buckets(Top.group)[b])}
     IN  IF alive = {} THEN NoBucket
         ELSE ToBucket(Buckets(Top.group)[CHOOSE b \in alive : \A other \in alive : b <= other])
  /\ UNCHANGED <<network, wrr, meter, sent, start>>

-----------------------------------------------------------------------------
(* What comes from outside, between two walks                                 *)

Begins(how, r, acts) == [how |-> how, hdr |-> r.hdr, in_port |-> r.in_port,
                         packet_out |-> r.packet_out, new |-> IsNew(r), acts |-> acts]

NewHeader(ttl) == [ttl |-> ttl, tags |-> <<>>, fields |-> [f \in {"dst", "dscp"} |-> 0]]

\* A packet comes in at a port.
Arrive ==
  \E port \in InPorts \ down, ttl \in TTLs :
    LET r == NewPacket(NewHeader(ttl), port, FALSE) IN
    /\ pkts' = With(pkts, Fresh, r)
    /\ work' = <<[op |-> "process", pkt |-> Fresh], Handler>>
    /\ sent' = <<>>
    /\ start' = Begins("tables", r, <<>>)
    /\ UNCHANGED <<network, wrr, meter>>

\* handle_control_packet_out with the packet in the message.
PacketOut ==
  \E acts \in Lists, in_port \in InPorts, ttl \in TTLs :
    LET r == NewPacket(NewHeader(ttl), in_port, TRUE) IN
    /\ pkts' = With(pkts, Fresh, r)
    /\ work' = <<[op |-> "list", pkt |-> Fresh, acts |-> acts], [op |-> "destroy", pkt |-> Fresh], Handler>>
    /\ sent' = <<>>
    /\ start' = Begins("list", r, acts)
    /\ UNCHANGED <<network, wrr, meter>>

\* dp_buffers_retrieve
Retrieved(r) == [r EXCEPT !.saved = FALSE, !.packet_out = FALSE]

\* handle_control_packet_out with a buffer id.
PacketOutBuffered ==
  \E acts \in Lists, p \in Saved :
    /\ pkts' = [pkts EXCEPT ![p] = Retrieved(@)]
    /\ work' = <<[op |-> "list", pkt |-> p, acts |-> acts], [op |-> "destroy", pkt |-> p], Handler>>
    /\ sent' = <<>>
    /\ start' = Begins("list", Retrieved(pkts[p]), acts)
    /\ UNCHANGED <<network, wrr, meter>>

\* The entry of the table t is freed, and with it the actions that sets point to.
EntryFreed(ps, t) ==
  [p \in DOMAIN ps |-> [ps[p] EXCEPT !.set =
     [i \in DOMAIN ps[p].set |-> IF ps[p].set[i].owner = t THEN [ps[p].set[i] EXCEPT !.owner = -2] ELSE ps[p].set[i]]]]

\* pipeline_handle_flow_mod_with_timestamp: in the last table no instruction
\* goes to another one.  That a table goes to a later one is not looked at.
IsAccepted(t, entry) == t = NumTables - 1 => \A inst \in entry : inst.type # "goto"

FlowMod ==
  \E t \in Tables : \E entry \in Entries[t] :
    /\ entry # flows[t] /\ IsAccepted(t, entry)
    /\ flows' = [flows EXCEPT ![t] = entry]
    /\ pkts' = EntryFreed(pkts, t)
    /\ UNCHANGED <<work, down, wrr, meter, sent, start>>

\* A flow-mod with a buffer id: its packet goes through the tables.
FlowModBuffered ==
  \E t \in Tables : \E entry \in Entries[t], p \in Saved :
    /\ entry # flows[t] /\ IsAccepted(t, entry)
    /\ flows' = [flows EXCEPT ![t] = entry]
    /\ pkts' = [EntryFreed(pkts, t) EXCEPT ![p] = Retrieved(@)]
    /\ work' = <<[op |-> "process", pkt |-> p], Handler>>
    /\ sent' = <<>>
    /\ start' = Begins("tables", Retrieved(pkts[p]), <<>>)
    /\ UNCHANGED <<down, wrr, meter>>

\* An entry is deleted or its time is out.
FlowRemoved ==
  \E t \in Tables :
    /\ flows[t] # NoEntry
    /\ flows' = [flows EXCEPT ![t] = NoEntry]
    /\ pkts' = EntryFreed(pkts, t)
    /\ UNCHANGED <<work, down, wrr, meter, sent, start>>

\* The configuration of a port is changed.
PortMod ==
  \E port \in Unstable :
    /\ down' = IF port \in down THEN down \ {port} ELSE down \cup {port}
    /\ UNCHANGED <<work, pkts, flows, wrr, meter, sent, start>>

-----------------------------------------------------------------------------
Init ==
  /\ work = <<>> /\ pkts = <<>>
  /\ flows = [t \in Tables |-> NoEntry] /\ down = {}
  /\ wrr = [g \in Selecting |-> NewWrr(g)]
  /\ meter = [tokens |-> [i \in DOMAIN Bands |-> 0], passed |-> 0, lost |-> FALSE, filled |-> FALSE]
  /\ sent = <<>>
  /\ start = [how |-> "none"]

Walk ==
  \/ Process \/ Table \/ InstsDone
  \/ ApplyActions \/ ClearActions \/ WriteActionsInst \/ GotoTable \/ Meter
  \/ ListAction \/ ListDone \/ SetAction \/ SetDone \/ Destroy \/ Return
  \/ ExecuteAll \/ NextOfAll \/ ExecuteSelect \/ ExecuteIndirect \/ ExecuteFf

Event ==
  \/ Arrive \/ PacketOut \/ PacketOutBuffered
  \/ FlowMod \/ FlowModBuffered \/ FlowRemoved
  \/ PortMod \/ Refill

Next == (~Idle /\ Walk) \/ (Idle /\ Event)

Spec == Init /\ [][Next]_vars

\* A call is run to its end: WF_vars(~Idle /\ Walk), written out, for a call
\* that has not returned can always go on and nothing else may happen meanwhile.
FairSpec == Spec /\ ([]<>Idle \/ []<><<~Idle>>_vars)

-----------------------------------------------------------------------------
(* Properties                                                                 *)

\* A call of the program works on packets that exist, and a packet that no call
\* works on is in a buffer: none is used after it was freed, freed while it is
\* to be used, or forgotten ("This function takes ownership of the packet and
\* will destroy it", pipeline.c:131, and "It will be destroyed", action_set.c).
EachPacketIsOwned ==
  LET worked == {work[i].pkt : i \in Working}
  IN  /\ worked \subseteq DOMAIN pkts
      /\ DOMAIN pkts = worked \cup Saved

\* Every walk ends: tables that go to later ones and groups without a circle
\* give the recursion an end, as the comment above pipeline_process_packet has
\* it that the packet is destroyed.
WalkEnds == []<>Idle

\* A group of type SELECT gives each bucket its share, exactly: in each round of
\* as many packets as the weights have parts, a bucket gets its parts
\* (select_from_select_group and init_select_group).
SharesByWeight ==
  \A g \in DOMAIN wrr : \A b \in DOMAIN wrr[g].chosen : wrr[g].chosen[b] * GcdWeight[g] <= Weights(g)[b]

\* A packet that finds the band without tokens is dropped: the band taken for it
\* is one of at least this rate (choose_band).
Limits(i) == \A j \in DOMAIN Bands : Bands[j].rate >= Bands[i].rate => Bands[j].type = "drop"

\* What the meter lets through between two refills is at most what a second
\* brings to a drop band that no remark band of its rate or more stands in for,
\* and the meter drops only if as much as one refill brings to a drop band has
\* passed since (consume_tokens, choose_band, refill_bucket).
MeterKeepsRate ==
  /\ \A i \in DOMAIN Bands : Limits(i) => meter.passed <= Bands[i].rate
  /\ meter.lost /\ meter.filled =>
       \E i \in DOMAIN Bands : Bands[i].type = "drop" /\ meter.passed >= Bands[i].rate \div RefillsPerSec

=============================================================================
