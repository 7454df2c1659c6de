-------------------------- MODULE PipelineOutcomes --------------------------
(***************************************************************************)
(* What a walk of Pipeline is to put out, by the text of the protocol that *)
(* the comments of the code refer to: lists act at once, a group of a list *)
(* works on a copy, an action set holds one action of each kind, is        *)
(* executed in the order of the kinds, and in it a group overrides an      *)
(* output.  An outcome is the sequence of what is put out; buckets of      *)
(* SELECT and meters leave more than one.                                  *)
(*                                                                         *)
(* The protocol is a recursion over values: there are no packets that are  *)
(* shared or marked.  Its rules (Rules) say what the outcomes of each part *)
(* are made of, and the outcomes are the least sets that obey them; a run  *)
(* gives the operators the recursive definitions that compute these sets.  *)
(***************************************************************************)
EXTENDS Pipeline

CONSTANTS
  TableOutcomes(_, _, _, _),    \* of the header h in the walk c from the table t on, with the action set S
  InstOutcomes(_, _, _, _, _),  \* of the instructions I, after which the table "next" follows or the action set
  ListOutcomes(_, _, _),        \* of the list acts: pairs of an outcome and the header after it
  SetOutcomes(_, _, _),         \* of the action set S
  GroupOutcomes(_, _, _),       \* of the group g
  AllOutcomes(_, _, _)          \* of each of the buckets, one after the other

Outcomes(A, B) == {a \o b : a \in A, b \in B}

\* What is the same for all parts of a walk: where the packet came in, if it is
\* a packet-out, what the tables hold and which ports are down.
Context(in_port, packet_out) == [in_port |-> in_port, packet_out |-> packet_out, flows |-> flows, down |-> down]

-----------------------------------------------------------------------------
(* Outputs, sets and buckets *)

\* A packet whose time to live is up goes to controllers.
TablesOutcomes(h, c) == IF h.ttl < 1 THEN {<<<<OFPP_CONTROLLER, h>>>>} ELSE TableOutcomes(h, c, {}, 0)

\* Only a packet-out goes to the tables, and not from them again.
SendOutcomes(h, c, port) ==
  IF port = OFPP_CONTROLLER THEN {<<<<OFPP_CONTROLLER, h>>>>}
  ELSE IF port # OFPP_TABLE THEN {Copies([hdr |-> h, in_port |-> c.in_port], port, c.down)}
  ELSE IF c.packet_out THEN TablesOutcomes(h, [c EXCEPT !.packet_out = FALSE])
  ELSE {<<>>}

\* What the set S is once the action a is written to it, or all of acts.
WithAction(S, a) == {b \in S : ~Replaces(a, b)} \cup {a}

Written(S, acts) ==
  LET upto[i \in 0..Len(acts)] == IF i = 0 THEN S ELSE WithAction(upto[i - 1], acts[i])
  IN  upto[Len(acts)]

BucketOutcomes(h, c, b) == SetOutcomes(h, c, Written({}, b.actions))

\* The buckets of which one is to be executed.
Candidates(g, c) ==
  LET alive(i) == Buckets(g)[i].watch_port \in Ports \ c.down
  IN  {Buckets(g)[i] : i \in {j \in DOMAIN Buckets(g) :
         CASE Groups[g].type = "select" -> Buckets(g)[j].weight > 0
           [] Groups[g].type = "indirect" -> j = 1
           [] Groups[g].type = "ff" -> alive(j) /\ \A k \in 1..(j - 1) : ~alive(k)
           [] OTHER -> FALSE}}

\* The kinds of instruction in the order in which they are executed.
Stage == [meter |-> 1, apply |-> 2, clear |-> 3, write |-> 4, goto |-> 5]

\* The a of S that nothing else of S comes before.
FirstActions(S) == {a \in S : a.type \notin {"group", "output"} /\ \A b \in S : Order(a) <= Order(b)}
FirstInsts(I) == {inst \in I : \A other \in I : Stage[inst.type] <= Stage[other.type]}

-----------------------------------------------------------------------------
(* The rules *)

TableRule(h, c, S, t) ==
  IF c.flows[t] = NoEntry THEN <<>> \in TableOutcomes(h, c, S, t)
  ELSE InstOutcomes(h, c, S, c.flows[t], NoTable) \subseteq TableOutcomes(h, c, S, t)

\* After the last instruction the walk goes on, or executes the set.
InstsOverRule(h, c, S, next) ==
  (IF next = NoTable THEN SetOutcomes(h, c, S) ELSE TableOutcomes(h, c, S, next))
    \subseteq InstOutcomes(h, c, S, {}, next)

\* A meter lets a packet pass as it is, or remarked, or drops it.
MeterRule(h, c, S, I, next, inst) ==
  LET bands == {Bands[i].type : i \in DOMAIN Bands}
  IN  /\ InstOutcomes(h, c, S, I \ {inst}, next) \subseteq InstOutcomes(h, c, S, I, next)
      /\ "remark" \in bands =>
           InstOutcomes(Modify(h, Remark), c, S, I \ {inst}, next) \subseteq InstOutcomes(h, c, S, I, next)
      /\ "drop" \in bands => <<>> \in InstOutcomes(h, c, S, I, next)

InstRule(h, c, S, I, next, inst) ==
  LET of(hdr, set, table) == InstOutcomes(hdr, c, set, I \ {inst}, table)
      all == InstOutcomes(h, c, S, I, next)
  IN  CASE inst.type = "meter" -> MeterRule(h, c, S, I, next, inst)
        [] inst.type = "apply" ->
             \A l \in ListOutcomes(h, c, inst.acts) : Outcomes({l[1]}, of(l[2], S, next)) \subseteq all
        [] inst.type = "clear" -> of(h, {}, next) \subseteq all
        [] inst.type = "write" -> of(h, Written(S, inst.acts), next) \subseteq all
        [] inst.type = "goto" -> of(h, S, inst.table) \subseteq all

\* An output of a list is done at once and a group works on a copy.
ListRule(h, c, acts) ==
  LET a == Head(acts)
      first == IF a.type = "group" THEN GroupOutcomes(h, c, a.arg[1]) ELSE SendOutcomes(h, c, a.arg[1])
  IN  IF acts = <<>> THEN <<<<>>, h>> \in ListOutcomes(h, c, acts)
      ELSE IF a.type \in {"group", "output"}
      THEN \A s \in first : \A l \in ListOutcomes(h, c, Tail(acts)) : <<s \o l[1], l[2]>> \in ListOutcomes(h, c, acts)
      ELSE ListOutcomes(Modify(h, a), c, Tail(acts)) \subseteq ListOutcomes(h, c, acts)

SetRule(h, c, S) ==
  LET groups == {a \in S : a.type = "group"}
      outputs == {a \in S : a.type = "output"}
  IN  /\ \A a \in FirstActions(S) : SetOutcomes(Modify(h, a), c, S \ {a}) \subseteq SetOutcomes(h, c, S)
      /\ groups # {} => \A a \in outputs : SetOutcomes(h, c, S \ {a}) \subseteq SetOutcomes(h, c, S)
      /\ \A a \in groups : S = {a} => GroupOutcomes(h, c, a.arg[1]) \subseteq SetOutcomes(h, c, S)
      /\ \A a \in outputs : S = {a} => SendOutcomes(h, c, a.arg[1]) \subseteq SetOutcomes(h, c, S)
      /\ S = {} => <<>> \in SetOutcomes(h, c, S)

GroupRule(h, c, g) ==
  IF Groups[g].type = "all" THEN AllOutcomes(h, c, Buckets(g)) \subseteq GroupOutcomes(h, c, g)
  ELSE /\ \A b \in Candidates(g, c) : BucketOutcomes(h, c, b) \subseteq GroupOutcomes(h, c, g)
       /\ Candidates(g, c) = {} => <<>> \in GroupOutcomes(h, c, g)

AllRule(h, c, buckets) ==
  IF buckets = <<>> THEN <<>> \in AllOutcomes(h, c, buckets)
  ELSE Outcomes(BucketOutcomes(h, c, Head(buckets)), AllOutcomes(h, c, Tail(buckets))) \subseteq AllOutcomes(h, c, buckets)

Rules ==
  /\ \A h, c, S, t : TableRule(h, c, S, t)
  /\ \A h, c, S, next : InstsOverRule(h, c, S, next)
  /\ \A h, c, S, I, next : \A inst \in FirstInsts(I) : InstRule(h, c, S, I, next, inst)
  /\ \A h, c, acts : ListRule(h, c, acts)
  /\ \A h, c, S : SetRule(h, c, S)
  /\ \A h, c, g : GroupRule(h, c, g)
  /\ \A h, c, buckets : AllRule(h, c, buckets)

\* The actions of a bucket put the packet out.  That they do is not checked by
\* the code, and what becomes of the packet else is not as the protocol has it:
\* it goes to a port that the action set executed before the group left in it.
Sends(b) == \E i \in 1..Len(b.actions) : b.actions[i].type \in {"group", "output"}

BucketsSend == \A g \in DOMAIN Groups : \A b \in DOMAIN Buckets(g) : Sends(Buckets(g)[b])

-----------------------------------------------------------------------------
(* The property *)

WalkOutcomes ==
  LET c == Context(start.in_port, start.packet_out)
  IN  IF start.how = "list" THEN {l[1] : l \in ListOutcomes(start.hdr, c, start.acts)}
      ELSE TablesOutcomes(start.hdr, c)

\* What a walk has put out when it is over is what the protocol says of the
\* entries, groups and lists that it went through, of which the recursion,
\* the shared packet and the outputs noted in it are one way to do it
\* (pipeline_process_packet, dp_execute_action_list, action_set_execute and
\* group_entry_execute with all that they call).  A packet that was dropped
\* while it was in a buffer keeps its action set and its noted output, and a
\* walk that takes it from the buffer goes on with them: of these walks
\* nothing is said.
OutputsAsPromised == (~Idle /\ Top = Handler /\ start.new) => sent \in WalkOutcomes
=============================================================================
