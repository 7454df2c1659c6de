----------------------------- MODULE MCPipeline -----------------------------
(***************************************************************************)
(* Instances of Pipeline for TLC: two ports, two tables, and entries and   *)
(* packet-outs that between them use every instruction, group and output.  *)
(* The outcomes that PipelineOutcomes names are computed by a recursion    *)
(* that decides part by part, not rule by rule; that the result obeys the  *)
(* rules is an assumption, which TLC evaluates.                            *)
(***************************************************************************)
EXTENDS PipelineOutcomes

RECURSIVE MCTable(_, _, _, _), MCInsts(_, _, _, _, _), MCList(_, _, _), MCSet(_, _, _), MCGroup(_, _, _), MCAll(_, _, _)

Modified(h, S) ==
  FoldLeft(Modify, h, SetToSortSeq({a \in S : a.type \notin {"output", "group"}}, LAMBDA a, b : Order(a) < Order(b)))

MCSet(h, c, S) ==
  LET the(type) == {a.arg[1] : a \in {b \in S : b.type = type}}
  IN  IF the("group") # {} THEN UNION {MCGroup(Modified(h, S), c, g) : g \in the("group")}
      ELSE IF the("output") # {} THEN UNION {SendOutcomes(Modified(h, S), c, port) : port \in the("output")}
      ELSE {<<>>}

MCBucket(h, c, b) == MCSet(h, c, Written({}, b.actions))

MCAll(h, c, buckets) ==
  IF buckets = <<>> THEN {<<>>} ELSE Outcomes(MCBucket(h, c, Head(buckets)), MCAll(h, c, Tail(buckets)))

MCGroup(h, c, g) ==
  IF Groups[g].type = "all" THEN MCAll(h, c, Buckets(g))
  ELSE IF Candidates(g, c) = {} THEN {<<>>}
  ELSE UNION {MCBucket(h, c, b) : b \in Candidates(g, c)}

MCList(h, c, acts) ==
  IF acts = <<>> THEN {<<<<>>, h>>}
  ELSE LET a == Head(acts)
           first == CASE a.type = "group" -> MCGroup(h, c, a.arg[1])
                      [] a.type = "output" -> SendOutcomes(h, c, a.arg[1])
                      [] OTHER -> {<<>>}
           after == IF a.type \in {"group", "output"} THEN h ELSE Modify(h, a)
       IN  {<<s \o rest[1], rest[2]>> : s \in first, rest \in MCList(after, c, Tail(acts))}

MCInsts(h, c, S, I, next) ==
  LET has(type) == \E inst \in I : inst.type = type
      the(type) == CHOOSE inst \in I : inst.type = type
      bands == {Bands[i].type : i \in DOMAIN Bands}
      metered == IF has("meter") /\ "remark" \in bands THEN {h, Modify(h, Remark)} ELSE {h}
      applied == UNION {IF has("apply") THEN MCList(hm, c, the("apply").acts) ELSE {<<<<>>, hm>>} : hm \in metered}
      kept == IF has("clear") THEN {} ELSE S
      set == IF has("write") THEN Written(kept, the("write").acts) ELSE kept
      to == IF has("goto") THEN the("goto").table ELSE next
      over(hm) == IF to = NoTable THEN MCSet(hm, c, set) ELSE MCTable(hm, c, set, to)
  IN  UNION {Outcomes({l[1]}, over(l[2])) : l \in applied}
        \cup (IF has("meter") /\ "drop" \in bands THEN {<<>>} ELSE {})

MCTable(h, c, S, t) ==
  LET entry == c.flows[t]
  IN  IF entry = NoEntry THEN {<<>>} ELSE MCInsts(h, c, S, entry, NoTable)

Act(type, arg) == [type |-> type, arg |-> arg]
Out(port) == Act("output", <<port>>)
Group(g) == Act("group", <<g>>)
Set(field, value) == Act("set_field", <<field, value>>)
Pop == Act("pop_vlan", <<>>)
Push == Act("push_vlan", <<>>)
Dec == Act("dec_nw_ttl", <<>>)

Apply(acts) == [type |-> "apply", acts |-> acts]
Write(acts) == [type |-> "write", acts |-> acts]
Clear == [type |-> "clear"]
Goto(t) == [type |-> "goto", table |-> t]
MeterInst == [type |-> "meter"]

Bucket(acts, weight, watch_port) == [actions |-> acts, weight |-> weight, watch_port |-> watch_port]

\* Group 1 chains to group 2.
MCGroups == <<
  [type |-> "all", buckets |-> <<Bucket(<<Out(2), Set("vid", 1), Push>>, 0, OFPP_ANY), Bucket(<<Group(2), Set("dst", 1)>>, 0, OFPP_ANY)>>],
  [type |-> "select", buckets |-> <<Bucket(<<Out(1)>>, 2, OFPP_ANY), Bucket(<<Out(2)>>, 4, OFPP_ANY)>>],
  [type |-> "ff", buckets |-> <<Bucket(<<Set("dst", 2), Out(2)>>, 0, 2), Bucket(<<Out(OFPP_IN_PORT)>>, 0, 1)>>],
  [type |-> "indirect", buckets |-> <<Bucket(<<Set("vid", 1), Out(OFPP_TABLE)>>, 0, OFPP_ANY)>>],
  [type |-> "select", buckets |-> <<>>]>>

MCEntries == <<
  {{Apply(<<Group(1), Push, Out(OFPP_CONTROLLER)>>), Goto(1)},
   {MeterInst, Apply(<<Dec, Out(2)>>), Write(<<Set("dst", 1), Group(3), Out(2)>>), Goto(1)}},
  {{Clear, Apply(<<Group(3)>>), Write(<<Out(OFPP_IN_PORT), Pop>>)},
   {Write(<<Set("vid", 2), Out(OFPP_ALL), Group(2), Push>>)}}>>

MCEntriesOf == [t \in 0..1 |-> MCEntries[t + 1]]
MCBands == <<[type |-> "remark", rate |-> 1], [type |-> "drop", rate |-> 2]>>
MCLists == {<<Pop, Group(1), Group(5), Out(OFPP_CONTROLLER)>>, <<Dec, Group(4), Out(OFPP_IN_PORT), Out(OFPP_TABLE)>>}

-----------------------------------------------------------------------------
\* The definitions above obey the rules of PipelineOutcomes: for the entries,
\* lists, groups and buckets of this instance and all that is left of them.
SomeHeaders == {NewHeader(1), PushVlan(NewHeader(0))}
SomeContexts ==
  [in_port : InPorts, packet_out : BOOLEAN, down : {{}, Unstable},
   flows : {f \in [Tables -> UNION {MCEntriesOf[t] : t \in Tables} \cup {NoEntry}] :
              \A t \in Tables : f[t] \in MCEntriesOf[t] \cup {NoEntry}}]

SomeInsts == UNION {UNION {SUBSET entry : entry \in MCEntriesOf[t]} : t \in Tables}
ListsOf(type) == {inst.acts : inst \in {x \in UNION SomeInsts : x.type = type}}
SomeLists == UNION {Suffixes(acts) : acts \in MCLists \cup ListsOf("apply")}
WrittenSets == {Written({}, acts) : acts \in ListsOf("write")}
SomeBuckets == UNION {Suffixes(MCGroups[g].buckets) : g \in DOMAIN MCGroups}

ASSUME RulesHold ==
  \A h \in SomeHeaders, c \in SomeContexts :
    /\ \A S \in UNION {SUBSET T : T \in WrittenSets} : SetRule(h, c, S)
    /\ \A S \in WrittenSets :
         /\ \A t \in Tables : TableRule(h, c, S, t)
         /\ \A next \in {NoTable, 1} :
              /\ InstsOverRule(h, c, S, next)
              /\ \A I \in SomeInsts : \A inst \in FirstInsts(I) : InstRule(h, c, S, I, next, inst)
    /\ \A acts \in SomeLists : ListRule(h, c, acts)
    /\ \A g \in DOMAIN Groups : GroupRule(h, c, g)
    /\ \A buckets \in SomeBuckets : AllRule(h, c, buckets)

ASSUME BucketsAssumption == BucketsSend
=============================================================================
