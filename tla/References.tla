------------------------------ MODULE References ------------------------------
(***************************************************************************)
(* The group table and the meter table of the datapath, and the references *)
(* that tie flow entries to them: group_table.c, group_entry.c,            *)
(* meter_table.c, meter_entry.c and the reference lists of flow_entry.c.   *)
(*                                                                         *)
(* A flow entry lists the groups and meters its instructions name; each of *)
(* those lists the flow entries that name it, and takes them along when it *)
(* is deleted.  Which entry a flow-mod adds, replaces, modifies or removes *)
(* is the business of module FlowTable: here any may be.                   *)
(*                                                                         *)
(* The buckets of a group are their number and the set of groups they      *)
(* forward to, the bands of a meter their number.  A message whose handler *)
(* refuses it changes nothing but the record of the last operation.        *)
(***************************************************************************)
EXTENDS Integers, FiniteSets

CONSTANTS
  Flows,        \* names of flow entries, live or not yet created
  GroupIds,     \* group identifiers up to OFPG_MAX
  MeterIds,     \* meter identifiers
  Insts,        \* instructions of flow-mods: the groups and meters they name
  GroupMods,    \* buckets of group-mods for each group
  MeterMods,    \* bands of meter-mods for each meter
  MaxGroups, MaxBuckets, MaxMeters, MaxBands,  \* limits of the tables
  FirstBands,   \* what bands_num may hold before anything was written to it
  CountSize     \* number of values of a reference count

ASSUME FlowsAssumption == IsFiniteSet(Flows)
ASSUME InstsAssumption == Insts \subseteq [groups : SUBSET GroupIds, meters : SUBSET MeterIds]
ASSUME GroupModsAssumption ==
         GroupMods \subseteq [id : GroupIds, buckets : Nat, chain : SUBSET GroupIds]
ASSUME MeterModsAssumption == MeterMods \subseteq [id : MeterIds, bands : Nat]
ASSUME LimitsAssumption == /\ {MaxGroups, MaxBuckets, MaxMeters, MaxBands} \subseteq Nat
                           /\ FirstBands \subseteq Nat
                           /\ CountSize \in Nat \ {0}

VARIABLES
  flows,        \* the live flow entries
  groups,       \* group_table.entries
  groups_num,   \* group_table.entries_num
  buckets_num,  \* group_table.buckets_num
  meters,       \* meter_table.meter_entries
  meters_num,   \* meter_table.entries_num
  bands_num,    \* meter_table.bands_num
  out           \* the last operation and its error

groupTable == <<groups, groups_num, buckets_num>>
meterTable == <<meters, meters_num, bands_num>>
vars == <<flows, groupTable, meterTable, out>>

\* group_refs and meter_refs are the lists of the entry, insts what its
\* instructions name.
FlowEntry == [group_refs : SUBSET GroupIds, meter_refs : SUBSET MeterIds, insts : Insts]
GroupEntry == [buckets : Nat, chain : SUBSET GroupIds, flow_refs : SUBSET Flows,
               ref_count : 0..(CountSize - 1)]
MeterEntry == [bands : Nat, flow_refs : SUBSET Flows, flow_count : Int]

MapsInto(f, S, T) == DOMAIN f \subseteq S /\ f \in [DOMAIN f -> T]

Did(op) == [op |-> op, error |-> "none"]
Failed(op, error) == [Did(op) EXCEPT !.error = error]

Live == DOMAIN flows

-----------------------------------------------------------------------------
(* The reference lists: flow_entry_create, flow_entry_destroy and            *)
(* flow_entry_replace_instructions with what they call                       *)

\* The entries of R that del_group_refs and del_meter_refs take off the lists.
GroupLeavers(g, R) == {f \in groups[g].flow_refs \cap R : g \in flows[f].group_refs}

\* Mutant: the instructions are asked, which MODIFY may have replaced.
MeterLeaversNow(m, R) == {f \in meters[m].flow_refs \cap R : m \in flows[f].insts.meters}

MeterLeavers(m, R) == {f \in meters[m].flow_refs \cap R : m \in flows[f].meter_refs}

\* ref_count is unsigned and wraps.
CountAfter(count, gone, add) == (count - Cardinality(gone) + Cardinality(add)) % CountSize

\* Mutant: the flow stays in the list of a group its new instructions leave.
MoveGroupRefsKeepOld(R, A, insts) ==
  [g \in DOMAIN groups |->
     LET add == IF g \in insts.groups THEN A ELSE {}
     IN  [groups[g] EXCEPT !.flow_refs = @ \cup add]]

\* The groups once R lost their references and then A got those of insts.
MoveGroupRefs(R, A, insts) ==
  [g \in DOMAIN groups |->
     LET gone == GroupLeavers(g, R)
         stay == groups[g].flow_refs \ gone
         add == IF g \in insts.groups THEN A \ stay ELSE {}
     IN  [groups[g] EXCEPT !.flow_refs = stay \cup add,
                           !.ref_count = CountAfter(@, gone, add)]]

\* The meters, likewise.
MoveMeterRefs(R, A, insts) ==
  [m \in DOMAIN meters |->
     LET gone == MeterLeavers(m, R)
         stay == meters[m].flow_refs \ gone
         add == IF m \in insts.meters THEN A \ stay ELSE {}
     IN  [meters[m] EXCEPT !.flow_refs = stay \cup add,
                           !.flow_count = @ - Cardinality(gone) + Cardinality(add)]]

NoInsts == [groups |-> {}, meters |-> {}]
WithoutGroupRefs(R) == MoveGroupRefs(R, {}, NoInsts)
WithoutMeterRefs(R) == MoveMeterRefs(R, {}, NoInsts)

NewFlow(insts) == [group_refs |-> insts.groups, meter_refs |-> insts.meters, insts |-> insts]

\* dp_actions_validate: every group that actions name exists.
Validates(chain) == chain \subseteq DOMAIN groups

\* The entry f is created and the entries old, none or the one it replaces,
\* are destroyed after it.
AddFlow(f, old, insts) ==
  /\ f \notin Live
  /\ Validates(insts.groups)
  /\ flows' = [x \in (Live \ old) \cup {f} |-> IF x = f THEN NewFlow(insts) ELSE flows[x]]
  /\ groups' = MoveGroupRefs(old, {f}, insts)
  /\ meters' = MoveMeterRefs(old, {f}, insts)
  /\ out' = Did("flow_add")
  /\ UNCHANGED <<groups_num, buckets_num, meters_num, bands_num>>

\* flow_entry_replace_instructions moves the references to groups and leaves
\* those to meters alone.
Modified(f, insts) == [flows[f] EXCEPT !.insts = insts, !.group_refs = insts.groups]

ModifyFlows(S, insts) ==
  /\ Validates(insts.groups)
  /\ flows' = [f \in Live |-> IF f \in S THEN Modified(f, insts) ELSE flows[f]]
  /\ groups' = MoveGroupRefs(S, S, insts)
  /\ out' = Did("flow_modify")
  /\ UNCHANGED <<groups_num, buckets_num, meterTable>>

RemoveFlows(R) ==
  /\ flows' = [f \in Live \ R |-> flows[f]]
  /\ groups' = WithoutGroupRefs(R)
  /\ meters' = WithoutMeterRefs(R)
  /\ out' = Did("flow_remove")
  /\ UNCHANGED <<groups_num, buckets_num, meters_num, bands_num>>

-----------------------------------------------------------------------------
(* Group-mods: group_table.c                                                 *)

NewGroup(mod, refs) == [buckets |-> mod.buckets, chain |-> mod.chain, flow_refs |-> refs,
                        ref_count |-> 0]

GroupModFails(op, error) == out' = Failed(op, error) /\ UNCHANGED <<flows, groupTable, meterTable>>

GroupAdd(mod) ==
  \/ /\ ~Validates(mod.chain)
     /\ GroupModFails("group_add", "bad_out_group")
  \/ /\ Validates(mod.chain)
     /\ mod.id \in DOMAIN groups
     /\ GroupModFails("group_add", "group_exists")
  \/ /\ Validates(mod.chain)
     /\ mod.id \notin DOMAIN groups
     /\ groups_num = MaxGroups
     /\ GroupModFails("group_add", "out_of_groups")
  \/ /\ Validates(mod.chain)
     /\ mod.id \notin DOMAIN groups
     /\ groups_num # MaxGroups
     /\ buckets_num + mod.buckets > MaxBuckets
     /\ GroupModFails("group_add", "out_of_buckets")
  \/ /\ Validates(mod.chain)
     /\ mod.id \notin DOMAIN groups
     /\ groups_num # MaxGroups
     /\ buckets_num + mod.buckets <= MaxBuckets
     /\ groups' = [g \in DOMAIN groups \cup {mod.id} |->
                     IF g = mod.id THEN NewGroup(mod, {}) ELSE groups[g]]
     /\ groups_num' = groups_num + 1
     /\ buckets_num' = buckets_num + mod.buckets
     /\ out' = Did("group_add")
     /\ UNCHANGED <<flows, meterTable>>

\* Mutant: only the buckets of the group-mod itself are looked at.
LoopFreeShallow(mod) == mod.id \notin mod.chain

\* Whether no chain of groups leads from the buckets of mod back to its group:
\* what is_loop_free searches for with its worklist.  A closed set C without the
\* group exists just when the groups the search visits do not include it.
LoopFree(mod) ==
  \E C \in SUBSET GroupIds : /\ mod.chain \subseteq C
                             /\ \A g \in C \cap DOMAIN groups : groups[g].chain \subseteq C
                             /\ mod.id \notin C

\* Mutant: the flow references stay behind in the old entry.
ReplacedGroupForgets(mod) == [groups EXCEPT ![mod.id] = NewGroup(mod, {})]

\* The new entry takes the flow references of the old one over.
ReplacedGroup(mod) == [groups EXCEPT ![mod.id] = NewGroup(mod, groups[mod.id].flow_refs)]

\* Mutant: the buckets of the old entry stay counted, those of the new are not.
BucketsAfterKeep(mod) == buckets_num

BucketsAfter(mod) == buckets_num - groups[mod.id].buckets + mod.buckets

GroupModify(mod) ==
  \/ /\ ~Validates(mod.chain)
     /\ GroupModFails("group_modify", "bad_out_group")
  \/ /\ Validates(mod.chain)
     /\ mod.id \notin DOMAIN groups
     /\ GroupModFails("group_modify", "unknown_group")
  \/ /\ Validates(mod.chain)
     /\ mod.id \in DOMAIN groups
     /\ BucketsAfter(mod) > MaxBuckets
     /\ GroupModFails("group_modify", "out_of_buckets")
  \/ /\ Validates(mod.chain)
     /\ mod.id \in DOMAIN groups
     /\ BucketsAfter(mod) <= MaxBuckets
     /\ ~LoopFree(mod)
     /\ GroupModFails("group_modify", "loop")
  \/ /\ Validates(mod.chain)
     /\ mod.id \in DOMAIN groups
     /\ BucketsAfter(mod) <= MaxBuckets
     /\ LoopFree(mod)
     /\ groups' = ReplacedGroup(mod)
     /\ buckets_num' = BucketsAfter(mod)
     /\ out' = Did("group_modify")
     /\ UNCHANGED <<flows, groups_num, meterTable>>

IsChained(id) == \E g \in DOMAIN groups : id \in groups[g].chain

\* The entry leaves the hash map before its flows are removed, so that
\* del_group_refs does not find it and the nodes of its list are not freed.
GroupDelete(id) ==
  \/ /\ id \in DOMAIN groups /\ IsChained(id)
     /\ GroupModFails("group_delete", "chaining_unsupported")
  \/ /\ id \in DOMAIN groups /\ ~IsChained(id)
     /\ LET R == groups[id].flow_refs IN
        /\ flows' = [f \in Live \ R |-> flows[f]]
        /\ groups' = [g \in DOMAIN groups \ {id} |-> WithoutGroupRefs(R)[g]]
        /\ meters' = WithoutMeterRefs(R)
        /\ out' = Did("group_delete")
     /\ groups_num' = groups_num - 1
     /\ buckets_num' = buckets_num - groups[id].buckets
     /\ UNCHANGED <<meters_num, bands_num>>
  \/ /\ id \notin DOMAIN groups
     /\ out' = Did("group_delete")
     /\ UNCHANGED <<flows, groupTable, meterTable>>

\* DELETE of OFPG_ALL: the entries are destroyed one after the other.
GroupDeleteAll ==
  LET R == UNION {groups[g].flow_refs : g \in DOMAIN groups} IN
  /\ flows' = [f \in Live \ R |-> flows[f]]
  /\ groups' = <<>>
  /\ groups_num' = 0
  /\ buckets_num' = 0
  /\ meters' = WithoutMeterRefs(R)
  /\ out' = Did("group_delete_all")
  /\ UNCHANGED <<meters_num, bands_num>>

-----------------------------------------------------------------------------
(* Meter-mods: meter_table.c                                                 *)

NewMeter(mod, refs, count) == [bands |-> mod.bands, flow_refs |-> refs, flow_count |-> count]

MeterAdd(mod) ==
  \/ /\ mod.id \in DOMAIN meters
     /\ GroupModFails("meter_add", "meter_exists")
  \/ /\ mod.id \notin DOMAIN meters
     /\ meters_num = MaxMeters
     /\ GroupModFails("meter_add", "out_of_meters")
  \/ /\ mod.id \notin DOMAIN meters
     /\ meters_num # MaxMeters
     /\ bands_num + mod.bands > MaxBands
     /\ GroupModFails("meter_add", "out_of_bands")
  \/ /\ mod.id \notin DOMAIN meters
     /\ meters_num # MaxMeters
     /\ bands_num + mod.bands <= MaxBands
     /\ meters' = [m \in DOMAIN meters \cup {mod.id} |->
                     IF m = mod.id THEN NewMeter(mod, {}, 0) ELSE meters[m]]
     /\ meters_num' = meters_num + 1
     /\ bands_num' = bands_num + mod.bands
     /\ out' = Did("meter_add")
     /\ UNCHANGED <<flows, groupTable>>

ReplacedMeter(mod) ==
  [meters EXCEPT ![mod.id] = NewMeter(mod, @.flow_refs, @.flow_count)]

BandsAfter(mod) == bands_num - meters[mod.id].bands + mod.bands

MeterModify(mod) ==
  \/ /\ mod.id \notin DOMAIN meters
     /\ GroupModFails("meter_modify", "unknown_meter")
  \/ /\ mod.id \in DOMAIN meters
     /\ BandsAfter(mod) > MaxBands
     /\ GroupModFails("meter_modify", "out_of_bands")
  \/ /\ mod.id \in DOMAIN meters
     /\ BandsAfter(mod) <= MaxBands
     /\ meters' = ReplacedMeter(mod)
     /\ bands_num' = BandsAfter(mod)
     /\ out' = Did("meter_modify")
     /\ UNCHANGED <<flows, groupTable, meters_num>>

\* As for groups, the entry is out of the hash map when its flows are removed.
MeterDelete(id) ==
  \/ /\ id \in DOMAIN meters
     /\ LET R == meters[id].flow_refs IN
        /\ flows' = [f \in Live \ R |-> flows[f]]
        /\ groups' = WithoutGroupRefs(R)
        /\ meters' = [m \in DOMAIN meters \ {id} |-> WithoutMeterRefs(R)[m]]
        /\ out' = Did("meter_delete")
     /\ meters_num' = meters_num - 1
     /\ bands_num' = bands_num - meters[id].bands
     /\ UNCHANGED <<groups_num, buckets_num>>
  \/ /\ id \notin DOMAIN meters
     /\ out' = Did("meter_delete")
     /\ UNCHANGED <<flows, groupTable, meterTable>>

MeterDeleteAll ==
  LET R == UNION {meters[m].flow_refs : m \in DOMAIN meters} IN
  /\ flows' = [f \in Live \ R |-> flows[f]]
  /\ groups' = WithoutGroupRefs(R)
  /\ meters' = <<>>
  /\ meters_num' = 0
  /\ bands_num' = 0
  /\ out' = Did("meter_delete_all")
  /\ UNCHANGED <<groups_num, buckets_num>>

-----------------------------------------------------------------------------

Init ==
  /\ flows = <<>>
  /\ groups = <<>> /\ groups_num = 0 /\ buckets_num = 0
  /\ meters = <<>> /\ meters_num = 0 /\ bands_num \in FirstBands
  /\ out = Did("none")

FlowStep ==
  \/ \E insts \in Insts :
       \/ \E f \in Flows : \E old \in {{}} \cup {{x} : x \in Live} : AddFlow(f, old, insts)
       \/ \E S \in SUBSET Live : ModifyFlows(S, insts)
  \/ \E R \in SUBSET Live : RemoveFlows(R)

GroupStep == \/ \E mod \in GroupMods : GroupAdd(mod) \/ GroupModify(mod)
             \/ \E id \in GroupIds : GroupDelete(id)
             \/ GroupDeleteAll

MeterStep == \/ \E mod \in MeterMods : MeterAdd(mod) \/ MeterModify(mod)
             \/ \E id \in MeterIds : MeterDelete(id)
             \/ MeterDeleteAll

Next == FlowStep \/ GroupStep \/ MeterStep

Spec == Init /\ [][Next]_vars

-----------------------------------------------------------------------------
(* Properties                                                                *)

\* Every variable has its type.
TypeOK ==
  /\ MapsInto(flows, Flows, FlowEntry)
  /\ MapsInto(groups, GroupIds, GroupEntry)
  /\ MapsInto(meters, MeterIds, MeterEntry)
  /\ {groups_num, buckets_num, meters_num, bands_num} \subseteq Int

\* The list of a group holds exactly the live flow entries whose instructions
\* forward to it, whatever was added, modified, replaced and deleted: so the
\* removal of a group never touches a freed entry and never leaves one that
\* forwards to it (group_entry_destroy, init_group_refs, del_group_refs).
GroupRefsExact ==
  \A g \in DOMAIN groups : groups[g].flow_refs = {f \in Live : g \in flows[f].insts.groups}

\* Every group that a flow entry or a bucket forwards to exists
\* (dp_actions_validate, the refusal to delete a chained group).
NoDanglingGroup ==
  /\ \A f \in Live : flows[f].insts.groups \subseteq DOMAIN groups
  /\ \A g \in DOMAIN groups : groups[g].chain \subseteq DOMAIN groups

\* No packet goes round in the groups: every set of groups has one that
\* forwards to none of the set.  ADD does not look for loops, only MODIFY does.
NoGroupLoop ==
  \A S \in SUBSET (DOMAIN groups) : S # {} => \E g \in S : groups[g].chain \cap S = {}

\* A packet that enters a group leaves it: its groups exist and end somewhere.
ChainsSound == NoDanglingGroup /\ NoGroupLoop

\* All the buckets there are, each named by its group and its number there.
Buckets == UNION {{g} \X (1..groups[g].buckets) : g \in DOMAIN groups}

\* The counts of groups and buckets are those of the entries, and within the limits.
GroupCountsExact ==
  /\ groups_num = Cardinality(DOMAIN groups) /\ groups_num <= MaxGroups
  /\ buckets_num = Cardinality(Buckets) /\ buckets_num <= MaxBuckets

\* A meter's list and an entry's list never name a freed object: the flows a
\* meter lists are live and list it themselves (meter_entry_destroy).
MeterRefsLive ==
  \A m \in DOMAIN meters : \A f \in meters[m].flow_refs : f \in Live /\ m \in flows[f].meter_refs

\* flow_count is the length of the list, also after MODIFY copied it.
MeterCountExact ==
  /\ \A m \in DOMAIN meters : meters[m].flow_count = Cardinality(meters[m].flow_refs)
  /\ meters_num = Cardinality(DOMAIN meters) /\ meters_num <= MaxMeters

\* The limits rest on these counts (group_table_add, meter_table_add and the
\* two MODIFYs, which replace an entry in one step).
CountsExact == GroupCountsExact /\ MeterCountExact

\* Deleting groups removes every flow entry that forwards to one of them and,
\* unless another operation takes them, no other.
GroupTakesItsFlows ==
  [][out'.op \in {"group_delete", "group_delete_all"} =>
       Live \ DOMAIN flows' = {f \in Live : flows[f].insts.groups \ DOMAIN groups' # {}}]_vars

=============================================================================
