--------------------------- MODULE ReferencesProofs ---------------------------
(***************************************************************************)
(* Proofs about References, for every set of flow entries, groups, meters  *)
(* and messages and for every limit of the tables.                         *)
(***************************************************************************)
EXTENDS References, FiniteSetTheorems, TLAPS

\* The entry's own list of groups is that of its instructions.
OwnListsExact == \A f \in Live : flows[f].group_refs = flows[f].insts.groups

\* The inductive invariant.
IInv == TypeOK /\ OwnListsExact /\ GroupRefsExact /\ MeterRefsLive /\ NoDanglingGroup /\ NoGroupLoop

-----------------------------------------------------------------------------
(* The references after flow entries left and others came                    *)

\* Sets of flow entries can be counted.
LEMMA CountType ==
  ASSUME NEW S \in SUBSET Flows
  PROVE  IsFiniteSet(S) /\ Cardinality(S) \in Nat
BY FlowsAssumption, FS_Subset, FS_CardinalityType

\* Unsigned counts stay in their range.
LEMMA CountAfterType ==
  ASSUME NEW c \in Int, NEW S \in SUBSET Flows, NEW T \in SUBSET Flows
  PROVE  CountAfter(c, S, T) \in 0..(CountSize - 1)
<1>1. Cardinality(S) \in Nat /\ Cardinality(T) \in Nat BY CountType
<1>2. CountSize \in Nat \ {0} BY LimitsAssumption
<1>3. QED BY <1>1, <1>2 DEF CountAfter

\* G are the groups once the flow entries R left them and A joined those of insts.
GroupsMoved(G, R, A, insts) ==
  /\ DOMAIN G = DOMAIN groups
  /\ G \in [DOMAIN groups -> GroupEntry]
  /\ \A g \in DOMAIN groups :
       /\ G[g].chain = groups[g].chain
       /\ G[g].flow_refs = (groups[g].flow_refs \ GroupLeavers(g, R))
                              \cup (IF g \in insts.groups THEN A ELSE {})

\* What MoveGroupRefs does to each group.
LEMMA GroupsMove ==
  ASSUME TypeOK, NEW R \in SUBSET Flows, NEW A \in SUBSET Flows, NEW insts,
         NEW G, G = MoveGroupRefs(R, A, insts)
  PROVE  GroupsMoved(G, R, A, insts)
<1>1. DOMAIN G = DOMAIN groups BY DEF MoveGroupRefs
<1>2. ASSUME NEW g \in DOMAIN groups
      PROVE  /\ G[g] \in GroupEntry
             /\ G[g].chain = groups[g].chain
             /\ G[g].flow_refs = (groups[g].flow_refs \ GroupLeavers(g, R))
                                    \cup (IF g \in insts.groups THEN A ELSE {})
  <2> DEFINE gone == GroupLeavers(g, R)
             stay == groups[g].flow_refs \ gone
             add == IF g \in insts.groups THEN A \ stay ELSE {}
  <2>1. groups[g] \in GroupEntry BY DEF TypeOK, MapsInto
  <2>2. gone \in SUBSET Flows /\ stay \in SUBSET Flows /\ add \in SUBSET Flows
    BY <2>1 DEF GroupLeavers, GroupEntry
  <2>3. CountAfter(groups[g].ref_count, gone, add) \in 0..(CountSize - 1)
    BY <2>1, <2>2, CountAfterType, LimitsAssumption DEF GroupEntry
  <2>4. G[g] = [groups[g] EXCEPT !.flow_refs = stay \cup add,
                                 !.ref_count = CountAfter(groups[g].ref_count, gone, add)]
    BY DEF MoveGroupRefs
  <2> HIDE DEF gone
  <2>5. stay \cup add = stay \cup (IF g \in insts.groups THEN A ELSE {}) OBVIOUS
  <2> HIDE DEF stay, add
  <2>6. G[g] \in GroupEntry /\ G[g].chain = groups[g].chain /\ G[g].flow_refs = stay \cup add
    BY <2>1, <2>2, <2>3, <2>4 DEF GroupEntry
  <2>7. QED BY <2>5, <2>6 DEF stay, gone
<1>3. G \in [DOMAIN groups -> GroupEntry]
  <2>1. G = [g \in DOMAIN groups |-> G[g]] BY DEF MoveGroupRefs
  <2>2. QED BY <2>1, <1>1, <1>2
<1>4. QED BY <1>1, <1>2, <1>3 DEF GroupsMoved

\* M are the meters, likewise.
MetersMoved(M, R, A, insts) ==
  /\ DOMAIN M = DOMAIN meters
  /\ M \in [DOMAIN meters -> MeterEntry]
  /\ \A m \in DOMAIN meters :
       M[m].flow_refs = (meters[m].flow_refs \ MeterLeavers(m, R))
                           \cup (IF m \in insts.meters THEN A ELSE {})

\* What MoveMeterRefs does to each meter.
LEMMA MetersMove ==
  ASSUME TypeOK, NEW R \in SUBSET Flows, NEW A \in SUBSET Flows, NEW insts,
         NEW M, M = MoveMeterRefs(R, A, insts)
  PROVE  MetersMoved(M, R, A, insts)
<1>1. DOMAIN M = DOMAIN meters BY DEF MoveMeterRefs
<1>2. ASSUME NEW m \in DOMAIN meters
      PROVE  /\ M[m] \in MeterEntry
             /\ M[m].flow_refs = (meters[m].flow_refs \ MeterLeavers(m, R))
                                    \cup (IF m \in insts.meters THEN A ELSE {})
  <2> DEFINE gone == MeterLeavers(m, R)
             stay == meters[m].flow_refs \ gone
             add == IF m \in insts.meters THEN A \ stay ELSE {}
  <2>1. meters[m] \in MeterEntry BY DEF TypeOK, MapsInto
  <2>2. gone \in SUBSET Flows /\ stay \in SUBSET Flows /\ add \in SUBSET Flows
    BY <2>1 DEF MeterLeavers, MeterEntry
  <2>3. Cardinality(gone) \in Nat /\ Cardinality(add) \in Nat BY <2>2, CountType
  <2>4. M[m] = [meters[m] EXCEPT !.flow_refs = stay \cup add,
                                 !.flow_count = meters[m].flow_count - Cardinality(gone) + Cardinality(add)]
    BY DEF MoveMeterRefs
  <2> HIDE DEF gone
  <2>5. stay \cup add = stay \cup (IF m \in insts.meters THEN A ELSE {}) OBVIOUS
  <2>6. meters[m].flow_count - Cardinality(gone) + Cardinality(add) \in Int
    BY <2>1, <2>3 DEF MeterEntry
  <2> DEFINE count == meters[m].flow_count - Cardinality(gone) + Cardinality(add)
  <2> HIDE DEF stay, add, count
  <2>7. M[m] \in MeterEntry /\ M[m].flow_refs = stay \cup add
    BY <2>1, <2>2, <2>4, <2>6 DEF MeterEntry, count
  <2>8. QED BY <2>5, <2>7 DEF stay, gone
<1>3. M \in [DOMAIN meters -> MeterEntry]
  <2>1. M = [m \in DOMAIN meters |-> M[m]] BY DEF MoveMeterRefs
  <2>2. QED BY <2>1, <1>1, <1>2
<1>4. QED BY <1>1, <1>2, <1>3 DEF MetersMoved

\* Where the lists are exact, the flow entries that leave leave every list.
LEMMA LeaversAll ==
  ASSUME OwnListsExact, GroupRefsExact, NEW g \in DOMAIN groups, NEW R
  PROVE  GroupLeavers(g, R) = groups[g].flow_refs \cap R
BY DEF OwnListsExact, GroupRefsExact, GroupLeavers

LEMMA MeterLeaversAll ==
  ASSUME MeterRefsLive, NEW m \in DOMAIN meters, NEW R
  PROVE  MeterLeavers(m, R) = meters[m].flow_refs \cap R
BY DEF MeterRefsLive, MeterLeavers

-----------------------------------------------------------------------------
(* Loops: only the chains of the groups matter                                *)

\* Chains that stay as they are, of groups that may be fewer, have no loop.
LEMMA FewerChains ==
  ASSUME NoGroupLoop, DOMAIN groups' \subseteq DOMAIN groups,
         \A g \in DOMAIN groups' : groups'[g].chain = groups[g].chain
  PROVE  NoGroupLoop'
BY DEF NoGroupLoop

\* A new group, to which nothing can forward yet, closes no loop.
LEMMA NewChain ==
  ASSUME NoGroupLoop, NoDanglingGroup, NEW id, id \notin DOMAIN groups, id \notin groups'[id].chain,
         DOMAIN groups' = DOMAIN groups \cup {id},
         \A g \in DOMAIN groups : groups'[g].chain = groups[g].chain
  PROVE  NoGroupLoop'
<1> SUFFICES ASSUME NEW S \in SUBSET DOMAIN groups', S # {}
             PROVE  \E g \in S : groups'[g].chain \cap S = {}
  BY DEF NoGroupLoop
<1> DEFINE T == S \cap DOMAIN groups
<1>1. CASE T = {}
  <2>1. S = {id} BY <1>1
  <2>2. QED BY <2>1
<1>2. CASE T # {}
  <2>1. PICK g \in T : groups[g].chain \cap T = {} BY <1>2 DEF NoGroupLoop
  <2>2. groups[g].chain \subseteq DOMAIN groups BY DEF NoDanglingGroup
  <2>3. groups'[g].chain \cap S = {} BY <2>1, <2>2
  <2>4. QED BY <2>3
<1>3. QED BY <1>1, <1>2

\* A group whose new chain stays in a set C, closed under forwarding and without
\* the group itself, closes no loop: a set that meets C has a leaf there, one
\* that does not has the group itself for a leaf or does not contain it.
LEMMA ModifiedChain ==
  ASSUME NoGroupLoop, NEW mod, mod.id \in DOMAIN groups, LoopFree(mod),
         DOMAIN groups' = DOMAIN groups,
         groups'[mod.id].chain = mod.chain,
         \A g \in DOMAIN groups \ {mod.id} : groups'[g].chain = groups[g].chain
  PROVE  NoGroupLoop'
<1>1. PICK C \in SUBSET GroupIds :
        /\ mod.chain \subseteq C
        /\ \A g \in C \cap DOMAIN groups : groups[g].chain \subseteq C
        /\ mod.id \notin C
  BY DEF LoopFree
<1> SUFFICES ASSUME NEW S \in SUBSET DOMAIN groups', S # {}
             PROVE  \E g \in S : groups'[g].chain \cap S = {}
  BY DEF NoGroupLoop
<1> DEFINE T == S \cap C
<1>2. CASE T # {}
  <2>1. PICK g \in T : groups[g].chain \cap T = {} BY <1>2 DEF NoGroupLoop
  <2>2. groups[g].chain \subseteq C /\ g # mod.id BY <1>1, <2>1
  <2>3. groups'[g].chain \cap S = {} BY <2>1, <2>2
  <2>4. QED BY <2>1, <2>3
<1>3. CASE T = {} /\ mod.id \in S
  <2>1. groups'[mod.id].chain \cap S = {} BY <1>1, <1>3
  <2>2. QED BY <1>3, <2>1
<1>4. CASE mod.id \notin S
  <2>1. PICK g \in S : groups[g].chain \cap S = {} BY DEF NoGroupLoop
  <2>2. QED BY <2>1, <1>4
<1>5. QED BY <1>2, <1>3, <1>4

-----------------------------------------------------------------------------
(* Steps that preserve the invariant                                          *)

\* The counters of the tables are integers.
Counters == {groups_num, buckets_num, meters_num, bands_num} \subseteq Int

\* Flow entries R leave, and the groups and meters outside K and L with them,
\* to which nothing that stays forwards.
LEMMA Removal ==
  ASSUME IInv, NEW R \in SUBSET Live, NEW K \in SUBSET DOMAIN groups, NEW L \in SUBSET DOMAIN meters,
         flows' = [f \in Live \ R |-> flows[f]],
         groups' = [g \in K |-> WithoutGroupRefs(R)[g]],
         meters' = [m \in L |-> WithoutMeterRefs(R)[m]],
         Counters',
         \A f \in Live \ R : flows[f].insts.groups \subseteq K,
         \A g \in K : groups[g].chain \subseteq K
  PROVE  IInv'
<1> DEFINE G == WithoutGroupRefs(R)
           M == WithoutMeterRefs(R)
<1>1. R \in SUBSET Flows BY DEF IInv, TypeOK, MapsInto, Live
<1>2. /\ G \in [DOMAIN groups -> GroupEntry]
      /\ \A g \in DOMAIN groups : /\ G[g].chain = groups[g].chain
                                  /\ G[g].flow_refs = groups[g].flow_refs \ R
  <2>1. TypeOK /\ OwnListsExact /\ GroupRefsExact BY DEF IInv
  <2>2. G = MoveGroupRefs(R, {}, NoInsts) BY DEF WithoutGroupRefs
  <2> HIDE DEF G
  <2>3. GroupsMoved(G, R, {}, NoInsts)
    <3>1. {} \in SUBSET Flows OBVIOUS
    <3>2. QED BY ONLY <1>1, <2>1, <2>2, <3>1, GroupsMove
  <2>4. \A g \in DOMAIN groups : GroupLeavers(g, R) = groups[g].flow_refs \cap R BY <2>1, LeaversAll
  <2>5. QED BY <2>3, <2>4 DEF GroupsMoved
<1>3. /\ M \in [DOMAIN meters -> MeterEntry]
      /\ \A m \in DOMAIN meters : M[m].flow_refs = meters[m].flow_refs \ R
  <2>1. TypeOK /\ MeterRefsLive BY DEF IInv
  <2>2. M = MoveMeterRefs(R, {}, NoInsts) BY DEF WithoutMeterRefs
  <2> HIDE DEF M
  <2>3. MetersMoved(M, R, {}, NoInsts)
    <3>1. {} \in SUBSET Flows OBVIOUS
    <3>2. QED BY ONLY <1>1, <2>1, <2>2, <3>1, MetersMove
  <2>4. \A m \in DOMAIN meters : MeterLeavers(m, R) = meters[m].flow_refs \cap R BY <2>1, MeterLeaversAll
  <2>5. QED BY <2>3, <2>4 DEF MetersMoved
<1> HIDE DEF G, M
<1>4. /\ DOMAIN groups' = K /\ groups' \in [K -> GroupEntry]
      /\ \A g \in K : groups'[g].chain = groups[g].chain /\ groups'[g].flow_refs = groups[g].flow_refs \ R
  BY <1>2 DEF G
<1>5. /\ DOMAIN meters' = L /\ meters' \in [L -> MeterEntry]
      /\ \A m \in L : meters'[m].flow_refs = meters[m].flow_refs \ R
  BY <1>3 DEF M
<1>6. /\ DOMAIN flows' = Live \ R /\ flows' \in [Live \ R -> FlowEntry]
      /\ \A f \in Live \ R : flows'[f] = flows[f]
  BY DEF IInv, TypeOK, MapsInto, Live
<1>7. TypeOK'
  <2>1. /\ Live \subseteq Flows /\ DOMAIN groups \subseteq GroupIds
        /\ DOMAIN meters \subseteq MeterIds
    BY DEF IInv, TypeOK, MapsInto, Live
  <2>2. MapsInto(flows', Flows, FlowEntry) BY <2>1, <1>6 DEF MapsInto
  <2>3. MapsInto(groups', GroupIds, GroupEntry) BY <2>1, <1>4 DEF MapsInto
  <2>4. MapsInto(meters', MeterIds, MeterEntry) BY <2>1, <1>5 DEF MapsInto
  <2>5. QED BY <2>2, <2>3, <2>4 DEF TypeOK, Counters
<1>8. OwnListsExact' BY <1>6 DEF IInv, OwnListsExact, Live
<1>9. GroupRefsExact' BY <1>4, <1>6 DEF IInv, GroupRefsExact, Live
<1>10. MeterRefsLive' BY <1>5, <1>6 DEF IInv, MeterRefsLive, Live
<1>11. NoDanglingGroup' BY <1>4, <1>6 DEF IInv, NoDanglingGroup, Live
<1>12. NoGroupLoop' BY <1>4, FewerChains DEF IInv
<1>13. QED BY <1>7, <1>8, <1>9, <1>10, <1>11, <1>12 DEF IInv

\* An entry f comes, and the entries old leave.
LEMMA AddFlowStep ==
  ASSUME IInv, NEW insts \in Insts, NEW f \in Flows, NEW old \in SUBSET Live, AddFlow(f, old, insts)
  PROVE  IInv'
<1>1. /\ TypeOK /\ OwnListsExact /\ GroupRefsExact /\ MeterRefsLive
      /\ NoDanglingGroup /\ NoGroupLoop
  BY DEF IInv
<1>2. old \in SUBSET Flows /\ {f} \in SUBSET Flows BY <1>1 DEF TypeOK, MapsInto, Live
<1>3. groups' = MoveGroupRefs(old, {f}, insts) /\ meters' = MoveMeterRefs(old, {f}, insts)
  BY DEF AddFlow
<1>4. GroupsMoved(groups', old, {f}, insts) BY ONLY <1>1, <1>2, <1>3, GroupsMove
<1>5. MetersMoved(meters', old, {f}, insts) BY ONLY <1>1, <1>2, <1>3, MetersMove
<1>6. /\ DOMAIN groups' = DOMAIN groups /\ groups' \in [DOMAIN groups -> GroupEntry]
      /\ \A g \in DOMAIN groups :
           /\ groups'[g].chain = groups[g].chain
           /\ groups'[g].flow_refs = (groups[g].flow_refs \ old)
                                       \cup (IF g \in insts.groups THEN {f} ELSE {})
  <2>1. \A g \in DOMAIN groups : GroupLeavers(g, old) = groups[g].flow_refs \cap old BY <1>1, LeaversAll
  <2>2. QED BY <1>4, <2>1 DEF GroupsMoved
<1>7. /\ DOMAIN meters' = DOMAIN meters /\ meters' \in [DOMAIN meters -> MeterEntry]
      /\ \A m \in DOMAIN meters :
           meters'[m].flow_refs = (meters[m].flow_refs \ old)
                                     \cup (IF m \in insts.meters THEN {f} ELSE {})
  <2>1. \A m \in DOMAIN meters : MeterLeavers(m, old) = meters[m].flow_refs \cap old
    BY <1>1, MeterLeaversAll
  <2>2. QED BY <1>5, <2>1 DEF MetersMoved
<1>8. NewFlow(insts) \in FlowEntry BY InstsAssumption DEF NewFlow, FlowEntry
<1>9. /\ f \notin Live /\ insts.groups \subseteq DOMAIN groups
      /\ DOMAIN flows' = (Live \ old) \cup {f}
      /\ flows'[f] = NewFlow(insts)
      /\ \A x \in Live \ old : flows'[x] = flows[x]
      /\ flows' \in [(Live \ old) \cup {f} -> FlowEntry]
  <2>1. flows \in [Live -> FlowEntry] BY <1>1 DEF TypeOK, MapsInto, Live
  <2>2. QED BY <2>1, <1>8 DEF AddFlow, Validates
<1>10. NewFlow(insts).group_refs = insts.groups /\ NewFlow(insts).meter_refs = insts.meters
       /\ NewFlow(insts).insts = insts
  BY DEF NewFlow
<1>11. TypeOK'
  <2>1. /\ Live \subseteq Flows /\ DOMAIN groups \subseteq GroupIds
        /\ DOMAIN meters \subseteq MeterIds
    BY <1>1 DEF TypeOK, MapsInto, Live
  <2>2. MapsInto(flows', Flows, FlowEntry) BY <2>1, <1>9 DEF MapsInto
  <2>3. MapsInto(groups', GroupIds, GroupEntry) BY <2>1, <1>6 DEF MapsInto
  <2>4. MapsInto(meters', MeterIds, MeterEntry) BY <2>1, <1>7 DEF MapsInto
  <2>5. UNCHANGED <<groups_num, buckets_num, meters_num, bands_num>> BY DEF AddFlow
  <2>6. QED BY <1>1, <2>2, <2>3, <2>4, <2>5 DEF TypeOK
<1>12. OwnListsExact' BY <1>1, <1>9, <1>10 DEF OwnListsExact, Live
<1>13. GroupRefsExact' BY <1>1, <1>6, <1>9, <1>10 DEF GroupRefsExact, Live
<1>14. MeterRefsLive' BY <1>1, <1>7, <1>9, <1>10 DEF MeterRefsLive, Live
<1>15. NoDanglingGroup' BY <1>1, <1>6, <1>9, <1>10 DEF NoDanglingGroup, Live
<1>16. NoGroupLoop' BY <1>1, <1>6, FewerChains
<1>17. QED BY <1>11, <1>12, <1>13, <1>14, <1>15, <1>16 DEF IInv

\* The entries S get new instructions.
LEMMA ModifyFlowsStep ==
  ASSUME IInv, NEW insts \in Insts, NEW S \in SUBSET Live, ModifyFlows(S, insts)
  PROVE  IInv'
<1>1. /\ TypeOK /\ OwnListsExact /\ GroupRefsExact /\ MeterRefsLive
      /\ NoDanglingGroup /\ NoGroupLoop
  BY DEF IInv
<1>2. S \in SUBSET Flows BY <1>1 DEF TypeOK, MapsInto, Live
<1>3. groups' = MoveGroupRefs(S, S, insts) BY DEF ModifyFlows
<1>4. GroupsMoved(groups', S, S, insts) BY ONLY <1>1, <1>2, <1>3, GroupsMove
<1>5. /\ DOMAIN groups' = DOMAIN groups /\ groups' \in [DOMAIN groups -> GroupEntry]
      /\ \A g \in DOMAIN groups :
           /\ groups'[g].chain = groups[g].chain
           /\ groups'[g].flow_refs = (groups[g].flow_refs \ S)
                                       \cup (IF g \in insts.groups THEN S ELSE {})
  <2>1. \A g \in DOMAIN groups : GroupLeavers(g, S) = groups[g].flow_refs \cap S BY <1>1, LeaversAll
  <2>2. QED BY <1>4, <2>1 DEF GroupsMoved
<1>6. \A f \in Live : /\ Modified(f, insts) \in FlowEntry
                      /\ Modified(f, insts).insts = insts
                      /\ Modified(f, insts).group_refs = insts.groups
                      /\ Modified(f, insts).meter_refs = flows[f].meter_refs
  <2>1. \A f \in Live : flows[f] \in FlowEntry BY <1>1 DEF TypeOK, MapsInto, Live
  <2>2. insts.groups \in SUBSET GroupIds BY InstsAssumption
  <2>3. QED BY <2>1, <2>2 DEF Modified, FlowEntry
<1>7. /\ insts.groups \subseteq DOMAIN groups
      /\ DOMAIN flows' = Live /\ flows' \in [Live -> FlowEntry]
      /\ \A f \in S : flows'[f] = Modified(f, insts)
      /\ \A f \in Live \ S : flows'[f] = flows[f]
  <2>1. flows \in [Live -> FlowEntry] BY <1>1 DEF TypeOK, MapsInto, Live
  <2>2. QED BY <2>1, <1>6 DEF ModifyFlows, Validates
<1>8. UNCHANGED <<groups_num, buckets_num, meters, meters_num, bands_num>> BY DEF ModifyFlows, meterTable
<1>9. TypeOK'
  <2>1. Live \subseteq Flows /\ DOMAIN groups \subseteq GroupIds BY <1>1 DEF TypeOK, MapsInto, Live
  <2>2. MapsInto(flows', Flows, FlowEntry) BY <2>1, <1>7 DEF MapsInto
  <2>3. MapsInto(groups', GroupIds, GroupEntry) BY <2>1, <1>5 DEF MapsInto
  <2>4. QED BY <1>1, <1>8, <2>2, <2>3 DEF TypeOK
<1>10. OwnListsExact' BY <1>1, <1>6, <1>7 DEF OwnListsExact, Live
<1>11. GroupRefsExact' BY <1>1, <1>5, <1>6, <1>7 DEF GroupRefsExact, Live
<1>12. MeterRefsLive' BY <1>1, <1>6, <1>7, <1>8 DEF MeterRefsLive, Live
<1>13. NoDanglingGroup' BY <1>1, <1>5, <1>6, <1>7 DEF NoDanglingGroup, Live
<1>14. NoGroupLoop' BY <1>1, <1>5, FewerChains
<1>15. QED BY <1>9, <1>10, <1>11, <1>12, <1>13, <1>14 DEF IInv

\* Nothing but the record of the last operation changes.
LEMMA NothingChanges ==
  ASSUME IInv, UNCHANGED <<flows, groupTable, meterTable>>
  PROVE  IInv'
<1>1. UNCHANGED <<flows, groups, groups_num, buckets_num, meters, meters_num, bands_num>>
  BY DEF groupTable, meterTable
<1>2. TypeOK' BY <1>1 DEF IInv, TypeOK
<1>3. OwnListsExact' BY <1>1 DEF IInv, OwnListsExact, Live
<1>4. GroupRefsExact' BY <1>1 DEF IInv, GroupRefsExact, Live
<1>5. MeterRefsLive' BY <1>1 DEF IInv, MeterRefsLive, Live
<1>6. NoDanglingGroup' BY <1>1 DEF IInv, NoDanglingGroup, Live
<1>7. NoGroupLoop' BY <1>1 DEF IInv, NoGroupLoop
<1>8. QED BY <1>2, <1>3, <1>4, <1>5, <1>6, <1>7 DEF IInv

\* A group is added: no flow entry can forward to it yet.
LEMMA GroupAddStep ==
  ASSUME IInv, NEW mod \in GroupMods, GroupAdd(mod)
  PROVE  IInv'
<1>1. CASE UNCHANGED <<flows, groupTable, meterTable>> BY <1>1, NothingChanges
<1>2. CASE /\ Validates(mod.chain)
           /\ mod.id \notin DOMAIN groups
           /\ groups' = [g \in DOMAIN groups \cup {mod.id} |->
                           IF g = mod.id THEN NewGroup(mod, {}) ELSE groups[g]]
           /\ groups_num' = groups_num + 1
           /\ buckets_num' = buckets_num + mod.buckets
           /\ UNCHANGED <<flows, meterTable>>
  <2>1. mod.id \in GroupIds /\ mod.buckets \in Nat /\ mod.chain \in SUBSET GroupIds
    BY GroupModsAssumption
  <2>2. /\ NewGroup(mod, {}) \in GroupEntry
        /\ NewGroup(mod, {}).chain = mod.chain /\ NewGroup(mod, {}).flow_refs = {}
    BY <2>1, LimitsAssumption DEF NewGroup, GroupEntry
  <2>3. /\ DOMAIN groups \subseteq GroupIds /\ groups \in [DOMAIN groups -> GroupEntry]
    BY DEF IInv, TypeOK, MapsInto
  <2>4. /\ DOMAIN groups' = DOMAIN groups \cup {mod.id}
        /\ groups' \in [DOMAIN groups' -> GroupEntry]
        /\ groups'[mod.id] = NewGroup(mod, {})
        /\ \A g \in DOMAIN groups : groups'[g] = groups[g]
    BY <1>2, <2>2, <2>3
  <2>5. UNCHANGED <<flows, meters, meters_num, bands_num>> BY <1>2 DEF meterTable
  <2>6. mod.chain \subseteq DOMAIN groups BY <1>2 DEF Validates
  <2>7. TypeOK'
    <3>1. MapsInto(groups', GroupIds, GroupEntry) BY <2>1, <2>3, <2>4 DEF MapsInto
    <3>2. QED BY <1>2, <2>1, <2>5, <3>1 DEF IInv, TypeOK
  <2>8. OwnListsExact' BY <2>5 DEF IInv, OwnListsExact, Live
  <2>9. GroupRefsExact'
    <3>1. \A f \in Live : mod.id \notin flows[f].insts.groups BY <1>2 DEF IInv, NoDanglingGroup
    <3>2. QED BY <2>2, <2>4, <2>5, <3>1 DEF IInv, GroupRefsExact, Live
  <2>10. MeterRefsLive' BY <2>5 DEF IInv, MeterRefsLive, Live
  <2>11. NoDanglingGroup' BY <2>2, <2>4, <2>5, <2>6 DEF IInv, NoDanglingGroup, Live
  <2>12. NoGroupLoop'
    <3>1. /\ mod.id \notin groups'[mod.id].chain
          /\ \A g \in DOMAIN groups : groups'[g].chain = groups[g].chain
      BY <1>2, <2>2, <2>4, <2>6
    <3>2. NoGroupLoop /\ NoDanglingGroup BY DEF IInv
    <3>3. QED BY <1>2, <2>4, <3>1, <3>2, NewChain
  <2>13. QED BY <2>7, <2>8, <2>9, <2>10, <2>11, <2>12 DEF IInv
<1>3. QED BY <1>1, <1>2 DEF GroupAdd, GroupModFails

\* A group is replaced by one with other buckets and the same flow references.
LEMMA GroupModifyStep ==
  ASSUME IInv, NEW mod \in GroupMods, GroupModify(mod)
  PROVE  IInv'
<1>1. CASE UNCHANGED <<flows, groupTable, meterTable>> BY <1>1, NothingChanges
<1>2. CASE /\ Validates(mod.chain)
           /\ mod.id \in DOMAIN groups
           /\ LoopFree(mod)
           /\ groups' = ReplacedGroup(mod)
           /\ buckets_num' = BucketsAfter(mod)
           /\ UNCHANGED <<flows, groups_num, meterTable>>
  <2>1. mod.id \in GroupIds /\ mod.buckets \in Nat /\ mod.chain \in SUBSET GroupIds
    BY GroupModsAssumption
  <2>2. DOMAIN groups \subseteq GroupIds /\ groups \in [DOMAIN groups -> GroupEntry]
    BY DEF IInv, TypeOK, MapsInto
  <2> DEFINE new == NewGroup(mod, groups[mod.id].flow_refs)
  <2>3. /\ new \in GroupEntry
        /\ new.chain = mod.chain /\ new.flow_refs = groups[mod.id].flow_refs
    <3>1. groups[mod.id].flow_refs \in SUBSET Flows BY <1>2, <2>2 DEF GroupEntry
    <3>2. QED BY <2>1, <3>1, LimitsAssumption DEF NewGroup, GroupEntry
  <2>4. groups' = [groups EXCEPT ![mod.id] = new] BY <1>2 DEF ReplacedGroup
  <2> HIDE DEF new
  <2>5. /\ DOMAIN groups' = DOMAIN groups
        /\ groups' \in [DOMAIN groups -> GroupEntry]
        /\ groups'[mod.id] = new
        /\ \A g \in DOMAIN groups \ {mod.id} : groups'[g] = groups[g]
    BY <1>2, <2>2, <2>3, <2>4
  <2>6. UNCHANGED <<flows, groups_num, meters, meters_num, bands_num>> BY <1>2 DEF meterTable
  <2>7. mod.chain \subseteq DOMAIN groups BY <1>2 DEF Validates
  <2>8. TypeOK'
    <3>1. MapsInto(groups', GroupIds, GroupEntry) BY <2>2, <2>5 DEF MapsInto
    <3>2. groups[mod.id].buckets \in Nat BY <1>2, <2>2 DEF GroupEntry
    <3>3. buckets_num \in Int BY DEF IInv, TypeOK
    <3>4. buckets_num' \in Int BY <1>2, <2>1, <3>2, <3>3 DEF BucketsAfter
    <3>5. QED BY <2>6, <3>1, <3>4 DEF IInv, TypeOK
  <2>9. OwnListsExact' BY <2>6 DEF IInv, OwnListsExact, Live
  <2>10. GroupRefsExact' BY <2>3, <2>5, <2>6 DEF IInv, GroupRefsExact, Live
  <2>11. MeterRefsLive' BY <2>6 DEF IInv, MeterRefsLive, Live
  <2>12. NoDanglingGroup' BY <2>3, <2>5, <2>6, <2>7 DEF IInv, NoDanglingGroup, Live
  <2>13. NoGroupLoop'
    <3>1. /\ groups'[mod.id].chain = mod.chain
          /\ \A g \in DOMAIN groups \ {mod.id} : groups'[g].chain = groups[g].chain
      BY <2>3, <2>5
    <3>2. NoGroupLoop BY DEF IInv
    <3>3. QED BY <1>2, <2>5, <3>1, <3>2, ModifiedChain
  <2>14. QED BY <2>8, <2>9, <2>10, <2>11, <2>12, <2>13 DEF IInv
<1>3. QED BY <1>1, <1>2 DEF GroupModify, GroupModFails

\* The invariant's types, as the removals need them.
LEMMA Shapes ==
  ASSUME IInv
  PROVE  /\ {groups_num, buckets_num, meters_num, bands_num} \subseteq Int
         /\ groups \in [DOMAIN groups -> GroupEntry]
         /\ meters \in [DOMAIN meters -> MeterEntry]
         /\ \A g \in DOMAIN groups : groups[g].flow_refs = {f \in Live : g \in flows[f].insts.groups}
         /\ \A m \in DOMAIN meters : meters[m].flow_refs \subseteq Live
         /\ \A f \in Live : flows[f].insts.groups \subseteq DOMAIN groups
         /\ \A g \in DOMAIN groups : groups[g].chain \subseteq DOMAIN groups
BY DEF IInv, TypeOK, MapsInto, GroupRefsExact, MeterRefsLive, NoDanglingGroup

\* The tables without some flow entries are functions on their identifiers.
LEMMA WithoutDomains ==
  ASSUME NEW R
  PROVE  /\ WithoutGroupRefs(R) = [g \in DOMAIN groups |-> WithoutGroupRefs(R)[g]]
         /\ WithoutMeterRefs(R) = [m \in DOMAIN meters |-> WithoutMeterRefs(R)[m]]
BY DEF WithoutGroupRefs, WithoutMeterRefs, MoveGroupRefs, MoveMeterRefs

LEMMA RemoveFlowsStep ==
  ASSUME IInv, NEW R \in SUBSET Live, RemoveFlows(R)
  PROVE  IInv'
<1>1. /\ flows' = [f \in Live \ R |-> flows[f]]
      /\ groups' = [g \in DOMAIN groups |-> WithoutGroupRefs(R)[g]]
      /\ meters' = [m \in DOMAIN meters |-> WithoutMeterRefs(R)[m]]
      /\ UNCHANGED <<groups_num, buckets_num, meters_num, bands_num>>
  BY WithoutDomains DEF RemoveFlows
<1>2. Counters' BY <1>1, Shapes DEF Counters
<1>3. /\ \A f \in Live \ R : flows[f].insts.groups \subseteq DOMAIN groups
      /\ \A g \in DOMAIN groups : groups[g].chain \subseteq DOMAIN groups
  BY Shapes
<1>4. QED BY <1>1, <1>2, <1>3, Removal

\* A group is deleted that no other forwards to; its flows leave with it.
LEMMA GroupDeleteStep ==
  ASSUME IInv, NEW id \in GroupIds, GroupDelete(id)
  PROVE  IInv'
<1>1. CASE UNCHANGED <<flows, groupTable, meterTable>> BY <1>1, NothingChanges
<1>2. CASE id \in DOMAIN groups /\ ~IsChained(id) /\ ~UNCHANGED <<flows, groupTable, meterTable>>
  <2> DEFINE R == groups[id].flow_refs
  <2>1. /\ flows' = [f \in Live \ R |-> flows[f]]
        /\ groups' = [g \in DOMAIN groups \ {id} |-> WithoutGroupRefs(R)[g]]
        /\ meters' = [m \in DOMAIN meters |-> WithoutMeterRefs(R)[m]]
        /\ groups_num' = groups_num - 1
        /\ buckets_num' = buckets_num - groups[id].buckets
        /\ UNCHANGED <<meters_num, bands_num>>
    BY <1>2, WithoutDomains DEF GroupDelete, GroupModFails
  <2>2. R \in SUBSET Live BY <1>2, Shapes
  <2>3. Counters'
    <3>1. groups[id].buckets \in Nat BY <1>2, Shapes DEF GroupEntry
    <3>2. QED BY <2>1, <3>1, Shapes DEF Counters
  <2>4. \A f \in Live \ R : flows[f].insts.groups \subseteq DOMAIN groups \ {id} BY <1>2, Shapes
  <2>5. \A g \in DOMAIN groups \ {id} : groups[g].chain \subseteq DOMAIN groups \ {id}
    BY <1>2, Shapes DEF IsChained
  <2> HIDE DEF R
  <2>6. QED BY <2>1, <2>2, <2>3, <2>4, <2>5, Removal
<1>3. QED BY <1>1, <1>2 DEF GroupDelete, GroupModFails

\* All groups are deleted, and every flow entry that forwards to one.
LEMMA GroupDeleteAllStep ==
  ASSUME IInv, GroupDeleteAll
  PROVE  IInv'
<1> DEFINE R == UNION {groups[g].flow_refs : g \in DOMAIN groups}
<1>1. /\ flows' = [f \in Live \ R |-> flows[f]]
      /\ groups' = [g \in {} |-> WithoutGroupRefs(R)[g]]
      /\ meters' = [m \in DOMAIN meters |-> WithoutMeterRefs(R)[m]]
      /\ groups_num' = 0 /\ buckets_num' = 0
      /\ UNCHANGED <<meters_num, bands_num>>
  <2>1. <<>> = [g \in {} |-> WithoutGroupRefs(R)[g]] OBVIOUS
  <2>2. QED BY <2>1, WithoutDomains DEF GroupDeleteAll
<1>2. R \in SUBSET Live BY Shapes
<1>3. Counters' BY <1>1, Shapes DEF Counters
<1>4. /\ \A f \in Live \ R : flows[f].insts.groups \subseteq {}
      /\ \A g \in {} : groups[g].chain \subseteq {}
      /\ {} \in SUBSET DOMAIN groups
  BY Shapes
<1> HIDE DEF R
<1>5. QED BY <1>1, <1>2, <1>3, <1>4, Removal

\* A meter is added.
LEMMA MeterAddStep ==
  ASSUME IInv, NEW mod \in MeterMods, MeterAdd(mod)
  PROVE  IInv'
<1>1. CASE UNCHANGED <<flows, groupTable, meterTable>> BY <1>1, NothingChanges
<1>2. CASE /\ mod.id \notin DOMAIN meters
           /\ meters' = [m \in DOMAIN meters \cup {mod.id} |->
                           IF m = mod.id THEN NewMeter(mod, {}, 0) ELSE meters[m]]
           /\ meters_num' = meters_num + 1
           /\ bands_num' = bands_num + mod.bands
           /\ UNCHANGED <<flows, groupTable>>
  <2>1. mod.id \in MeterIds /\ mod.bands \in Nat BY MeterModsAssumption
  <2>2. NewMeter(mod, {}, 0) \in MeterEntry /\ NewMeter(mod, {}, 0).flow_refs = {}
    BY <2>1 DEF NewMeter, MeterEntry
  <2>3. DOMAIN meters \subseteq MeterIds /\ meters \in [DOMAIN meters -> MeterEntry]
    BY DEF IInv, TypeOK, MapsInto
  <2>4. /\ DOMAIN meters' = DOMAIN meters \cup {mod.id}
        /\ meters' \in [DOMAIN meters' -> MeterEntry]
        /\ meters'[mod.id] = NewMeter(mod, {}, 0)
        /\ \A m \in DOMAIN meters : meters'[m] = meters[m]
    BY <1>2, <2>2, <2>3
  <2>5. UNCHANGED <<flows, groups, groups_num, buckets_num>> BY <1>2 DEF groupTable
  <2>6. TypeOK'
    <3>1. MapsInto(meters', MeterIds, MeterEntry) BY <2>1, <2>3, <2>4 DEF MapsInto
    <3>2. QED BY <1>2, <2>1, <2>5, <3>1 DEF IInv, TypeOK
  <2>7. OwnListsExact' BY <2>5 DEF IInv, OwnListsExact, Live
  <2>8. GroupRefsExact' BY <2>5 DEF IInv, GroupRefsExact, Live
  <2>9. MeterRefsLive' BY <2>2, <2>4, <2>5 DEF IInv, MeterRefsLive, Live
  <2>10. NoDanglingGroup' BY <2>5 DEF IInv, NoDanglingGroup, Live
  <2>11. NoGroupLoop' BY <2>5 DEF IInv, NoGroupLoop
  <2>12. QED BY <2>6, <2>7, <2>8, <2>9, <2>10, <2>11 DEF IInv
<1>3. QED BY <1>1, <1>2 DEF MeterAdd, GroupModFails

\* A meter is replaced by one with the same flow references.
LEMMA MeterModifyStep ==
  ASSUME IInv, NEW mod \in MeterMods, MeterModify(mod)
  PROVE  IInv'
<1>1. CASE UNCHANGED <<flows, groupTable, meterTable>> BY <1>1, NothingChanges
<1>2. CASE /\ mod.id \in DOMAIN meters
           /\ meters' = ReplacedMeter(mod)
           /\ bands_num' = BandsAfter(mod)
           /\ UNCHANGED <<flows, groupTable, meters_num>>
  <2>1. mod.id \in MeterIds /\ mod.bands \in Nat BY MeterModsAssumption
  <2>2. DOMAIN meters \subseteq MeterIds /\ meters \in [DOMAIN meters -> MeterEntry]
    BY DEF IInv, TypeOK, MapsInto
  <2> DEFINE old == meters[mod.id]
             new == NewMeter(mod, old.flow_refs, old.flow_count)
  <2>3. old \in MeterEntry BY <1>2, <2>2
  <2>4. new \in MeterEntry /\ new.flow_refs = old.flow_refs BY <2>1, <2>3 DEF NewMeter, MeterEntry
  <2>5. meters' = [meters EXCEPT ![mod.id] = new] BY <1>2 DEF ReplacedMeter
  <2> HIDE DEF new
  <2>6. /\ DOMAIN meters' = DOMAIN meters
        /\ meters' \in [DOMAIN meters -> MeterEntry]
        /\ meters'[mod.id] = new
        /\ \A m \in DOMAIN meters \ {mod.id} : meters'[m] = meters[m]
    BY <1>2, <2>2, <2>4, <2>5
  <2>7. UNCHANGED <<flows, groups, groups_num, buckets_num, meters_num>> BY <1>2 DEF groupTable
  <2>8. TypeOK'
    <3>1. MapsInto(meters', MeterIds, MeterEntry) BY <2>2, <2>6 DEF MapsInto
    <3>2. old.bands \in Nat BY <2>3 DEF MeterEntry
    <3>3. bands_num \in Int BY DEF IInv, TypeOK
    <3>4. bands_num' \in Int BY <1>2, <2>1, <3>2, <3>3 DEF BandsAfter
    <3>5. QED BY <2>7, <3>1, <3>4 DEF IInv, TypeOK
  <2>9. OwnListsExact' BY <2>7 DEF IInv, OwnListsExact, Live
  <2>10. GroupRefsExact' BY <2>7 DEF IInv, GroupRefsExact, Live
  <2>11. MeterRefsLive' BY <2>4, <2>6, <2>7 DEF IInv, MeterRefsLive, Live
  <2>12. NoDanglingGroup' BY <2>7 DEF IInv, NoDanglingGroup, Live
  <2>13. NoGroupLoop' BY <2>7 DEF IInv, NoGroupLoop
  <2>14. QED BY <2>8, <2>9, <2>10, <2>11, <2>12, <2>13 DEF IInv
<1>3. QED BY <1>1, <1>2 DEF MeterModify, GroupModFails

\* A meter is deleted; the flows on its list leave with it.
LEMMA MeterDeleteStep ==
  ASSUME IInv, NEW id \in MeterIds, MeterDelete(id)
  PROVE  IInv'
<1>1. CASE UNCHANGED <<flows, groupTable, meterTable>> BY <1>1, NothingChanges
<1>2. CASE id \in DOMAIN meters
  <2> DEFINE R == meters[id].flow_refs
  <2>1. /\ flows' = [f \in Live \ R |-> flows[f]]
        /\ groups' = [g \in DOMAIN groups |-> WithoutGroupRefs(R)[g]]
        /\ meters' = [m \in DOMAIN meters \ {id} |-> WithoutMeterRefs(R)[m]]
        /\ meters_num' = meters_num - 1
        /\ bands_num' = bands_num - meters[id].bands
        /\ UNCHANGED <<groups_num, buckets_num>>
    BY <1>2, WithoutDomains DEF MeterDelete
  <2>2. R \in SUBSET Live BY <1>2, Shapes
  <2>3. Counters'
    <3>1. meters[id].bands \in Nat BY <1>2, Shapes DEF MeterEntry
    <3>2. QED BY <2>1, <3>1, Shapes DEF Counters
  <2>4. /\ \A f \in Live \ R : flows[f].insts.groups \subseteq DOMAIN groups
        /\ \A g \in DOMAIN groups : groups[g].chain \subseteq DOMAIN groups
    BY Shapes
  <2> HIDE DEF R
  <2>5. QED BY <2>1, <2>2, <2>3, <2>4, Removal
<1>3. QED BY <1>1, <1>2 DEF MeterDelete

\* All meters are deleted, and every flow entry on one of their lists.
LEMMA MeterDeleteAllStep ==
  ASSUME IInv, MeterDeleteAll
  PROVE  IInv'
<1> DEFINE R == UNION {meters[m].flow_refs : m \in DOMAIN meters}
<1>1. /\ flows' = [f \in Live \ R |-> flows[f]]
      /\ groups' = [g \in DOMAIN groups |-> WithoutGroupRefs(R)[g]]
      /\ meters' = [m \in {} |-> WithoutMeterRefs(R)[m]]
      /\ meters_num' = 0 /\ bands_num' = 0
      /\ UNCHANGED <<groups_num, buckets_num>>
  <2>1. <<>> = [m \in {} |-> WithoutMeterRefs(R)[m]] OBVIOUS
  <2>2. QED BY <2>1, WithoutDomains DEF MeterDeleteAll
<1>2. R \in SUBSET Live BY Shapes
<1>3. Counters' BY <1>1, Shapes DEF Counters
<1>4. /\ \A f \in Live \ R : flows[f].insts.groups \subseteq DOMAIN groups
      /\ \A g \in DOMAIN groups : groups[g].chain \subseteq DOMAIN groups
  BY Shapes
<1> HIDE DEF R
<1>5. QED BY <1>1, <1>2, <1>3, <1>4, Removal

-----------------------------------------------------------------------------
(* The theorems                                                               *)

LEMMA InitIInv == Init => IInv
<1> SUFFICES ASSUME Init PROVE IInv OBVIOUS
<1>1. DOMAIN flows = {} /\ DOMAIN groups = {} /\ DOMAIN meters = {} BY DEF Init
<1>2. TypeOK
  <2>1. \A T : /\ <<>> \in [DOMAIN <<>> -> T]
    OBVIOUS
  <2>2. bands_num \in Int BY LimitsAssumption DEF Init
  <2>3. QED BY <1>1, <2>1, <2>2 DEF Init, TypeOK, MapsInto
<1>3. OwnListsExact /\ GroupRefsExact /\ MeterRefsLive /\ NoDanglingGroup /\ NoGroupLoop
  BY <1>1 DEF OwnListsExact, GroupRefsExact, MeterRefsLive, NoDanglingGroup, NoGroupLoop, Live
<1>4. QED BY <1>2, <1>3 DEF IInv

LEMMA NextIInv == IInv /\ [Next]_vars => IInv'
<1> SUFFICES ASSUME IInv, [Next]_vars PROVE IInv' OBVIOUS
<1>1. CASE UNCHANGED vars BY <1>1, NothingChanges DEF vars
<1>2. CASE FlowStep
  <2>1. ASSUME NEW insts \in Insts, NEW f \in Flows, NEW old \in {{}} \cup {{x} : x \in Live},
               AddFlow(f, old, insts)
        PROVE  IInv'
    BY <2>1, AddFlowStep
  <2>2. ASSUME NEW insts \in Insts, NEW S \in SUBSET Live, ModifyFlows(S, insts)
        PROVE  IInv'
    BY <2>2, ModifyFlowsStep
  <2>3. ASSUME NEW R \in SUBSET Live, RemoveFlows(R) PROVE IInv' BY <2>3, RemoveFlowsStep
  <2>4. QED BY <1>2, <2>1, <2>2, <2>3 DEF FlowStep
<1>3. CASE GroupStep
  BY <1>3, GroupAddStep, GroupModifyStep, GroupDeleteStep, GroupDeleteAllStep DEF GroupStep
<1>4. CASE MeterStep
  BY <1>4, MeterAddStep, MeterModifyStep, MeterDeleteStep, MeterDeleteAllStep DEF MeterStep
<1>5. QED BY <1>1, <1>2, <1>3, <1>4 DEF Next

THEOREM InvariantHolds == Spec => []IInv
BY InitIInv, NextIInv, PTL DEF Spec

\* Every variable keeps its type whatever flow-mods, group-mods and meter-mods
\* the switch is sent.
THEOREM TypeHolds == Spec => []TypeOK
<1>1. IInv => TypeOK BY DEF IInv
<1>2. QED BY <1>1, InvariantHolds, PTL

\* The references between flow entries and groups are exact in both directions,
\* which is what makes the removal of a group with its flows safe.
THEOREM GroupRefsHold == Spec => []GroupRefsExact
<1>1. IInv => GroupRefsExact BY DEF IInv
<1>2. QED BY <1>1, InvariantHolds, PTL

\* Nothing forwards to a group that does not exist.
THEOREM NoDanglingGroupHolds == Spec => []NoDanglingGroup
<1>1. IInv => NoDanglingGroup BY DEF IInv
<1>2. QED BY <1>1, InvariantHolds, PTL

\* No chain of groups is a loop, although only MODIFY looks for one.
THEOREM NoGroupLoopHolds == Spec => []NoGroupLoop
<1>1. IInv => NoGroupLoop BY DEF IInv
<1>2. QED BY <1>1, InvariantHolds, PTL

\* So a packet that enters a group leaves it, whatever groups were added, changed
\* and deleted before.
THEOREM ChainsSoundHolds == Spec => []ChainsSound
<1>1. IInv => ChainsSound BY DEF IInv, ChainsSound
<1>2. QED BY <1>1, InvariantHolds, PTL

\* The flow entries a meter lists are live, so that deleting it frees none twice.
THEOREM MeterRefsHold == Spec => []MeterRefsLive
<1>1. IInv => MeterRefsLive BY DEF IInv
<1>2. QED BY <1>1, InvariantHolds, PTL

-----------------------------------------------------------------------------
(* What the deletion of groups takes along                                    *)

GroupDeletion == out'.op \in {"group_delete", "group_delete_all"}
TakesExactly == Live \ DOMAIN flows' = {f \in Live : flows[f].insts.groups \ DOMAIN groups' # {}}

\* An operation that says it deleted groups is one of the two deletions.
LEMMA DeletionsOnly ==
  ASSUME Next, GroupDeletion
  PROVE  (\E id \in GroupIds : GroupDelete(id)) \/ GroupDeleteAll
<1>1. \A op, error : Did(op).op = op /\ Failed(op, error).op = op BY DEF Did, Failed
<1>2. ASSUME FlowStep PROVE FALSE
  <2>1. out' \in {Did("flow_add"), Did("flow_modify"), Did("flow_remove")}
    BY <1>2 DEF FlowStep, AddFlow, ModifyFlows, RemoveFlows
  <2>2. out'.op \in {"flow_add", "flow_modify", "flow_remove"} BY <1>1, <2>1
  <2>3. QED BY <2>2 DEF GroupDeletion
<1>3. ASSUME NEW mod \in GroupMods, GroupAdd(mod) \/ GroupModify(mod) PROVE FALSE
  <2>1. \E error : \/ out' = Failed("group_add", error) \/ out' = Did("group_add")
                   \/ out' = Failed("group_modify", error) \/ out' = Did("group_modify")
    BY <1>3 DEF GroupAdd, GroupModify, GroupModFails
  <2>2. out'.op \in {"group_add", "group_modify"} BY <1>1, <2>1
  <2>3. QED BY <2>2 DEF GroupDeletion
<1>4. ASSUME MeterStep PROVE FALSE
  <2>1. CASE \E mod \in MeterMods : MeterAdd(mod) \/ MeterModify(mod)
    <3>1. \E error : \/ out' = Failed("meter_add", error) \/ out' = Did("meter_add")
                     \/ out' = Failed("meter_modify", error) \/ out' = Did("meter_modify")
      BY <2>1 DEF MeterAdd, MeterModify, GroupModFails
    <3>2. out'.op \in {"meter_add", "meter_modify"} BY <1>1, <3>1
    <3>3. QED BY <3>2 DEF GroupDeletion
  <2>2. CASE \E id \in MeterIds : MeterDelete(id)
    <3>1. out'.op = "meter_delete" BY <2>2 DEF MeterDelete, Did
    <3>2. QED BY <3>1 DEF GroupDeletion
  <2>3. CASE MeterDeleteAll
    <3>1. out'.op = "meter_delete_all" BY <2>3 DEF MeterDeleteAll, Did
    <3>2. QED BY <3>1 DEF GroupDeletion
  <2>4. QED BY <1>4, <2>1, <2>2, <2>3 DEF MeterStep
<1>5. QED BY <1>2, <1>3, <1>4 DEF Next, GroupStep

\* Deleting one group, or being refused to, takes exactly its flow entries.
LEMMA DeleteTakes ==
  ASSUME IInv, NEW id \in GroupIds, GroupDelete(id)
  PROVE  TakesExactly
<1>1. CASE UNCHANGED <<flows, groupTable, meterTable>>
  <2>1. UNCHANGED <<flows, groups>> BY <1>1 DEF groupTable
  <2>2. QED BY <2>1, Shapes DEF TakesExactly, Live
<1>2. CASE id \in DOMAIN groups /\ ~UNCHANGED <<flows, groupTable, meterTable>>
  <2>1. /\ DOMAIN flows' = Live \ groups[id].flow_refs
        /\ DOMAIN groups' = DOMAIN groups \ {id}
    BY <1>2 DEF GroupDelete, GroupModFails
  <2>2. groups[id].flow_refs = {f \in Live : id \in flows[f].insts.groups} BY <1>2, Shapes
  <2>3. QED BY <1>2, <2>1, <2>2, Shapes DEF TakesExactly
<1>3. QED BY <1>1, <1>2 DEF GroupDelete, GroupModFails

\* Deleting all groups takes every flow entry that forwards to one.
LEMMA DeleteAllTakes ==
  ASSUME IInv, GroupDeleteAll
  PROVE  TakesExactly
<1>1. /\ DOMAIN flows' = Live \ UNION {groups[g].flow_refs : g \in DOMAIN groups}
      /\ DOMAIN groups' = {}
  BY DEF GroupDeleteAll
<1>2. \A f \in Live : f \in UNION {groups[g].flow_refs : g \in DOMAIN groups}
                        <=> flows[f].insts.groups # {}
  BY Shapes
<1>3. QED BY <1>1, <1>2 DEF TakesExactly

\* Deleting groups removes exactly the flow entries that forward to them.
THEOREM GroupTakesItsFlowsHolds == Spec => GroupTakesItsFlows
<1>1. IInv /\ [Next]_vars => [GroupDeletion => TakesExactly]_vars
  <2> SUFFICES ASSUME IInv, Next, GroupDeletion PROVE TakesExactly OBVIOUS
  <2>1. QED BY DeletionsOnly, DeleteTakes, DeleteAllTakes
<1>2. QED BY <1>1, InvariantHolds, PTL DEF Spec, GroupTakesItsFlows, GroupDeletion, TakesExactly

-----------------------------------------------------------------------------
(* The counts                                                                 *)

\* What the limits of the group table rest on, and those of the meter table.
GroupSide == IsFiniteSet(DOMAIN groups) /\ IsFiniteSet(Buckets) /\ GroupCountsExact
MeterSide == IsFiniteSet(DOMAIN meters) /\ MeterCountExact

\* The buckets of one group.
Pile(g, n) == {g} \X (1..n)

LEMMA PileSize ==
  ASSUME NEW g, NEW n \in Nat
  PROVE  IsFiniteSet(Pile(g, n)) /\ Cardinality(Pile(g, n)) = n
<1>1. IsFiniteSet({g}) /\ Cardinality({g}) = 1 BY FS_Singleton
<1>2. IsFiniteSet(1..n) /\ Cardinality(1..n) = n
  <2>1. /\ IsFiniteSet(1..n)
        /\ Cardinality(1..n) = IF 1 > n THEN 0 ELSE n - 1 + 1
    BY FS_Interval
  <2>2. QED BY <2>1
<1>3. IsFiniteSet(Pile(g, n)) /\ Cardinality(Pile(g, n)) = Cardinality({g}) * Cardinality(1..n)
  BY <1>1, <1>2, FS_Product DEF Pile
<1>4. 1 * n = n OBVIOUS
<1>5. QED BY <1>1, <1>2, <1>3, <1>4

\* The buckets that the group of this identifier has, if there is one.
SizeOf(id) == IF id \in DOMAIN groups THEN groups[id].buckets ELSE 0

\* Only the group id comes, goes or gets other buckets.
OnlyGroup(id) ==
  /\ DOMAIN groups' \ {id} = DOMAIN groups \ {id}
  /\ \A g \in DOMAIN groups \ {id} : groups'[g].buckets = groups[g].buckets

\* Then all the buckets there are change by those of the one group.
LEMMA BucketsChange ==
  ASSUME IsFiniteSet(Buckets), NEW id, OnlyGroup(id), SizeOf(id) \in Nat, SizeOf(id)' \in Nat
  PROVE  /\ IsFiniteSet(Buckets')
         /\ Cardinality(Buckets') = Cardinality(Buckets) - SizeOf(id) + SizeOf(id)'
<1> DEFINE old == Pile(id, SizeOf(id))
           new == Pile(id, SizeOf(id)')
           rest == Buckets \ old
<1>1. \A p : p \in Buckets <=> \E g \in DOMAIN groups : p \in Pile(g, groups[g].buckets)
  BY DEF Buckets, Pile
<1>2. \A p : p \in Buckets' <=> \E g \in DOMAIN groups' : p \in Pile(g, groups'[g].buckets)
  BY DEF Buckets, Pile
<1>3. \A g, h, n, k : \A p \in Pile(g, n) : p \in Pile(h, k) => g = h
  BY DEF Pile
<1>4. old \subseteq Buckets
  <2>1. CASE id \in DOMAIN groups BY <1>1, <2>1 DEF SizeOf
  <2>2. CASE id \notin DOMAIN groups
    <3>1. old = {} BY <2>2 DEF SizeOf, Pile
    <3>2. QED BY <3>1
  <2>3. QED BY <2>1, <2>2
<1>5. \A p : p \in rest <=> \E g \in DOMAIN groups \ {id} : p \in Pile(g, groups[g].buckets)
  <2>1. id \in DOMAIN groups => old = Pile(id, groups[id].buckets) BY DEF SizeOf
  <2>2. QED BY <1>1, <1>3, <2>1
<1>6. \A p : p \in new <=> id \in DOMAIN groups' /\ p \in Pile(id, groups'[id].buckets)
  <2>1. CASE id \in DOMAIN groups' BY <2>1 DEF SizeOf
  <2>2. CASE id \notin DOMAIN groups' BY <2>2 DEF SizeOf, Pile
  <2>3. QED BY <2>1, <2>2
<1>7. Buckets' = rest \cup new
  <2>1. \A p : p \in Buckets' <=> p \in rest \/ p \in new
    BY <1>2, <1>5, <1>6 DEF OnlyGroup
  <2>2. QED BY <2>1
<1>8. rest \cap new = {} BY <1>3, <1>5, <1>6
<1>9. /\ IsFiniteSet(old) /\ Cardinality(old) = SizeOf(id)
      /\ IsFiniteSet(new) /\ Cardinality(new) = SizeOf(id)'
  BY PileSize
<1>10. IsFiniteSet(rest) /\ Cardinality(rest) = Cardinality(Buckets) - SizeOf(id)
  <2>1. Buckets \cap old = old BY <1>4
  <2>2. /\ IsFiniteSet(rest)
        /\ Cardinality(rest) = Cardinality(Buckets) - Cardinality(Buckets \cap old)
    BY FS_Difference
  <2>3. QED BY <1>9, <2>1, <2>2
<1>11. /\ IsFiniteSet(rest \cup new)
       /\ Cardinality(rest \cup new) = Cardinality(rest) + Cardinality(new) - Cardinality(rest \cap new)
  BY <1>9, <1>10, FS_Union
<1>12. Cardinality(rest \cap new) = 0 BY <1>8, FS_EmptySet
<1>13. Cardinality(Buckets) \in Nat BY FS_CardinalityType
<1>14. QED BY <1>7, <1>9, <1>10, <1>11, <1>12, <1>13

\* The table of groups has as many groups and buckets as before.
LEMMA GroupSideStays ==
  ASSUME GroupSide, DOMAIN groups' = DOMAIN groups,
         \A g \in DOMAIN groups : groups'[g].buckets = groups[g].buckets,
         UNCHANGED <<groups_num, buckets_num>>
  PROVE  GroupSide'
<1>1. Buckets' = Buckets BY DEF Buckets
<1>2. QED BY <1>1 DEF GroupSide, GroupCountsExact

\* One group changes, and the counters count that and keep to the limits.
LEMMA GroupSideChanges ==
  ASSUME GroupSide, NEW id, OnlyGroup(id), SizeOf(id) \in Nat, SizeOf(id)' \in Nat,
         groups_num' = groups_num + (IF id \in DOMAIN groups' THEN 1 ELSE 0)
                                  - (IF id \in DOMAIN groups THEN 1 ELSE 0),
         buckets_num' = buckets_num - SizeOf(id) + SizeOf(id)',
         groups_num' <= MaxGroups, buckets_num' <= MaxBuckets
  PROVE  GroupSide'
<1> DEFINE D == DOMAIN groups
           E == DOMAIN groups'
<1>1. /\ IsFiniteSet(D) /\ IsFiniteSet(Buckets)
      /\ groups_num = Cardinality(D) /\ buckets_num = Cardinality(Buckets)
  BY DEF GroupSide, GroupCountsExact
<1>2. Cardinality(D) \in Nat /\ Cardinality(Buckets) \in Nat BY <1>1, FS_CardinalityType
<1>3. IsFiniteSet(Buckets') /\ buckets_num' = Cardinality(Buckets')
  BY <1>1, <1>2, BucketsChange
<1>4. /\ IsFiniteSet(D \ {id})
      /\ Cardinality(D \ {id}) = IF id \in D THEN Cardinality(D) - 1 ELSE Cardinality(D)
  BY <1>1, FS_RemoveElement
<1>5. IsFiniteSet(E) /\ Cardinality(E) = Cardinality(D) + (IF id \in E THEN 1 ELSE 0)
                                                       - (IF id \in D THEN 1 ELSE 0)
  <2>1. E \ {id} = D \ {id} BY DEF OnlyGroup
  <2>2. CASE id \in E
    <3>1. E = (D \ {id}) \cup {id} BY <2>1, <2>2
    <3>2. /\ IsFiniteSet((D \ {id}) \cup {id})
          /\ Cardinality((D \ {id}) \cup {id}) = Cardinality(D \ {id}) + 1
      BY <1>4, FS_AddElement
    <3>3. QED BY <1>2, <1>4, <2>2, <3>1, <3>2
  <2>3. CASE id \notin E
    <3>1. E = D \ {id} BY <2>1, <2>3
    <3>2. QED BY <1>2, <1>4, <2>3, <3>1
  <2>4. QED BY <2>2, <2>3
<1>6. QED BY <1>1, <1>3, <1>5 DEF GroupSide, GroupCountsExact

\* One meter comes or goes, and the counter counts that and keeps to the limit.
LEMMA MeterSideChanges ==
  ASSUME MeterSide, NEW id, DOMAIN meters' \ {id} = DOMAIN meters \ {id},
         \A m \in DOMAIN meters' : meters'[m].flow_count = Cardinality(meters'[m].flow_refs),
         meters_num' = meters_num + (IF id \in DOMAIN meters' THEN 1 ELSE 0)
                                  - (IF id \in DOMAIN meters THEN 1 ELSE 0),
         meters_num' <= MaxMeters
  PROVE  MeterSide'
<1> DEFINE D == DOMAIN meters
           E == DOMAIN meters'
<1>1. IsFiniteSet(D) /\ meters_num = Cardinality(D) BY DEF MeterSide, MeterCountExact
<1>2. Cardinality(D) \in Nat BY <1>1, FS_CardinalityType
<1>3. /\ IsFiniteSet(D \ {id})
      /\ Cardinality(D \ {id}) = IF id \in D THEN Cardinality(D) - 1 ELSE Cardinality(D)
  BY <1>1, FS_RemoveElement
<1>4. IsFiniteSet(E) /\ Cardinality(E) = Cardinality(D) + (IF id \in E THEN 1 ELSE 0)
                                                       - (IF id \in D THEN 1 ELSE 0)
  <2>1. CASE id \in E
    <3>1. E = (D \ {id}) \cup {id} BY <2>1
    <3>2. /\ IsFiniteSet((D \ {id}) \cup {id})
          /\ Cardinality((D \ {id}) \cup {id}) = Cardinality(D \ {id}) + 1
      BY <1>3, FS_AddElement
    <3>3. QED BY <1>2, <1>3, <2>1, <3>1, <3>2
  <2>2. CASE id \notin E
    <3>1. E = D \ {id} BY <2>2
    <3>2. QED BY <1>2, <1>3, <2>2, <3>1
  <2>3. QED BY <2>1, <2>2
<1>5. QED BY <1>1, <1>4 DEF MeterSide, MeterCountExact

\* The meters stay, and their lists and counts with them.
LEMMA MeterSideStays ==
  ASSUME MeterSide, DOMAIN meters' = DOMAIN meters, meters_num' = meters_num,
         \A m \in DOMAIN meters : meters'[m].flow_count = Cardinality(meters'[m].flow_refs)
  PROVE  MeterSide'
BY DEF MeterSide, MeterCountExact

\* The flow entries that come and go do not change the buckets of a group.
LEMMA GroupsKeepBuckets ==
  ASSUME TypeOK, NEW R \in SUBSET Flows, NEW A \in SUBSET Flows, NEW insts, NEW g \in DOMAIN groups
  PROVE  MoveGroupRefs(R, A, insts)[g].buckets = groups[g].buckets
<1> DEFINE refs == (groups[g].flow_refs \ GroupLeavers(g, R)) \cup
                   (IF g \in insts.groups THEN A \ (groups[g].flow_refs \ GroupLeavers(g, R)) ELSE {})
           count == CountAfter(groups[g].ref_count, GroupLeavers(g, R),
                     IF g \in insts.groups THEN A \ (groups[g].flow_refs \ GroupLeavers(g, R)) ELSE {})
<1>1. groups[g] \in GroupEntry BY DEF TypeOK, MapsInto
<1>2. MoveGroupRefs(R, A, insts)[g] = [groups[g] EXCEPT !.flow_refs = refs, !.ref_count = count]
  BY DEF MoveGroupRefs
<1> HIDE DEF refs, count
<1>3. QED BY <1>1, <1>2 DEF GroupEntry

\* flow_count follows the list of its meter.
LEMMA MetersKeepCount ==
  ASSUME TypeOK, NEW R \in SUBSET Flows, NEW A \in SUBSET Flows, NEW insts, NEW m \in DOMAIN meters,
         meters[m].flow_count = Cardinality(meters[m].flow_refs)
  PROVE  LET M == MoveMeterRefs(R, A, insts)[m] IN M.flow_count = Cardinality(M.flow_refs)
<1> DEFINE gone == MeterLeavers(m, R)
           stay == meters[m].flow_refs \ gone
           add == IF m \in insts.meters THEN A \ stay ELSE {}
           count == meters[m].flow_count - Cardinality(gone) + Cardinality(add)
<1>1. meters[m] \in MeterEntry BY DEF TypeOK, MapsInto
<1>2. /\ MoveMeterRefs(R, A, insts)[m].flow_refs = stay \cup add
      /\ MoveMeterRefs(R, A, insts)[m].flow_count = count
  <2>1. MoveMeterRefs(R, A, insts)[m] = [meters[m] EXCEPT !.flow_refs = stay \cup add, !.flow_count = count]
    BY DEF MoveMeterRefs
  <2> HIDE DEF stay, add, count
  <2>2. QED BY <1>1, <2>1 DEF MeterEntry
<1>3. gone \subseteq meters[m].flow_refs BY DEF MeterLeavers
<1>4. meters[m].flow_refs \in SUBSET Flows BY <1>1 DEF MeterEntry
<1> HIDE DEF gone
<1>5. stay \in SUBSET Flows /\ add \in SUBSET Flows /\ gone \in SUBSET Flows /\ stay \cap add = {}
  BY <1>3, <1>4
<1>6. Cardinality(stay) = Cardinality(meters[m].flow_refs) - Cardinality(gone)
  <2>1. IsFiniteSet(meters[m].flow_refs) BY <1>4, CountType
  <2>2. meters[m].flow_refs \cap gone = gone BY <1>3
  <2>3. Cardinality(stay) = Cardinality(meters[m].flow_refs) - Cardinality(meters[m].flow_refs \cap gone)
    BY <2>1, FS_Difference
  <2>4. QED BY <2>2, <2>3
<1> HIDE DEF stay, add
<1>7. Cardinality(stay \cup add) = Cardinality(stay) + Cardinality(add)
  <2>1. IsFiniteSet(stay) /\ IsFiniteSet(add) BY <1>5, CountType
  <2>2. Cardinality(stay \cup add) = Cardinality(stay) + Cardinality(add) - Cardinality(stay \cap add)
    BY <2>1, FS_Union
  <2>3. Cardinality(stay \cap add) = 0 BY <1>5, FS_EmptySet
  <2>4. Cardinality(stay) \in Nat /\ Cardinality(add) \in Nat BY <1>5, CountType
  <2>5. QED BY <2>2, <2>3, <2>4
<1>8. QED BY <1>2, <1>6, <1>7

\* The flow entries R leave and A come, which groups and meters count well.
LEMMA GroupSideMoves ==
  ASSUME TypeOK, GroupSide, NEW R \in SUBSET Flows, NEW A \in SUBSET Flows, NEW insts,
         groups' = MoveGroupRefs(R, A, insts), UNCHANGED <<groups_num, buckets_num>>
  PROVE  GroupSide'
<1>1. DOMAIN groups' = DOMAIN groups BY DEF MoveGroupRefs
<1>2. \A g \in DOMAIN groups : groups'[g].buckets = groups[g].buckets BY GroupsKeepBuckets
<1>3. QED BY <1>1, <1>2, GroupSideStays

LEMMA MeterSideMoves ==
  ASSUME TypeOK, MeterSide, NEW R \in SUBSET Flows, NEW A \in SUBSET Flows, NEW insts,
         meters' = MoveMeterRefs(R, A, insts), meters_num' = meters_num
  PROVE  MeterSide'
<1>1. DOMAIN meters' = DOMAIN meters BY DEF MoveMeterRefs
<1>2. \A m \in DOMAIN meters : meters'[m].flow_count = Cardinality(meters'[m].flow_refs)
  BY MetersKeepCount DEF MeterSide, MeterCountExact
<1>3. QED BY <1>1, <1>2, MeterSideStays

\* What the counts need of the types.
LEMMA CountShapes ==
  ASSUME IInv
  PROVE  /\ TypeOK /\ Live \in SUBSET Flows
         /\ \A g \in DOMAIN groups : groups[g].buckets \in Nat /\ groups[g].flow_refs \in SUBSET Live
         /\ \A m \in DOMAIN meters : meters[m].flow_refs \in SUBSET Live
         /\ {groups_num, buckets_num, meters_num, bands_num} \subseteq Int
<1>1. TypeOK BY DEF IInv
<1>2. Live \in SUBSET Flows BY <1>1 DEF TypeOK, MapsInto, Live
<1>3. \A g \in DOMAIN groups : groups[g].buckets \in Nat BY Shapes DEF GroupEntry
<1>4. QED BY <1>1, <1>2, <1>3, Shapes

LEMMA CountsOfFlowStep ==
  ASSUME IInv, GroupSide, MeterSide, FlowStep
  PROVE  GroupSide' /\ MeterSide'
<1>1. TypeOK /\ Live \in SUBSET Flows BY CountShapes
<1>2. ASSUME NEW insts \in Insts, NEW f \in Flows, NEW old \in {{}} \cup {{x} : x \in Live},
             AddFlow(f, old, insts)
      PROVE  GroupSide' /\ MeterSide'
  <2>1. old \in SUBSET Flows /\ {f} \in SUBSET Flows BY <1>1
  <2>2. /\ groups' = MoveGroupRefs(old, {f}, insts) /\ meters' = MoveMeterRefs(old, {f}, insts)
        /\ UNCHANGED <<groups_num, buckets_num>> /\ meters_num' = meters_num
    BY <1>2 DEF AddFlow
  <2>3. QED BY ONLY <1>1, <2>1, <2>2, GroupSide, MeterSide, GroupSideMoves, MeterSideMoves
<1>3. ASSUME NEW insts \in Insts, NEW S \in SUBSET Live, ModifyFlows(S, insts)
      PROVE  GroupSide' /\ MeterSide'
  <2>1. S \in SUBSET Flows BY <1>1
  <2>2. /\ groups' = MoveGroupRefs(S, S, insts) /\ UNCHANGED <<groups_num, buckets_num>>
        /\ UNCHANGED <<meters, meters_num>>
    BY <1>3 DEF ModifyFlows, meterTable
  <2>3. GroupSide' BY ONLY <1>1, <2>1, <2>2, GroupSide, GroupSideMoves
  <2>4. MeterSide' BY <2>2 DEF MeterSide, MeterCountExact
  <2>5. QED BY <2>3, <2>4
<1>4. ASSUME NEW R \in SUBSET Live, RemoveFlows(R) PROVE GroupSide' /\ MeterSide'
  <2>1. R \in SUBSET Flows /\ {} \in SUBSET Flows BY <1>1
  <2>2. /\ groups' = MoveGroupRefs(R, {}, NoInsts) /\ meters' = MoveMeterRefs(R, {}, NoInsts)
        /\ UNCHANGED <<groups_num, buckets_num>> /\ meters_num' = meters_num
    BY <1>4 DEF RemoveFlows, WithoutGroupRefs, WithoutMeterRefs
  <2>3. QED BY ONLY <1>1, <2>1, <2>2, GroupSide, MeterSide, GroupSideMoves, MeterSideMoves
<1>5. QED BY <1>2, <1>3, <1>4 DEF FlowStep

\* Neither side changes.
LEMMA SidesUnchanged ==
  ASSUME GroupSide, MeterSide
  PROVE  /\ UNCHANGED groupTable => GroupSide'
         /\ UNCHANGED meterTable => MeterSide'
<1>1. ASSUME UNCHANGED groupTable PROVE GroupSide'
  <2>1. UNCHANGED <<groups, groups_num, buckets_num>> BY <1>1 DEF groupTable
  <2>2. QED BY <2>1, GroupSideStays
<1>2. ASSUME UNCHANGED meterTable PROVE MeterSide'
  BY <1>2 DEF meterTable, MeterSide, MeterCountExact
<1>3. QED BY <1>1, <1>2

LEMMA CountsOfGroupAdd ==
  ASSUME IInv, GroupSide, MeterSide, NEW mod \in GroupMods, GroupAdd(mod)
  PROVE  GroupSide' /\ MeterSide'
<1>1. CASE UNCHANGED <<flows, groupTable, meterTable>> BY <1>1, SidesUnchanged
<1>2. CASE /\ mod.id \notin DOMAIN groups
           /\ groups_num # MaxGroups
           /\ buckets_num + mod.buckets <= MaxBuckets
           /\ groups' = [g \in DOMAIN groups \cup {mod.id} |->
                           IF g = mod.id THEN NewGroup(mod, {}) ELSE groups[g]]
           /\ groups_num' = groups_num + 1
           /\ buckets_num' = buckets_num + mod.buckets
           /\ UNCHANGED <<flows, meterTable>>
  <2>1. mod.buckets \in Nat BY GroupModsAssumption
  <2>2. OnlyGroup(mod.id) BY <1>2 DEF OnlyGroup
  <2>3. SizeOf(mod.id) = 0 /\ SizeOf(mod.id)' = mod.buckets BY <1>2 DEF SizeOf, NewGroup
  <2>4. groups_num \in Int /\ buckets_num \in Int BY CountShapes
  <2>5. MaxGroups \in Nat BY LimitsAssumption
  <2>6. groups_num' <= MaxGroups BY <1>2, <2>4, <2>5 DEF GroupSide, GroupCountsExact
  <2>7. mod.id \in DOMAIN groups' /\ mod.id \notin DOMAIN groups BY <1>2
  <2>8. buckets_num' = buckets_num - SizeOf(mod.id) + SizeOf(mod.id)' BY <1>2, <2>1, <2>3, <2>4
  <2>9. groups_num' = groups_num + (IF mod.id \in DOMAIN groups' THEN 1 ELSE 0)
                                 - (IF mod.id \in DOMAIN groups THEN 1 ELSE 0)
    BY <1>2, <2>4, <2>7
  <2>10. SizeOf(mod.id) \in Nat /\ SizeOf(mod.id)' \in Nat BY <2>1, <2>3
  <2>11. buckets_num' <= MaxBuckets BY <1>2
  <2>12. GroupSide' BY ONLY GroupSide, <2>2, <2>6, <2>8, <2>9, <2>10, <2>11, GroupSideChanges
  <2>13. QED BY <1>2, <2>12, SidesUnchanged
<1>3. QED BY <1>1, <1>2 DEF GroupAdd, GroupModFails

LEMMA CountsOfGroupModify ==
  ASSUME IInv, GroupSide, MeterSide, NEW mod \in GroupMods, GroupModify(mod)
  PROVE  GroupSide' /\ MeterSide'
<1>1. CASE UNCHANGED <<flows, groupTable, meterTable>> BY <1>1, SidesUnchanged
<1>2. CASE /\ mod.id \in DOMAIN groups
           /\ BucketsAfter(mod) <= MaxBuckets
           /\ groups' = ReplacedGroup(mod)
           /\ buckets_num' = BucketsAfter(mod)
           /\ UNCHANGED <<flows, groups_num, meterTable>>
  <2>1. mod.buckets \in Nat BY GroupModsAssumption
  <2>2. OnlyGroup(mod.id) BY <1>2 DEF OnlyGroup, ReplacedGroup
  <2>3. mod.id \in DOMAIN groups /\ mod.id \in DOMAIN groups' BY <1>2 DEF ReplacedGroup
  <2>4. SizeOf(mod.id) = groups[mod.id].buckets /\ SizeOf(mod.id)' = mod.buckets
    BY <1>2, <2>3 DEF SizeOf, NewGroup, ReplacedGroup
  <2>5. groups_num \in Int /\ buckets_num \in Int /\ groups[mod.id].buckets \in Nat
    BY <2>3, CountShapes
  <2>6. SizeOf(mod.id) \in Nat /\ SizeOf(mod.id)' \in Nat BY <2>1, <2>4, <2>5
  <2>7. buckets_num' = buckets_num - SizeOf(mod.id) + SizeOf(mod.id)' /\ buckets_num' <= MaxBuckets
    BY <1>2, <2>4 DEF BucketsAfter
  <2>8. groups_num' = groups_num + (IF mod.id \in DOMAIN groups' THEN 1 ELSE 0)
                                 - (IF mod.id \in DOMAIN groups THEN 1 ELSE 0)
    BY <1>2, <2>3, <2>5
  <2>9. groups_num' <= MaxGroups BY <1>2 DEF GroupSide, GroupCountsExact
  <2>10. GroupSide' BY ONLY GroupSide, <2>2, <2>6, <2>7, <2>8, <2>9, GroupSideChanges
  <2>11. QED BY <1>2, <2>10, SidesUnchanged
<1>3. QED BY <1>1, <1>2 DEF GroupModify, GroupModFails

LEMMA CountsOfGroupDelete ==
  ASSUME IInv, GroupSide, MeterSide, NEW id \in GroupIds, GroupDelete(id)
  PROVE  GroupSide' /\ MeterSide'
<1>1. CASE UNCHANGED <<flows, groupTable, meterTable>> BY <1>1, SidesUnchanged
<1>2. CASE id \in DOMAIN groups /\ ~UNCHANGED <<flows, groupTable, meterTable>>
  <2> DEFINE R == groups[id].flow_refs
  <2>1. /\ groups' = [g \in DOMAIN groups \ {id} |-> WithoutGroupRefs(R)[g]]
        /\ meters' = WithoutMeterRefs(R)
        /\ groups_num' = groups_num - 1
        /\ buckets_num' = buckets_num - groups[id].buckets
        /\ meters_num' = meters_num
    BY <1>2 DEF GroupDelete, GroupModFails
  <2>2. /\ TypeOK /\ R \in SUBSET Flows /\ {} \in SUBSET Flows /\ groups[id].buckets \in Nat
        /\ groups_num \in Int /\ buckets_num \in Int
    BY <1>2, CountShapes
  <2> HIDE DEF R
  <2>3. MeterSide' BY ONLY MeterSide, <2>1, <2>2, MeterSideMoves DEF WithoutMeterRefs
  <2>4. \A g \in DOMAIN groups : WithoutGroupRefs(R)[g].buckets = groups[g].buckets
    BY <2>2, GroupsKeepBuckets DEF WithoutGroupRefs
  <2>5. OnlyGroup(id) /\ id \notin DOMAIN groups' BY <2>1, <2>4 DEF OnlyGroup
  <2>6. SizeOf(id) = groups[id].buckets /\ SizeOf(id)' = 0 BY <1>2, <2>5 DEF SizeOf
  <2>7. SizeOf(id) \in Nat /\ SizeOf(id)' \in Nat BY <2>2, <2>6
  <2>8. groups_num <= MaxGroups /\ buckets_num <= MaxBuckets BY DEF GroupSide, GroupCountsExact
  <2>9. {MaxGroups, MaxBuckets} \subseteq Nat BY LimitsAssumption
  <2>10. groups_num' <= MaxGroups /\ buckets_num' <= MaxBuckets BY <2>1, <2>2, <2>8, <2>9
  <2>11. buckets_num' = buckets_num - SizeOf(id) + SizeOf(id)' BY <2>1, <2>2, <2>6
  <2>12. groups_num' = groups_num + (IF id \in DOMAIN groups' THEN 1 ELSE 0)
                                  - (IF id \in DOMAIN groups THEN 1 ELSE 0)
    BY <1>2, <2>1, <2>2, <2>5
  <2>13. GroupSide' BY ONLY GroupSide, <2>5, <2>7, <2>10, <2>11, <2>12, GroupSideChanges
  <2>14. QED BY <2>3, <2>13
<1>3. QED BY <1>1, <1>2 DEF GroupDelete, GroupModFails

LEMMA CountsOfGroupDeleteAll ==
  ASSUME IInv, GroupSide, MeterSide, GroupDeleteAll
  PROVE  GroupSide' /\ MeterSide'
<1> DEFINE R == UNION {groups[g].flow_refs : g \in DOMAIN groups}
<1>1. TypeOK /\ R \in SUBSET Flows /\ {} \in SUBSET Flows BY CountShapes
<1>2. /\ DOMAIN groups' = {} /\ groups_num' = 0 /\ buckets_num' = 0
      /\ meters' = MoveMeterRefs(R, {}, NoInsts) /\ meters_num' = meters_num
  BY DEF GroupDeleteAll, WithoutMeterRefs
<1> HIDE DEF R
<1>3. MeterSide' BY ONLY MeterSide, <1>1, <1>2, MeterSideMoves
<1>4. Buckets' = {} BY <1>2 DEF Buckets
<1>5. GroupSide' BY <1>2, <1>4, FS_EmptySet, LimitsAssumption DEF GroupSide, GroupCountsExact
<1>6. QED BY <1>3, <1>5

LEMMA CountsOfMeterStep ==
  ASSUME IInv, GroupSide, MeterSide, MeterStep
  PROVE  GroupSide' /\ MeterSide'
<1> DEFINE Counted == \A m \in DOMAIN meters' : meters'[m].flow_count = Cardinality(meters'[m].flow_refs)
<1>1. /\ TypeOK /\ {} \in SUBSET Flows /\ meters_num \in Int
      /\ \A m \in DOMAIN meters : meters[m].flow_refs \in SUBSET Flows
  BY CountShapes
<1>2. /\ \A m \in DOMAIN meters : meters[m].flow_count = Cardinality(meters[m].flow_refs)
      /\ meters_num <= MaxMeters /\ MaxMeters \in Nat
  BY LimitsAssumption DEF MeterSide, MeterCountExact
<1>3. CASE UNCHANGED <<flows, groupTable, meterTable>> BY <1>3, SidesUnchanged
<1>4. ASSUME NEW mod \in MeterMods, MeterAdd(mod), ~UNCHANGED <<flows, groupTable, meterTable>>
      PROVE  GroupSide' /\ MeterSide'
  <2>1. /\ mod.id \notin DOMAIN meters /\ meters_num # MaxMeters
        /\ meters' = [m \in DOMAIN meters \cup {mod.id} |->
                        IF m = mod.id THEN NewMeter(mod, {}, 0) ELSE meters[m]]
        /\ meters_num' = meters_num + 1
        /\ UNCHANGED groupTable
    BY <1>4 DEF MeterAdd, GroupModFails
  <2>2. GroupSide' BY <2>1, SidesUnchanged
  <2>3. DOMAIN meters' = DOMAIN meters \cup {mod.id} BY <2>1
  <2>4. Counted
    <3>1. NewMeter(mod, {}, 0).flow_count = Cardinality(NewMeter(mod, {}, 0).flow_refs)
      BY FS_EmptySet DEF NewMeter
    <3>2. QED BY <1>2, <2>1, <3>1
  <2>5. meters_num' = meters_num + (IF mod.id \in DOMAIN meters' THEN 1 ELSE 0)
                                 - (IF mod.id \in DOMAIN meters THEN 1 ELSE 0)
    BY <1>1, <2>1, <2>3
  <2>6. meters_num' <= MaxMeters BY <1>1, <1>2, <2>1
  <2>7. DOMAIN meters' \ {mod.id} = DOMAIN meters \ {mod.id} BY <2>3
  <2>8. MeterSide' BY ONLY MeterSide, <2>4, <2>5, <2>6, <2>7, MeterSideChanges
  <2>9. QED BY <2>2, <2>8
<1>5. ASSUME NEW mod \in MeterMods, MeterModify(mod), ~UNCHANGED <<flows, groupTable, meterTable>>
      PROVE  GroupSide' /\ MeterSide'
  <2>1. /\ mod.id \in DOMAIN meters /\ meters' = ReplacedMeter(mod)
        /\ meters_num' = meters_num /\ UNCHANGED groupTable
    BY <1>5 DEF MeterModify, GroupModFails
  <2>2. GroupSide' BY <2>1, SidesUnchanged
  <2>3. DOMAIN meters' = DOMAIN meters BY <2>1 DEF ReplacedMeter
  <2>4. \A m \in DOMAIN meters : /\ meters'[m].flow_count = meters[m].flow_count
                                 /\ meters'[m].flow_refs = meters[m].flow_refs
    BY <2>1 DEF ReplacedMeter, NewMeter
  <2>5. QED BY <1>2, <2>1, <2>2, <2>3, <2>4, MeterSideStays
<1>6. ASSUME NEW id \in MeterIds, MeterDelete(id), ~UNCHANGED <<flows, groupTable, meterTable>>
      PROVE  GroupSide' /\ MeterSide'
  <2> DEFINE R == meters[id].flow_refs
  <2>1. /\ id \in DOMAIN meters
        /\ groups' = WithoutGroupRefs(R)
        /\ meters' = [m \in DOMAIN meters \ {id} |-> WithoutMeterRefs(R)[m]]
        /\ meters_num' = meters_num - 1
        /\ UNCHANGED <<groups_num, buckets_num>>
    BY <1>6 DEF MeterDelete
  <2>2. R \in SUBSET Flows BY <1>1, <2>1
  <2> HIDE DEF R
  <2>3. GroupSide' BY ONLY GroupSide, <1>1, <2>1, <2>2, GroupSideMoves DEF WithoutGroupRefs
  <2>4. Counted
    <3>1. \A m \in DOMAIN meters :
            WithoutMeterRefs(R)[m].flow_count = Cardinality(WithoutMeterRefs(R)[m].flow_refs)
      BY <1>1, <1>2, <2>2, MetersKeepCount DEF WithoutMeterRefs
    <3>2. QED BY <2>1, <3>1
  <2>5. DOMAIN meters' \ {id} = DOMAIN meters \ {id} /\ id \notin DOMAIN meters' BY <2>1
  <2>6. meters_num' = meters_num + (IF id \in DOMAIN meters' THEN 1 ELSE 0)
                                 - (IF id \in DOMAIN meters THEN 1 ELSE 0)
    BY <1>1, <2>1, <2>5
  <2>7. meters_num' <= MaxMeters BY <1>1, <1>2, <2>1
  <2>8. MeterSide' BY ONLY MeterSide, <2>4, <2>5, <2>6, <2>7, MeterSideChanges
  <2>9. QED BY <2>3, <2>8
<1>7. ASSUME MeterDeleteAll PROVE GroupSide' /\ MeterSide'
  <2> DEFINE R == UNION {meters[m].flow_refs : m \in DOMAIN meters}
  <2>1. R \in SUBSET Flows BY <1>1
  <2>2. /\ DOMAIN meters' = {} /\ meters_num' = 0
        /\ groups' = MoveGroupRefs(R, {}, NoInsts) /\ UNCHANGED <<groups_num, buckets_num>>
    BY <1>7 DEF MeterDeleteAll, WithoutGroupRefs
  <2> HIDE DEF R
  <2>3. GroupSide' BY ONLY GroupSide, <1>1, <2>1, <2>2, GroupSideMoves
  <2>4. MeterSide' BY <1>2, <2>2, FS_EmptySet DEF MeterSide, MeterCountExact
  <2>5. QED BY <2>3, <2>4
<1>8. QED BY <1>3, <1>4, <1>5, <1>6, <1>7 DEF MeterStep

\* The switch's counts of groups, buckets and meters, and the length of a meter's
\* list, are exact, and no table grows beyond its limit.
THEOREM CountsHold == Spec => []CountsExact
<1>1. Init => GroupSide /\ MeterSide
  <2> SUFFICES ASSUME Init PROVE GroupSide /\ MeterSide OBVIOUS
  <2>1. /\ DOMAIN groups = {} /\ DOMAIN meters = {}
        /\ groups_num = 0 /\ buckets_num = 0 /\ meters_num = 0
    BY DEF Init
  <2>2. Buckets = {} BY <2>1 DEF Buckets
  <2>3. QED BY <2>1, <2>2, FS_EmptySet, LimitsAssumption
            DEF GroupSide, MeterSide, GroupCountsExact, MeterCountExact
<1>2. IInv /\ GroupSide /\ MeterSide /\ [Next]_vars => GroupSide' /\ MeterSide'
  <2> SUFFICES ASSUME IInv, GroupSide, MeterSide, [Next]_vars PROVE GroupSide' /\ MeterSide' OBVIOUS
  <2>1. CASE UNCHANGED vars BY <2>1, SidesUnchanged DEF vars
  <2>2. CASE FlowStep BY <2>2, CountsOfFlowStep
  <2>3. CASE GroupStep
    BY <2>3, CountsOfGroupAdd, CountsOfGroupModify, CountsOfGroupDelete, CountsOfGroupDeleteAll
    DEF GroupStep
  <2>4. CASE MeterStep BY <2>4, CountsOfMeterStep
  <2>5. QED BY <2>1, <2>2, <2>3, <2>4 DEF Next
<1>3. GroupSide /\ MeterSide => CountsExact BY DEF GroupSide, MeterSide, CountsExact
<1>4. QED BY <1>1, <1>2, <1>3, InvariantHolds, PTL DEF Spec

=============================================================================
