--------------------------- MODULE RemotesProofs ---------------------------
(***************************************************************************)
(* Proofs about Remotes, for every set of controllers, of ports and of     *)
(* table-features messages, every number of tables and every range of the  *)
(* generation ids.                                                         *)
(*                                                                         *)
(* RolesAgree is the inductive invariant of the roles.  PendingAgrees is   *)
(* that of the reassembly: the features put together for a remote list the *)
(* tables that its pieces list, and none that does not exist.              *)
(*                                                                         *)
(* GrantsAgree is that of the generation ids: no remote was granted a      *)
(* newer id than the master, or than the switch knows.  They are compared  *)
(* modulo their range, so this holds while they have gone less than half   *)
(* way around it; NewestHolds says so in its hypothesis.                   *)
(*                                                                         *)
(* The replies to a query of the tables are a recursion over the numbers   *)
(* of the tables; that they are whole is shown from the last table down.   *)
(***************************************************************************)
EXTENDS Remotes, ListLemmas, TLAPS

Roles == {EQUAL, MASTER, SLAVE}

RolesAgree ==
  /\ role \in [remotes -> Roles]
  /\ told \in [remotes -> Roles]
  /\ AtMostOneMaster
  /\ ToldIsTrue

LEMMA RolesDiffer == EQUAL # MASTER /\ SLAVE # MASTER /\ EQUAL # SLAVE
  BY DEF EQUAL, MASTER, SLAVE

\* Before the first connection there is no remote.
LEMMA InitRoles == Init => RolesAgree
  BY DEF Init, RolesAgree, remotes, AtMostOneMaster, ToldIsTrue

\* Connections: a new remote is an equal, and one that is gone is nobody's master.
LEMMA ConnectRoles ==
  ASSUME RolesAgree, NEW r, Connect(r) \/ Disconnect(r)
  PROVE  RolesAgree'
<1>1. CASE Connect(r)
  <2>1. /\ DOMAIN role' = remotes \cup {r} /\ DOMAIN told' = remotes \cup {r}
        /\ \A s \in remotes : role'[s] = role[s] /\ told'[s] = told[s]
        /\ role'[r] = EQUAL /\ told'[r] = EQUAL
        /\ role' = With(role, r, EQUAL) /\ told' = With(told, r, EQUAL)
    BY <1>1 DEF Connect, With, RolesAgree, remotes
  <2>2. role' \in [remotes' -> Roles] /\ told' \in [remotes' -> Roles]
    BY <2>1 DEF RolesAgree, remotes, With, Roles
  <2>3. QED
    BY <2>1, <2>2, RolesDiffer DEF RolesAgree, AtMostOneMaster, ToldIsTrue, remotes
<1>2. CASE Disconnect(r)
  BY <1>2 DEF Disconnect, Minus, RolesAgree, AtMostOneMaster, ToldIsTrue, remotes
<1>3. QED
  BY <1>1, <1>2

\* Roles: a grant of the mastership demotes every other master, and a reply tells
\* what is true when it is sent.
LEMMA RoleRequestRoles ==
  ASSUME RolesAgree, NEW r, NEW generation, RoleRequest(r, generation)
  PROVE  RolesAgree'
<1>0. r \in remotes /\ DOMAIN role = remotes /\ DOMAIN told = remotes
  BY DEF RoleRequest, RolesAgree, remotes
<1>1. CASE RoleNoChange(r)
  BY <1>0, <1>1, RolesDiffer DEF RoleNoChange, Reply, RolesAgree, AtMostOneMaster, ToldIsTrue, remotes
<1>2. CASE RoleEqual(r, generation)
  BY <1>0, <1>2, RolesDiffer DEF RoleEqual, Reply, RolesAgree, AtMostOneMaster, ToldIsTrue, remotes, Roles
<1>3. CASE RoleMaster(r, generation)
  <2>1. CASE IsStale(generation)
    BY <1>3, <2>1 DEF RoleMaster, roles, RolesAgree, AtMostOneMaster, ToldIsTrue, remotes
  <2>2. CASE ~IsStale(generation)
    <3>1. role' = Demoted(r, generation) /\ told' = [told EXCEPT ![r] = MASTER]
      BY <1>3, <2>2 DEF RoleMaster, Reply
    <3>2. /\ DOMAIN role' = remotes
          /\ \A s \in remotes : role'[s] = IF s = r THEN MASTER ELSE IF role[s] = MASTER THEN SLAVE ELSE role[s]
          /\ role' \in [remotes -> Roles]
      BY <3>1 DEF Demoted, Roles, RolesAgree, remotes
    <3>3. /\ told' \in [remotes -> Roles]
          /\ told'[r] = MASTER /\ \A s \in remotes \ {r} : told'[s] = told[s]
      BY <1>0, <3>1 DEF Roles, RolesAgree
    <3>4. AtMostOneMaster'
      BY <3>2, RolesDiffer DEF AtMostOneMaster, remotes
    <3>5. ToldIsTrue'
      BY <3>2, <3>3, RolesDiffer DEF ToldIsTrue, remotes, RolesAgree
    <3>6. QED
      BY <3>2, <3>3, <3>4, <3>5 DEF RolesAgree, remotes
  <2>3. QED
    BY <2>1, <2>2
<1>4. CASE RoleSlave(r, generation)
  <2>1. CASE IsStale(generation)
    BY <1>4, <2>1 DEF RoleSlave, RoleAfter, RolesAgree, AtMostOneMaster, ToldIsTrue, remotes
  <2>2. CASE ~IsStale(generation)
    BY <1>0, <1>4, <2>2, RolesDiffer
       DEF RoleSlave, RoleAfter, Reply, RolesAgree, AtMostOneMaster, ToldIsTrue, remotes, Roles
  <2>3. QED
    BY <2>1, <2>2
<1>5. QED
  BY <1>1, <1>2, <1>3, <1>4 DEF RoleRequest

LEMMA NextRoles == RolesAgree /\ [Next]_vars => RolesAgree'
<1> SUFFICES ASSUME RolesAgree, [Next]_vars PROVE RolesAgree'
  OBVIOUS
<1>1. CASE UNCHANGED roles
  BY <1>1 DEF roles, RolesAgree, AtMostOneMaster, ToldIsTrue, remotes
<1>2. ASSUME NEW r \in Controllers, Connect(r) \/ Disconnect(r) PROVE RolesAgree'
  BY <1>2, ConnectRoles
<1>3. ASSUME NEW r \in Controllers, NEW generation \in Generations, RoleRequest(r, generation)
      PROVE  RolesAgree'
  BY <1>3, RoleRequestRoles
<1>4. ASSUME NEW r \in Controllers, NEW masks \in AsyncConfigs, SetAsync(r, masks) PROVE UNCHANGED roles
  BY <1>4 DEF SetAsync
<1>5. ASSUME NEW r \in Controllers, NEW p \in Ports, NEW down \in BOOLEAN, PortMod(r, p, down)
      PROVE  UNCHANGED roles
  BY <1>5 DEF PortMod
<1>6. ASSUME NEW r \in Controllers, NEW piece \in Pieces, TableFeatures(r, piece) PROVE UNCHANGED roles
  BY <1>6 DEF TableFeatures
<1>7. ASSUME NEW p \in Ports, LinkChange(p) PROVE UNCHANGED roles
  BY <1>7 DEF LinkChange
<1>8. CASE UNCHANGED vars
  BY <1>1, <1>8 DEF vars, roles
<1>9. QED
  BY <1>1, <1>2, <1>3, <1>4, <1>5, <1>6, <1>7, <1>8 DEF Next

THEOREM RolesHold == Spec => []RolesAgree
  BY InitRoles, NextRoles, PTL DEF Spec

\* "Full access, at most one master": dp_handle_role_request demotes whoever was
\* master, also when the generation is the same, and a new remote is no master.
THEOREM AtMostOneMasterHolds == Spec => []AtMostOneMaster
<1>1. RolesAgree => AtMostOneMaster
  BY DEF RolesAgree
<1>2. QED
  BY <1>1, RolesHold, PTL

\* A remote knows its role from its last role reply, but for a demotion.
THEOREM ToldIsTrueHolds == Spec => []ToldIsTrue
<1>1. RolesAgree => ToldIsTrue
  BY DEF RolesAgree
<1>2. QED
  BY <1>1, RolesHold, PTL

-----------------------------------------------------------------------------
(* The reassembly of table-features requests                                  *)

Ids(features) == {features[i].table_id : i \in DOMAIN features}

IdsOf(messages) == UNION {Ids(messages[i].features) : i \in DOMAIN messages}

PendingAgrees ==
  /\ DOMAIN mp_req = remotes /\ DOMAIN pieces = remotes
  /\ \A r \in remotes :
       /\ mp_req[r].features \in Seq(Feature)
       /\ pieces[r] \in Seq(Piece)
       /\ Ids(mp_req[r].features) = IdsOf(pieces[r])
       /\ Ids(mp_req[r].features) \subseteq Tables

LEMMA IdsOfMerged ==
  ASSUME NEW f \in Seq(Feature), NEW g \in Seq(Feature)
  PROVE  f \o g \in Seq(Feature) /\ Ids(f \o g) = Ids(f) \cup Ids(g)
<1>1. f \o g \in Seq(Feature)
  OBVIOUS
<1>2. Ids(f \o g) \subseteq Ids(f) \cup Ids(g)
  BY DEF Ids
<1>3. Ids(f) \subseteq Ids(f \o g)
  BY DEF Ids
<1>4. ASSUME NEW j \in DOMAIN g PROVE g[j].table_id \in Ids(f \o g)
  <2>1. Len(f) + j \in DOMAIN (f \o g) /\ (f \o g)[Len(f) + j] = g[j]
    OBVIOUS
  <2>2. QED
    BY <2>1 DEF Ids
<1>5. QED
  BY <1>1, <1>2, <1>3, <1>4 DEF Ids

LEMMA IdsOfAppended ==
  ASSUME NEW s \in Seq(Piece), NEW piece \in Piece
  PROVE  Append(s, piece) \in Seq(Piece) /\ IdsOf(Append(s, piece)) = IdsOf(s) \cup Ids(piece.features)
<1>1. Append(s, piece) \in Seq(Piece) /\ DOMAIN Append(s, piece) = DOMAIN s \cup {Len(s) + 1}
  OBVIOUS
<1>2. Append(s, piece)[Len(s) + 1] = piece /\ \A i \in DOMAIN s : Append(s, piece)[i] = s[i]
  OBVIOUS
<1>3. QED
  BY <1>1, <1>2 DEF IdsOf

\* The tables of a piece that is not refused exist.
LEMMA IdsOfPiece ==
  ASSUME NEW piece \in Pieces, ~IsBadTable(piece)
  PROVE  piece \in Piece /\ piece.features \in Seq(Feature) /\ Ids(piece.features) \subseteq Tables
<1>1. piece \in Piece /\ piece.features \in Seq(Feature)
  BY RequestsAssumption DEF Piece
<1>2. ASSUME NEW i \in DOMAIN piece.features PROVE piece.features[i].table_id \in Nat
  <2>1. piece.features[i] \in Feature
    BY <1>1
  <2>2. QED
    BY <2>1 DEF Feature
<1>3. QED
  BY <1>1, <1>2, TablesAssumption DEF IsBadTable, Ids, Tables

LEMMA TableFeaturesPending ==
  ASSUME PendingAgrees, NEW r, NEW piece \in Pieces, TableFeatures(r, piece)
  PROVE  PendingAgrees'
<1>0. r \in remotes /\ remotes' = remotes /\ ~IsBadTable(piece)
  BY DEF TableFeatures, roles, remotes
<1>1. CASE Complete(r, Merged(r, piece))
  <2>1. mp_req' = [mp_req EXCEPT ![r] = NoRequest] /\ pieces' = [pieces EXCEPT ![r] = <<>>]
    BY <1>1 DEF Complete, PendingAfter
  <2>2. /\ NoRequest.features = <<>> /\ <<>> \in Seq(Feature) /\ <<>> \in Seq(Piece)
        /\ Ids(<<>>) = {} /\ IdsOf(<<>>) = {}
    BY DEF NoRequest, Ids, IdsOf
  <2>3. QED
    BY <1>0, <2>1, <2>2 DEF PendingAgrees
<1>2. CASE /\ mp_req' = [mp_req EXCEPT ![r] = [xid |-> piece.xid, features |-> Merged(r, piece)]]
           /\ pieces' = [pieces EXCEPT ![r] = Append(@, piece)]
  <2>1. /\ mp_req'[r].features = Merged(r, piece) /\ pieces'[r] = Append(pieces[r], piece)
        /\ DOMAIN mp_req' = remotes /\ DOMAIN pieces' = remotes
        /\ \A s \in remotes \ {r} : mp_req'[s] = mp_req[s] /\ pieces'[s] = pieces[s]
    BY <1>0, <1>2 DEF PendingAgrees
  <2>2. /\ Merged(r, piece) \in Seq(Feature)
        /\ Ids(Merged(r, piece)) = Ids(mp_req[r].features) \cup Ids(piece.features)
    BY <1>0, IdsOfMerged, IdsOfPiece DEF Merged, PendingAgrees
  <2>3. /\ Append(pieces[r], piece) \in Seq(Piece)
        /\ IdsOf(Append(pieces[r], piece)) = IdsOf(pieces[r]) \cup Ids(piece.features)
    BY <1>0, IdsOfAppended, IdsOfPiece DEF PendingAgrees
  <2>4. Ids(piece.features) \subseteq Tables
    BY <1>0, IdsOfPiece
  <2>5. QED
    BY <1>0, <2>1, <2>2, <2>3, <2>4 DEF PendingAgrees
<1>3. QED
  BY <1>1, <1>2 DEF TableFeatures

LEMMA ConnectPending ==
  ASSUME PendingAgrees, NEW r, Connect(r) \/ Disconnect(r)
  PROVE  PendingAgrees'
<1>1. CASE Connect(r)
  <2>1. /\ DOMAIN mp_req' = remotes \cup {r} /\ DOMAIN pieces' = remotes \cup {r}
        /\ \A s \in remotes : mp_req'[s] = mp_req[s] /\ pieces'[s] = pieces[s]
        /\ mp_req'[r] = NoRequest /\ pieces'[r] = <<>>
        /\ remotes' = remotes \cup {r}
    BY <1>1 DEF Connect, With, PendingAgrees, remotes
  <2>2. /\ NoRequest.features = <<>> /\ <<>> \in Seq(Feature) /\ <<>> \in Seq(Piece)
        /\ Ids(<<>>) = {} /\ IdsOf(<<>>) = {}
    BY DEF NoRequest, Ids, IdsOf
  <2>3. QED
    BY <2>1, <2>2 DEF PendingAgrees
<1>2. CASE Disconnect(r)
  <2>1. /\ DOMAIN mp_req' = remotes \ {r} /\ DOMAIN pieces' = remotes \ {r} /\ remotes' = remotes \ {r}
        /\ \A s \in remotes \ {r} : mp_req'[s] = mp_req[s] /\ pieces'[s] = pieces[s]
    BY <1>2 DEF Disconnect, Minus, PendingAgrees, remotes
  <2>2. QED
    BY <2>1 DEF PendingAgrees
<1>3. QED
  BY <1>1, <1>2

LEMMA InitPending == Init => PendingAgrees
  BY DEF Init, PendingAgrees, remotes

LEMMA NextPending == PendingAgrees /\ [Next]_vars => PendingAgrees'
<1> SUFFICES ASSUME PendingAgrees, [Next]_vars PROVE PendingAgrees'
  OBVIOUS
<1>1. CASE UNCHANGED <<role, requests>>
  BY <1>1 DEF requests, PendingAgrees, remotes
<1>2. ASSUME NEW r \in Controllers, Connect(r) \/ Disconnect(r) PROVE PendingAgrees'
  BY <1>2, ConnectPending
<1>3. ASSUME NEW r \in Controllers, NEW generation \in Generations, RoleRequest(r, generation)
      PROVE  PendingAgrees'
  <2>1. UNCHANGED requests
    BY <1>3 DEF RoleRequest
  <2>2. remotes' = remotes
    BY <1>3 DEF RoleRequest, RoleNoChange, RoleEqual, RoleMaster, RoleSlave, RoleAfter, Demoted, roles, remotes
  <2>3. QED
    BY <2>1, <2>2 DEF requests, PendingAgrees
<1>4. ASSUME NEW r \in Controllers, NEW masks \in AsyncConfigs, SetAsync(r, masks)
      PROVE  UNCHANGED <<role, requests>>
  BY <1>4 DEF SetAsync, roles
<1>5. ASSUME NEW r \in Controllers, NEW p \in Ports, NEW down \in BOOLEAN, PortMod(r, p, down)
      PROVE  UNCHANGED <<role, requests>>
  BY <1>5 DEF PortMod, roles
<1>6. ASSUME NEW r \in Controllers, NEW piece \in Pieces, TableFeatures(r, piece) PROVE PendingAgrees'
  BY <1>6, TableFeaturesPending
<1>7. ASSUME NEW p \in Ports, LinkChange(p) PROVE UNCHANGED <<role, requests>>
  BY <1>7 DEF LinkChange, roles
<1>8. CASE UNCHANGED vars
  BY <1>1, <1>8 DEF vars, requests
<1>9. QED
  BY <1>1, <1>2, <1>3, <1>4, <1>5, <1>6, <1>7, <1>8 DEF Next

\* Applying features enables the tables they list and disables the others.
LEMMA AppliedEnables ==
  ASSUME NEW f \in Seq(Feature), Ids(f) \subseteq Tables, tables' = Applied(f)
  PROVE  {t \in Tables : ~tables'[t].disabled} = Ids(f)
<1>1. ASSUME NEW t \in Tables PROVE ~tables'[t].disabled <=> Listed(f, t) # {}
  <2>1. CASE Listed(f, t) = {}
    BY <2>1 DEF Applied
  <2>2. CASE Listed(f, t) # {}
    BY <2>2 DEF Applied
  <2>3. QED
    BY <2>1, <2>2
<1>2. \A t \in Tables : Listed(f, t) # {} <=> t \in Ids(f)
  BY DEF Listed, Ids
<1>3. QED
  BY <1>1, <1>2

\* A table-features request takes effect with all the pieces that its controller
\* sent for it, whatever other controllers and messages came in between.
THEOREM RequestsApplyWholeHolds == Spec => RequestsApplyWhole
<1>1. ASSUME PendingAgrees, tables' # tables,
             NEW r \in remotes, NEW piece \in Pieces, TableFeatures(r, piece)
      PROVE  {t \in Tables : ~tables'[t].disabled} =
               UNION {{p.features[i].table_id : i \in DOMAIN p.features} :
                        p \in ToSet(pieces[r]) \cup {piece}}
  <2>1. ~IsBadTable(piece) /\ tables' = Applied(Merged(r, piece))
    BY <1>1 DEF TableFeatures, Complete
  <2>2. /\ Merged(r, piece) \in Seq(Feature)
        /\ Ids(Merged(r, piece)) = IdsOf(pieces[r]) \cup Ids(piece.features)
        /\ Ids(Merged(r, piece)) \subseteq Tables
    BY <1>1, <2>1, IdsOfMerged, IdsOfPiece DEF Merged, PendingAgrees
  <2>3. {t \in Tables : ~tables'[t].disabled} = IdsOf(pieces[r]) \cup Ids(piece.features)
    BY <2>1, <2>2, AppliedEnables
  <2>4. IdsOf(pieces[r]) = UNION {Ids(p.features) : p \in ToSet(pieces[r])}
    BY DEF IdsOf, ToSet
  <2>5. QED
    BY <2>3, <2>4 DEF Ids
<1>2. PendingAgrees /\ [Next]_vars =>
        [tables' # tables =>
           \A r \in remotes, piece \in Pieces : TableFeatures(r, piece) =>
             {t \in Tables : ~tables'[t].disabled} =
               UNION {{p.features[i].table_id : i \in DOMAIN p.features} :
                        p \in ToSet(pieces[r]) \cup {piece}}]_vars
  BY <1>1
<1>3. QED
  BY <1>2, InitPending, NextPending, PTL DEF Spec, RequestsApplyWhole

-----------------------------------------------------------------------------
(* The generation ids                                                         *)

\* How far a generation is ahead of another, without the remainder.
LEMMA AheadIs ==
  ASSUME NEW new \in Generations, NEW old \in Generations
  PROVE  Ahead(new, old) = IF new >= old THEN new - old ELSE new - old + Modulus
<1>1. Modulus \in Nat /\ Modulus > 1 /\ new \in Int /\ old \in Int /\ new - old < Modulus /\ old - new < Modulus
  BY GenerationsAssumption DEF Generations
<1>2. CASE new >= old BY <1>1, <1>2 DEF Ahead
<1>3. CASE new < old
  <2>1. (new - old) % Modulus = (new - old + Modulus) % Modulus BY <1>1
  <2>2. QED BY <1>1, <1>3, <2>1 DEF Ahead
<1>4. QED BY <1>1, <1>2, <1>3

\* How far the generation ids went since the switch started.
Advance(generation) == Ahead(generation, Modulus - 1)

\* While they went less than half of their range, a request that is not stale is
\* at least as far, and what is as far is ahead.
LEMMA AdvanceOrders ==
  ASSUME 2 * MaxAdvance < Modulus, NEW new \in Generations, NEW old \in Generations,
         Advance(new) <= MaxAdvance, Advance(old) <= MaxAdvance
  PROVE  2 * Ahead(new, old) < Modulus <=> Advance(old) <= Advance(new)
<1>1. /\ Modulus \in Nat /\ Modulus > 1 /\ MaxAdvance \in Nat
      /\ new \in 0..(Modulus - 1) /\ old \in 0..(Modulus - 1) /\ Modulus - 1 \in Generations
  BY GenerationsAssumption DEF Generations
<1>2. \A g \in Generations : Advance(g) = IF g = Modulus - 1 THEN 0 ELSE g + 1
  BY <1>1, AheadIs DEF Advance, Generations
<1>3. Ahead(new, old) = IF new >= old THEN new - old ELSE new - old + Modulus BY AheadIs
<1>4. QED BY <1>1, <1>2, <1>3

\* No grant is newer than the generation of the switch, and none is newer than
\* that of the master.
GrantsAgree ==
  /\ generation_id \in Generations /\ Advance(generation_id) <= MaxAdvance
  /\ granted \in [remotes -> Generations \cup {NoGeneration}]
  /\ \A s \in remotes : granted[s] # NoGeneration => Advance(granted[s]) <= Advance(generation_id)
  /\ \A r, s \in remotes :
       role[r] = MASTER =>
         /\ granted[r] # NoGeneration
         /\ granted[s] # NoGeneration => Advance(granted[s]) <= Advance(granted[r])

LEMMA NoGenerationIsNone == NoGeneration \notin Generations
  BY GenerationsAssumption DEF NoGeneration, Generations

LEMMA InitGrants == Init => GrantsAgree
<1> SUFFICES ASSUME Init PROVE GrantsAgree
  OBVIOUS
<1>1. generation_id \in Generations
  BY GenerationsAssumption DEF Init, Generations
<1>2. Advance(generation_id) = 0
  BY <1>1, AheadIs, GenerationsAssumption DEF Init, Advance, Generations
<1>3. DOMAIN role = {} /\ DOMAIN granted = {} /\ granted \in [{} -> Generations \cup {NoGeneration}]
  BY DEF Init
<1>4. QED
  BY <1>1, <1>2, <1>3, GenerationsAssumption DEF GrantsAgree, remotes

LEMMA ConnectGrants ==
  ASSUME GrantsAgree, NEW r, Connect(r) \/ Disconnect(r)
  PROVE  GrantsAgree'
<1>0. UNCHANGED generation_id /\ DOMAIN granted = remotes
  BY DEF Connect, Disconnect, GrantsAgree
<1>1. CASE Connect(r)
  <2>1. /\ remotes' = remotes \cup {r} /\ role'[r] = EQUAL
        /\ \A s \in remotes : role'[s] = role[s]
    BY <1>1 DEF Connect, With, remotes
  <2>2. /\ DOMAIN granted' = remotes \cup {r} /\ granted'[r] = NoGeneration
        /\ \A s \in remotes : granted'[s] = granted[s]
        /\ granted' = With(granted, r, NoGeneration)
    BY <1>0, <1>1 DEF Connect, With
  <2>3. granted' \in [remotes' -> Generations \cup {NoGeneration}]
    BY <1>0, <2>1, <2>2 DEF GrantsAgree, With
  <2>4. QED
    BY <1>0, <2>1, <2>2, <2>3, RolesDiffer DEF GrantsAgree, Advance
<1>2. CASE Disconnect(r)
  BY <1>0, <1>2 DEF Disconnect, Minus, GrantsAgree, remotes, Advance
<1>3. QED
  BY <1>1, <1>2

\* A remote is told of a role: as no master, or as the master with the newest grant.
LEMMA ReplyGrants ==
  ASSUME GrantsAgree, NEW r \in remotes, NEW g \in Generations, NEW new_role,
         Reply(r, new_role, g), remotes' = remotes,
         generation_id' \in Generations, Advance(generation_id') <= MaxAdvance,
         Advance(generation_id) <= Advance(generation_id'),
         new_role = MASTER => Advance(g) = Advance(generation_id'),
         \A s \in remotes : role'[s] = MASTER => IF s = r THEN new_role = MASTER
                                                 ELSE new_role # MASTER /\ role[s] = MASTER
  PROVE  GrantsAgree'
<1>1. granted' = [granted EXCEPT ![r] = IF new_role = MASTER THEN g ELSE NoGeneration]
  BY DEF Reply
<1>2. /\ granted'[r] = IF new_role = MASTER THEN g ELSE NoGeneration
      /\ \A s \in remotes \ {r} : granted'[s] = granted[s]
      /\ granted' \in [remotes -> Generations \cup {NoGeneration}]
  BY <1>1 DEF GrantsAgree
<1>3. \A s \in remotes : granted[s] # NoGeneration => Advance(granted[s]) <= Advance(generation_id')
  <2>1. \A x \in Generations : Advance(x) \in Int
    BY AheadIs, GenerationsAssumption DEF Advance, Generations
  <2>2. QED
    BY <2>1 DEF GrantsAgree
<1>4. \A s \in remotes : granted'[s] # NoGeneration => Advance(granted'[s]) <= Advance(generation_id')
  <2>1. Advance(generation_id') \in Int
    BY AheadIs, GenerationsAssumption DEF Advance, Generations
  <2>2. QED
    BY <1>2, <1>3, <2>1
<1>5. ASSUME NEW m \in remotes, NEW s \in remotes, role'[m] = MASTER
      PROVE  /\ granted'[m] # NoGeneration
             /\ granted'[s] # NoGeneration => Advance(granted'[s]) <= Advance(granted'[m])
  <2>1. CASE m = r
    <3>1. new_role = MASTER /\ granted'[r] = g /\ g # NoGeneration
      BY <1>2, <1>5, <2>1, NoGenerationIsNone
    <3>2. QED
      BY <1>4, <2>1, <3>1
  <2>2. CASE m # r
    <3>1. new_role # MASTER /\ role[m] = MASTER
      BY <1>5, <2>2
    <3>2. granted'[r] = NoGeneration /\ granted'[m] = granted[m]
      BY <1>2, <2>2, <3>1
    <3>3. QED
      BY <1>2, <3>1, <3>2 DEF GrantsAgree
  <2>3. QED
    BY <2>1, <2>2
<1>6. QED
  BY <1>2, <1>4, <1>5 DEF GrantsAgree, Advance

LEMMA RoleRequestGrants ==
  ASSUME 2 * MaxAdvance < Modulus, RolesAgree, GrantsAgree,
         NEW r, NEW generation \in Generations, RoleRequest(r, generation)
  PROVE  GrantsAgree'
<1>0. /\ r \in remotes /\ DOMAIN role = remotes
      /\ generation_id \in Generations /\ Advance(generation_id) <= MaxAdvance
      /\ IsStale(generation) \/ Advance(generation) <= MaxAdvance
  BY DEF RoleRequest, GrantsAgree, remotes, Advance
<1>1. Advance(generation_id) <= Advance(generation_id)
  BY <1>0, AheadIs, GenerationsAssumption DEF Advance, Generations
<1>2. ~IsStale(generation) => Advance(generation_id) <= Advance(generation)
  <2>1. Ahead(generation, generation_id) \in Int
    BY <1>0, AheadIs, GenerationsAssumption DEF Generations
  <2>2. ~IsStale(generation) => 2 * Ahead(generation, generation_id) < Modulus
    BY <2>1, GenerationsAssumption DEF IsStale
  <2>3. QED
    BY <1>0, <2>2, AdvanceOrders
<1>3. CASE RoleNoChange(r)
  <2>1. Reply(r, role[r], generation_id) /\ role' = role /\ generation_id' = generation_id
    BY <1>3 DEF RoleNoChange
  <2>2. \A s \in remotes : role[s] = MASTER /\ s # r => role[r] # MASTER
    BY <1>0 DEF RolesAgree, AtMostOneMaster
  <2>3. remotes' = remotes BY <2>1 DEF remotes
  <2>4. QED
    BY <1>0, <1>1, <2>1, <2>2, <2>3, ReplyGrants
<1>4. CASE RoleEqual(r, generation)
  <2>1. /\ Reply(r, EQUAL, generation) /\ role' = [role EXCEPT ![r] = EQUAL]
        /\ generation_id' = generation_id
    BY <1>4 DEF RoleEqual
  <2>2. remotes' = remotes /\ \A s \in remotes : role'[s] = IF s = r THEN EQUAL ELSE role[s]
    BY <1>0, <2>1 DEF remotes
  <2>3. QED
    BY <1>0, <1>1, <2>1, <2>2, RolesDiffer, ReplyGrants
<1>5. CASE RoleMaster(r, generation)
  <2>1. CASE IsStale(generation)
    BY <1>5, <2>1 DEF RoleMaster, roles, GrantsAgree, remotes, Advance
  <2>2. CASE ~IsStale(generation)
    <3>1. /\ Reply(r, MASTER, generation) /\ role' = Demoted(r, generation)
          /\ generation_id' = generation
      BY <1>5, <2>2 DEF RoleMaster
    <3>2. remotes' = remotes /\ \A s \in remotes : role'[s] = MASTER => s = r
      BY <3>1, RolesDiffer DEF Demoted, remotes
    <3>3. QED
      BY <1>0, <1>2, <2>2, <3>1, <3>2, ReplyGrants
  <2>3. QED
    BY <2>1, <2>2
<1>6. CASE RoleSlave(r, generation)
  <2>1. CASE IsStale(generation)
    BY <1>6, <2>1 DEF RoleSlave, RoleAfter, GrantsAgree, remotes, Advance
  <2>2. CASE ~IsStale(generation)
    <3>1. /\ Reply(r, SLAVE, generation) /\ role' = [role EXCEPT ![r] = SLAVE]
          /\ generation_id' = generation
      BY <1>6, <2>2 DEF RoleSlave, RoleAfter
    <3>2. remotes' = remotes /\ \A s \in remotes : role'[s] = IF s = r THEN SLAVE ELSE role[s]
      BY <1>0, <3>1 DEF remotes
    <3>3. QED
      BY <1>0, <1>2, <2>2, <3>1, <3>2, RolesDiffer, ReplyGrants
  <2>3. QED
    BY <2>1, <2>2
<1>7. QED
  BY <1>3, <1>4, <1>5, <1>6 DEF RoleRequest

LEMMA NextGrants ==
  ASSUME 2 * MaxAdvance < Modulus
  PROVE  RolesAgree /\ GrantsAgree /\ [Next]_vars => GrantsAgree'
<1> SUFFICES ASSUME RolesAgree, GrantsAgree, [Next]_vars PROVE GrantsAgree'
  OBVIOUS
<1>1. CASE UNCHANGED <<roles, generation_id>>
  BY <1>1 DEF roles, GrantsAgree, remotes, Advance
<1>2. ASSUME NEW r \in Controllers, Connect(r) \/ Disconnect(r) PROVE GrantsAgree'
  BY <1>2, ConnectGrants
<1>3. ASSUME NEW r \in Controllers, NEW generation \in Generations, RoleRequest(r, generation)
      PROVE  GrantsAgree'
  BY <1>3, RoleRequestGrants
<1>4. ASSUME NEW r \in Controllers, NEW masks \in AsyncConfigs, SetAsync(r, masks)
      PROVE  UNCHANGED <<roles, generation_id>>
  BY <1>4 DEF SetAsync
<1>5. ASSUME NEW r \in Controllers, NEW p \in Ports, NEW down \in BOOLEAN, PortMod(r, p, down)
      PROVE  UNCHANGED <<roles, generation_id>>
  BY <1>5 DEF PortMod
<1>6. ASSUME NEW r \in Controllers, NEW piece \in Pieces, TableFeatures(r, piece)
      PROVE  UNCHANGED <<roles, generation_id>>
  BY <1>6 DEF TableFeatures
<1>7. ASSUME NEW p \in Ports, LinkChange(p) PROVE UNCHANGED <<roles, generation_id>>
  BY <1>7 DEF LinkChange
<1>8. CASE UNCHANGED vars
  BY <1>1, <1>8 DEF vars, roles
<1>9. QED
  BY <1>1, <1>2, <1>3, <1>4, <1>5, <1>6, <1>7, <1>8 DEF Next

\* Who was demoted without being told was not granted the mastership later than
\* the master, as long as the generation ids have gone less than half way round.
THEOREM NewestHolds ==
  ASSUME 2 * MaxAdvance < Modulus
  PROVE  Spec => []NewestIsMaster
<1>1. GrantsAgree => NewestIsMaster
  <2> SUFFICES ASSUME GrantsAgree, NEW r \in remotes, NEW s \in remotes,
                      role[r] = MASTER, granted[s] # NoGeneration
               PROVE  2 * Ahead(granted[r], granted[s]) < Modulus
    BY DEF NewestIsMaster
  <2>1. /\ granted[r] \in Generations /\ granted[s] \in Generations
        /\ Advance(granted[s]) <= Advance(granted[r])
        /\ Advance(granted[r]) <= Advance(generation_id) /\ Advance(generation_id) <= MaxAdvance
        /\ generation_id \in Generations
    BY DEF GrantsAgree
  <2>2. \A x \in Generations : Advance(x) \in Int
    BY AheadIs, GenerationsAssumption DEF Advance, Generations
  <2>3. Advance(granted[r]) <= MaxAdvance /\ Advance(granted[s]) <= MaxAdvance
    BY <2>1, <2>2, GenerationsAssumption
  <2>4. QED
    BY <2>1, <2>3, AdvanceOrders
<1>2. RolesAgree /\ GrantsAgree /\ [Next]_vars => GrantsAgree'
  BY NextGrants
<1>3. QED
  BY <1>1, <1>2, InitGrants, RolesHold, PTL DEF Spec

-----------------------------------------------------------------------------
(* The replies to a query of the tables *)

TablesReply == [tables : Seq(Tables), more : BOOLEAN]

\* The tables of the first reply from table t on, and where the next one begins.
IsFull(t) == Cardinality(Enabled(t)) >= TablesPerReply
Taken(t) == IF IsFull(t) THEN TablesPerReply ELSE Cardinality(Enabled(t))
NextFrom(t) == IF IsFull(t) THEN Nth(Enabled(t), TablesPerReply) + 1 ELSE NumTables
FirstReply(t) == [tables |-> [n \in 1..Taken(t) |-> Nth(Enabled(t), n)], more |-> More(NextFrom(t), IsFull(t))]

\* There are finitely many tables.
LEMMA EnabledFinite ==
  ASSUME NEW t
  PROVE  /\ Enabled(t) \in SUBSET Nat /\ Enabled(t) \in SUBSET Tables /\ IsFiniteSet(Enabled(t))
         /\ Cardinality(Enabled(t)) \in Nat
<1>1. NumTables \in Nat /\ 0 \in Int /\ NumTables - 1 \in Int BY TablesAssumption
<1>2. IsFiniteSet(Tables) BY <1>1, FS_Interval DEF Tables
<1>3. Enabled(t) \in SUBSET Tables BY DEF Enabled
<1>4. IsFiniteSet(Enabled(t)) BY <1>2, <1>3, FS_Subset
<1>5. Tables \in SUBSET Nat BY <1>1 DEF Tables
<1>6. QED BY <1>3, <1>4, <1>5, FS_CardinalityType

\* A reply takes the first of them, and the next begins behind.
LEMMA ReplyTakes ==
  ASSUME NEW t \in 0..NumTables
  PROVE  /\ NextFrom(t) \in 0..NumTables /\ (NextFrom(t) = NumTables \/ NextFrom(t) > t)
         /\ Taken(t) \in Nat
         /\ FirstReply(t) \in TablesReply
         /\ Len(FirstReply(t).tables) = Taken(t)
         /\ \A n \in 1..Taken(t) : Nth(Enabled(t), n) \in Enabled(t) /\ Nth(Enabled(t), n) < NextFrom(t)
         /\ \A m, n \in 1..Taken(t) : m < n => Nth(Enabled(t), m) < Nth(Enabled(t), n)
         /\ {Nth(Enabled(t), n) : n \in 1..Taken(t)} \cup Enabled(NextFrom(t)) = Enabled(t)
<1> DEFINE E == Enabled(t)
           c == Cardinality(E)
           k == Taken(t)
           x == NextFrom(t)
           nth(n) == Nth(E, n)
<1>1. E \in SUBSET Nat /\ E \in SUBSET Tables /\ IsFiniteSet(E) /\ c \in Nat BY EnabledFinite
<1>2. NumTables \in Nat /\ TablesPerReply \in Nat /\ TablesPerReply > 0 BY TablesAssumption
<1>3. \A n \in 1..c : nth(n) \in E BY <1>1, NthExists
<1>4. \A m, n \in 1..c : m < n => nth(m) < nth(n) BY <1>1, NthMonotonic
<1>5. \A v \in E : \E n \in 1..c : nth(n) = v BY <1>1, NthOnto
<1>6. \A v \in E : v \in Nat /\ v < NumTables /\ v >= t BY <1>1, <1>2 DEF Tables, Enabled
<1>7. \A v : v \in E <=> v \in Tables /\ v >= t /\ ~tables[v].disabled BY DEF Enabled
<1>8. IsFull(t) <=> c >= TablesPerReply BY DEF IsFull
<1>9. k = (IF IsFull(t) THEN TablesPerReply ELSE c) /\ x = (IF IsFull(t) THEN nth(TablesPerReply) + 1 ELSE NumTables)
  BY DEF Taken, NextFrom
<1>22. \A v : v \in Enabled(x) <=> v \in Tables /\ v >= x /\ ~tables[v].disabled BY DEF Enabled
<1>23. FirstReply(t) = [tables |-> [n \in 1..k |-> nth(n)], more |-> More(x, IsFull(t))] BY DEF FirstReply
<1> HIDE DEF E, c, k, x, nth
<1>10. k \in Nat /\ k \in 0..c /\ 1..k \in SUBSET (1..c) BY <1>1, <1>2, <1>8, <1>9
<1>11. IsFull(t) => k \in 1..c /\ x = nth(k) + 1 /\ nth(k) \in E BY <1>1, <1>2, <1>3, <1>8, <1>9
<1>12. x \in 0..NumTables /\ (x = NumTables \/ x > t)
  <2>1. CASE IsFull(t)
    <3>1. nth(k) \in Nat /\ nth(k) < NumTables /\ nth(k) >= t /\ x = nth(k) + 1 BY <2>1, <1>6, <1>11
    <3>2. QED BY <3>1, <1>2
  <2>2. CASE ~IsFull(t) BY <2>2, <1>2, <1>9
  <2>3. QED BY <2>1, <2>2
<1>13. ASSUME NEW n \in 1..k PROVE nth(n) \in E /\ nth(n) < x
  <2>1. n \in 1..c /\ nth(n) \in E BY <1>3, <1>10
  <2>2. nth(n) \in Nat /\ nth(n) < NumTables BY <1>6, <2>1
  <2>3. CASE IsFull(t)
    <3>1. n = k \/ n < k BY <1>10
    <3>2. n = k \/ nth(n) < nth(k) BY <1>4, <1>11, <2>1, <2>3, <3>1
    <3>3. nth(k) \in Nat BY <1>6, <1>11, <2>3
    <3>4. nth(n) < nth(k) + 1 BY <2>2, <3>2, <3>3
    <3>5. QED BY <1>11, <2>1, <2>3, <3>4
  <2>4. CASE ~IsFull(t) BY <1>9, <2>1, <2>2, <2>4
  <2>5. QED BY <2>3, <2>4
<1>14. \A m, n \in 1..k : m < n => nth(m) < nth(n) BY <1>4, <1>10
<1>15. {nth(n) : n \in 1..k} \cup Enabled(x) = E
  <2>1. ASSUME NEW v \in E PROVE v \in {nth(n) : n \in 1..k} \cup Enabled(x)
    <3>1. PICK n \in 1..c : nth(n) = v BY <1>5
    <3>2. CASE n <= k
      <4>1. n \in 1..k BY <1>10, <3>2
      <4>2. QED BY <3>1, <4>1
    <3>3. CASE n > k
      <4>1. IsFull(t) BY <1>1, <1>9, <3>3
      <4>2. nth(k) < v /\ x = nth(k) + 1 /\ nth(k) \in Nat BY <1>4, <1>6, <1>11, <3>1, <3>3, <4>1
      <4>3. v >= x BY <4>2, <1>6
      <4>4. QED BY <1>7, <1>22, <4>3
    <3>4. QED BY <3>2, <3>3, <1>10
  <2>2. ASSUME NEW v \in Enabled(x) PROVE v \in E
    <3>1. v \in Tables /\ v >= x /\ ~tables[v].disabled BY <1>22
    <3>2. v \in Nat /\ v < NumTables BY <1>2, <3>1 DEF Tables
    <3>3. v >= t BY <1>2, <1>12, <3>1, <3>2
    <3>4. QED BY <1>7, <3>1, <3>3
  <2>3. QED BY <1>13, <2>1, <2>2
<1>16. FirstReply(t) \in TablesReply /\ Len(FirstReply(t).tables) = k
  <2> DEFINE q == [n \in 1..k |-> nth(n)]
  <2>1. \A n \in 1..k : nth(n) \in Tables BY <1>1, <1>13
  <2>2. q \in Seq(Tables) /\ Len(q) = k BY <1>10, <2>1
  <2>3. More(x, IsFull(t)) \in BOOLEAN BY DEF More
  <2>4. FirstReply(t) = [tables |-> q, more |-> More(x, IsFull(t))] BY <1>23
  <2> HIDE DEF q
  <2>5. FirstReply(t).tables = q BY <2>4
  <2>6. FirstReply(t) \in TablesReply BY <2>2, <2>3, <2>4 DEF TablesReply
  <2>7. QED BY <2>2, <2>5, <2>6
<1>17. QED BY <1>10, <1>12, <1>13, <1>14, <1>15, <1>16 DEF E, k, x, nth

\* The recursion is one: the replies are the first one and those that follow it.
LEMMA RepliesAre ==
  ASSUME NEW t \in 0..NumTables
  PROVE  RepliesFrom[t] = <<FirstReply(t)>> \o
                           (IF NextFrom(t) = NumTables THEN <<>> ELSE RepliesFrom[NextFrom(t)])
<1> DEFINE N == NumTables
           s == [v \in 0..N |-> <<FirstReply(v)>>]
           next == [v \in 0..N |-> NextFrom(v)]
           body(f) == [v \in 0..N |-> <<FirstReply(v)>> \o (IF NextFrom(v) = N THEN <<>> ELSE f[NextFrom(v)])]
<1>1. N \in Nat BY TablesAssumption
<1>2. s \in [0..N -> Seq(TablesReply)]
  <2>1. \A v \in 0..N : FirstReply(v) \in TablesReply BY ReplyTakes
  <2>2. QED BY <2>1
<1>3. MovesUp(N, next)
  <2>1. \A v \in 0..N : NextFrom(v) \in 0..N /\ (NextFrom(v) = N \/ NextFrom(v) > v) BY ReplyTakes
  <2>2. QED BY <2>1 DEF MovesUp
<1>4. PICK f : Chain(N, TablesReply, s, next, f)
  <2> HIDE DEF s, next, N
  <2>1. QED BY <1>1, <1>2, <1>3, ChainExists
<1>5. f = body(f)
  <2>1. /\ f \in [0..N -> Seq(TablesReply)]
        /\ \A v \in 0..N : f[v] = s[v] \o (IF next[v] = N THEN <<>> ELSE f[next[v]])
    BY <1>4 DEF Chain
  <2>2. \A v \in 0..N : s[v] = <<FirstReply(v)>> /\ next[v] = NextFrom(v) OBVIOUS
  <2> HIDE DEF s, next, N
  <2>3. QED BY <2>1, <2>2
<1>6. RepliesFrom = CHOOSE g : g = body(g) BY DEF RepliesFrom, FirstReply, NextFrom, Taken, IsFull
<1> HIDE DEF body
<1>7. RepliesFrom = body(RepliesFrom) BY <1>5, <1>6
<1>8. QED BY <1>7 DEF body

\* A first reply before replies that are whole from the table it ends at.
LEMMA RepliesWhole ==
  ASSUME NEW t \in 0..NumTables, NEW r,
         NextFrom(t) # NumTables => r \in Seq(TablesReply) /\ r # <<>> /\ AreWhole(r, NextFrom(t)),
         NextFrom(t) = NumTables => r = <<>>
  PROVE  LET q == <<FirstReply(t)>> \o r IN q \in Seq(TablesReply) /\ q # <<>> /\ AreWhole(q, t)
<1> DEFINE a == FirstReply(t)
           k == Taken(t)
           x == NextFrom(t)
           nth(n) == Nth(Enabled(t), n)
           q == <<a>> \o r
<1>1. /\ x \in 0..NumTables
      /\ k \in Nat
      /\ a \in TablesReply /\ Len(a.tables) = k
      /\ \A n \in 1..k : nth(n) \in Enabled(t) /\ nth(n) < x
      /\ \A m, n \in 1..k : m < n => nth(m) < nth(n)
      /\ {nth(n) : n \in 1..k} \cup Enabled(x) = Enabled(t)
  BY ReplyTakes
<1>2. \A n \in 1..k : a.tables[n] = nth(n) BY DEF FirstReply
<1>3. a.more <=> x # NumTables BY DEF FirstReply, More
<1>4. NumTables \in Nat BY TablesAssumption
<1>5. Enabled(NumTables) = {} BY <1>4 DEF Enabled, Tables
<1>6. Enabled(t) \in SUBSET Nat /\ Enabled(x) \in SUBSET Nat BY EnabledFinite
<1> HIDE DEF a, k, x, nth
<1>7. r \in Seq(TablesReply)
  <2>1. <<>> \in Seq(TablesReply) OBVIOUS
  <2>2. NextFrom(t) # NumTables \/ r = <<>> OBVIOUS
  <2>3. QED BY <2>1, <2>2
<1>8. q \in Seq(TablesReply) /\ Len(q) = Len(r) + 1 /\ q[1] = a /\ \A i \in 1..Len(r) : q[i + 1] = r[i]
  BY <1>1, <1>7
<1>9. \A i \in 1..Len(q) : i = 1 \/ (i - 1 \in 1..Len(r) /\ q[i] = r[i - 1])
  <2>1. SUFFICES ASSUME NEW i \in 1..Len(q), i # 1 PROVE i - 1 \in 1..Len(r) /\ q[i] = r[i - 1] OBVIOUS
  <2>2. i - 1 \in 1..Len(r) /\ (i - 1) + 1 = i BY <1>7, <1>8, <2>1
  <2>3. QED BY <1>8, <2>2
<1> HIDE DEF q
<1>10. DOMAIN q = 1..Len(q) /\ DOMAIN r = 1..Len(r) /\ Len(r) \in Nat BY <1>7, <1>8
<1>11. DOMAIN a.tables = 1..k BY <1>1 DEF TablesReply
<1>12. ToSet(a.tables) = {nth(n) : n \in 1..k} BY <1>2, <1>11 DEF ToSet
\* The replies behind the first one list the tables from x on.
<1>13. /\ UNION {ToSet(r[i].tables) : i \in DOMAIN r} = Enabled(x)
       /\ \A i, j \in DOMAIN r :
            \A m \in DOMAIN r[i].tables, n \in DOMAIN r[j].tables :
              i < j \/ (i = j /\ m < n) => r[i].tables[m] < r[j].tables[n]
       /\ \A i \in DOMAIN r : r[i].more <=> i < Len(r)
       /\ x # NumTables <=> r # <<>>
  <2>1. CASE x = NumTables
    <3>1. r = <<>> BY <2>1 DEF x
    <3>2. DOMAIN r = {} BY <3>1
    <3>3. QED BY <1>5, <2>1, <3>1, <3>2
  <2>2. CASE x # NumTables
    <3>1. AreWhole(r, x) /\ r # <<>> BY <2>2 DEF x
    <3>2. QED BY <2>2, <3>1 DEF AreWhole
  <2>3. QED BY <2>1, <2>2
<1>14. UNION {ToSet(q[i].tables) : i \in DOMAIN q} = Enabled(t)
  <2>1. ASSUME NEW v \in Enabled(t) PROVE \E i \in DOMAIN q : v \in ToSet(q[i].tables)
    <3>1. CASE v \in {nth(n) : n \in 1..k}
      <4>1. 1 \in DOMAIN q BY <1>8, <1>10
      <4>2. QED BY <1>8, <1>12, <3>1, <4>1
    <3>2. CASE v \in Enabled(x)
      <4>1. PICK i \in DOMAIN r : v \in ToSet(r[i].tables) BY <1>13, <3>2
      <4>2. i + 1 \in DOMAIN q /\ q[i + 1] = r[i] BY <1>8, <1>10
      <4>3. QED BY <4>1, <4>2
    <3>3. QED BY <1>1, <3>1, <3>2
  <2>2. ASSUME NEW i \in DOMAIN q, NEW v \in ToSet(q[i].tables) PROVE v \in Enabled(t)
    <3>1. CASE i = 1 BY <1>1, <1>8, <1>12, <2>2, <3>1
    <3>2. CASE i # 1
      <4>1. i - 1 \in DOMAIN r /\ q[i] = r[i - 1] BY <1>9, <1>10, <3>2
      <4>2. v \in ToSet(r[i - 1].tables) BY <2>2, <4>1
      <4>3. v \in Enabled(x) BY <1>13, <4>1, <4>2
      <4>4. QED BY <1>1, <4>3
    <3>3. QED BY <3>1, <3>2
  <2>3. QED BY <2>1, <2>2
<1>15. ASSUME NEW i \in DOMAIN q, NEW j \in DOMAIN q,
              NEW m \in DOMAIN q[i].tables, NEW n \in DOMAIN q[j].tables, i < j \/ (i = j /\ m < n)
       PROVE  q[i].tables[m] < q[j].tables[n]
  <2>1. i \in Nat /\ j \in Nat BY <1>10
  <2>2. CASE i = 1 /\ j = 1
    <3>1. q[i] = a /\ q[j] = a BY <1>8, <2>2
    <3>2. m \in 1..k /\ n \in 1..k BY <1>11, <3>1
    <3>3. m < n BY <1>15, <2>2
    <3>4. nth(m) < nth(n) BY <1>1, <3>2, <3>3
    <3>5. QED BY <1>2, <3>1, <3>2, <3>4
  <2>3. CASE i = 1 /\ j # 1
    <3>1. m \in 1..k /\ q[i].tables[m] = nth(m) /\ nth(m) \in Enabled(t) /\ nth(m) < x
      BY <1>1, <1>2, <1>8, <1>11, <2>3
    <3>2. j - 1 \in DOMAIN r /\ q[j] = r[j - 1] BY <1>9, <1>10, <2>3
    <3>3. q[j].tables[n] \in ToSet(r[j - 1].tables) BY <3>2 DEF ToSet
    <3>4. q[j].tables[n] \in Enabled(x) BY <1>13, <3>2, <3>3
    <3>5. q[j].tables[n] \in Nat /\ q[j].tables[n] >= x BY <1>6, <3>4 DEF Enabled
    <3>6. nth(m) \in Nat /\ x \in Nat BY <1>1, <1>4, <1>6, <3>1
    <3>7. QED BY <3>1, <3>5, <3>6
  <2>4. CASE i # 1 /\ j = 1 BY <1>10, <1>15, <2>1, <2>4
  <2>5. CASE i # 1 /\ j # 1
    <3>1. i - 1 \in DOMAIN r /\ q[i] = r[i - 1] BY <1>9, <1>10, <2>5
    <3>2. j - 1 \in DOMAIN r /\ q[j] = r[j - 1] BY <1>9, <1>10, <2>5
    <3>3. i - 1 < j - 1 \/ (i - 1 = j - 1 /\ m < n) BY <1>15, <2>1
    <3>4. QED BY <1>13, <3>1, <3>2, <3>3
  <2>6. QED BY <2>2, <2>3, <2>4, <2>5
<1>16. ASSUME NEW i \in DOMAIN q PROVE q[i].more <=> i < Len(q)
  <2>1. CASE i = 1
    <3>1. q[i].more <=> r # <<>> BY <1>3, <1>8, <1>13, <2>1
    <3>2. r # <<>> <=> Len(r) > 0 BY <1>7
    <3>3. QED BY <1>8, <1>10, <2>1, <3>1, <3>2
  <2>2. CASE i # 1
    <3>1. i - 1 \in DOMAIN r /\ q[i] = r[i - 1] BY <1>9, <1>10, <2>2
    <3>2. r[i - 1].more <=> i - 1 < Len(r) BY <1>13, <3>1
    <3>3. i - 1 < Len(r) <=> i < Len(q) BY <1>8, <1>10
    <3>4. QED BY <3>1, <3>2, <3>3
  <2>3. QED BY <2>1, <2>2
<1>17. AreWhole(q, t) BY <1>14, <1>15, <1>16 DEF AreWhole
<1>18. q # <<>> BY <1>8, <1>10
<1>19. QED BY <1>8, <1>17, <1>18 DEF q, a

\* Hence the replies from every table are whole, beginning with the last one.
LEMMA AllReplies == RepliesAreWhole
<1> DEFINE Whole(t) == RepliesFrom[t] \in Seq(TablesReply) /\ RepliesFrom[t] # <<>> /\ AreWhole(RepliesFrom[t], t)
           K == {t \in 0..NumTables : Whole(t)}
<1>1. NumTables \in Nat BY TablesAssumption
<1>2. ASSUME NEW t \in 0..NumTables, \A v \in 0..NumTables : v > t => v \in K PROVE t \in K
  <2> DEFINE x == NextFrom(t)
             r == IF x = NumTables THEN <<>> ELSE RepliesFrom[x]
  <2>1. x \in 0..NumTables /\ (x = NumTables \/ x > t) BY ReplyTakes
  <2>2. x # NumTables => Whole(x) BY <1>2, <2>1
  <2>3. RepliesFrom[t] = <<FirstReply(t)>> \o r BY RepliesAre
  <2> HIDE DEF x
  <2>4. x # NumTables => r \in Seq(TablesReply) /\ r # <<>> /\ AreWhole(r, x) BY <2>2
  <2>5. x = NumTables => r = <<>> OBVIOUS
  <2> HIDE DEF r, Whole
  <2>6. LET q == <<FirstReply(t)>> \o r IN q \in Seq(TablesReply) /\ q # <<>> /\ AreWhole(q, t)
    BY <2>4, <2>5, RepliesWhole DEF x
  <2>7. Whole(t) BY <2>3, <2>6 DEF Whole
  <2>8. QED BY <2>7
<1> HIDE DEF K
<1>3. \A t \in 0..NumTables : t \in K BY <1>1, <1>2, Descend
<1>4. 0 \in K BY <1>1, <1>3
<1>5. QED BY <1>4 DEF K, RepliesAreWhole

\* The replies to a query of the tables list every enabled table once, in order,
\* and only the last one says that nothing follows.
THEOREM RepliesAreWholeHolds == Spec => []RepliesAreWhole
<1>1. RepliesAreWhole BY AllReplies
<1>2. QED BY <1>1, PTL

=============================================================================
