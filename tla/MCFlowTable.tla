---------------------------- MODULE MCFlowTable ----------------------------
(***************************************************************************)
(* Instances of FlowTable for TLC: two packets, tables of two or three     *)
(* entries and the flow-mods that make the entries compete: matches that   *)
(* include or overlap each other, three priorities, both timeouts and      *)
(* every command.  Below, the matches that ComparedMatches compares.          *)
(***************************************************************************)
EXTENDS ComparedMatches

CONSTANTS p, q, port1, port2, k1, k2

MCPackets == {p, q}
MCOutputs == {port1, port2}
MCCookieBits == {1}

Mod == [command |-> "ADD", match |-> MCPackets, priority |-> 0, idle |-> 0, hard |-> 0,
        cookie |-> {}, cookie_mask |-> {}, out |-> {}, insts |-> {port1},
        check_overlap |-> FALSE, send_removed |-> FALSE]

\* The table-miss entry every controller installs.
TableMiss == Mod

AddP == [Mod EXCEPT !.match = {p}, !.priority = 1, !.idle = 1, !.send_removed = TRUE]
AddPAgain == [AddP EXCEPT !.idle = 0, !.hard = 2, !.insts = {port2}, !.cookie = {1}]
AddQ == [Mod EXCEPT !.match = {q}, !.priority = 1, !.hard = 1]
AddHighP == [Mod EXCEPT !.match = {p}, !.priority = 2, !.hard = 1, !.idle = 1, !.send_removed = TRUE]
AddWide == [Mod EXCEPT !.priority = 1, !.check_overlap = TRUE, !.insts = {port2}]

ModifyAll == [Mod EXCEPT !.command = "MODIFY", !.insts = {port2}]
DeleteP == [Mod EXCEPT !.command = "DELETE", !.match = {p}, !.out = {port1}]
DeleteStrictQ == [AddQ EXCEPT !.command = "DELETE_STRICT"]
DeleteCookie == [Mod EXCEPT !.command = "DELETE", !.cookie = {1}, !.cookie_mask = {1}]

MCFlowMods == {TableMiss, AddP, AddPAgain, AddWide, AddQ, AddHighP, ModifyAll, DeleteP, DeleteStrictQ, DeleteCookie}

\* For the runs that check liveness.
FewFlowMods == {TableMiss, AddP, AddHighP}

\* A pair of addresses whose flow is predicted to end, one with no prediction;
\* the match {q} names no addresses.
MCKeys == {k1, k2}
MCFlowKeys == [m \in {{p}} |-> k1]
MCEnds == [k \in {k1} |-> 1]
NoEnds == <<>>

Symmetry == Permutations(Ids)

-----------------------------------------------------------------------------
(* The matches behind the sets: an address of two words that may be masked,*)
(* a plain field, and of the fields compared in their own way the VLAN     *)
(* identifier (untagged, tagged, one identifier), extension headers and    *)
(* one of three octets.  A match has two headers at most, of the latter    *)
(* three fields one.                                                       *)
MCPresent == 9
Special == {"vlan", "exthdr", "pbb"}
MCBits == [addr |-> {1, 2}, type |-> {1}, vlan |-> {1, MCPresent}, exthdr |-> {1}, pbb |-> {1}]
MCWords == [f \in DOMAIN MCBits |-> IF f = "addr" THEN {{1}, {2}} ELSE {MCBits[f]}]

Values(f) == IF f = "vlan" THEN {{}, {MCPresent}, {1, MCPresent}} ELSE SUBSET MCBits[f]
Plain(f) == {<<<<f, FALSE>>, [value |-> v, mask |-> MCBits[f]]>> : v \in Values(f)}
Masked(f) == {<<<<f, TRUE>>, [value |-> v \intersect k, mask |-> k]>> : v, k \in SUBSET MCBits[f]}
Tlvs == Masked("addr") \union UNION {Plain(f) : f \in DOMAIN MCBits}

FewSpecial(fields) == Cardinality(fields \intersect Special) <= 1
HeaderSets == {S \in {{}} \union {{s, t} : s, t \in Tlvs} :
                 /\ Cardinality({t[1][1] : t \in S}) = Cardinality(S)
                 /\ FewSpecial({t[1][1] : t \in S})}
MatchWith(S) == [h \in {t[1] : t \in S} |-> (CHOOSE t \in S : t[1] = h)[2]]
MCMatches == {MatchWith(S) : S \in HeaderSets}

\* The identifier of a packet's tag comes without the bit OFPVID_PRESENT.
PacketsWith(fields) ==
    {k \in [fields -> SUBSET {1, 2}] : \A f \in fields : k[f] \subseteq MCBits[f]}
MCHeaders == UNION {PacketsWith(F) : F \in SUBSET DOMAIN MCBits}
=============================================================================
