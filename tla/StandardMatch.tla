--------------------------- MODULE StandardMatch ---------------------------
(***************************************************************************)
(* The comparison of matches (udatapath/match_std.c).  A match gives, for  *)
(* each header it has, a value and a mask; a header is a field together    *)
(* with its "has mask" bit, so a masked and a plain match on one field     *)
(* have different headers.  Values and masks are sets of bits, those that  *)
(* are 1; the mask of a plain match has all bits, like the all_mask of     *)
(* match_std_overlap.  A packet is a function from the fields it has to    *)
(* their values.                                                           *)
(*                                                                         *)
(* oxm_pull_match lets no value through that has bits outside its mask     *)
(* (IsTlv, IsMatch).                                                       *)
(***************************************************************************)
CONSTANTS
    Bits,               \* of each field, its bits
    Words,              \* of each field, its bits by the integers compared at once
    VlanVid,            \* the field OXM_OF_VLAN_VID
    Present,            \*   and its bit OFPVID_PRESENT
    Exthdr,             \* the field OXM_OF_IPV6_EXTHDR
    ThreeOctets,        \* the fields of three octets (OXM_OF_PBB_ISID)
    Matches,            \* bound: the matches compared here
    Packets             \* and the packets that tell them apart

FieldOf(header) == header[1]
HasMask(header) == header[2]

Differ(a, b) == (a \ b) \union (b \ a)

(* How packet_match compares one field.                                    *)
FieldMatches(header, tlv, packet) ==
    LET f == FieldOf(header)
    IN  IF f \notin DOMAIN packet
        THEN f = VlanVid /\ ~ HasMask(header) /\ tlv.value = {}
        ELSE CASE f = VlanVid ->
                    /\ tlv.value # {}
                    /\ \/ tlv.value = {Present}
                       \/ Differ(tlv.value \ {Present}, packet[f]) \intersect tlv.mask = {}
               [] f = Exthdr -> tlv.value \subseteq packet[f]
               [] OTHER -> Differ(tlv.value, packet[f]) \intersect tlv.mask = {}

packet_match(m, packet) == \A h \in DOMAIN m : FieldMatches(h, m[h], packet)

(* strict_mask8 to strict_mask128: word by word, values that differ under  *)
(* equal masks are told apart -- and nothing else is.                      *)
StrictMasked(f, a, b) ==
    \A w \in Words[f] :
        ~ /\ a.mask \intersect w = b.mask \intersect w
          /\ Differ(a.value, b.value) \intersect a.mask \intersect w # {}

(* Mutant: any field of the flow-mod may be missing from the entry.        *)
match_std_strict_shorter(a, b) ==
    \A h \in DOMAIN a \intersect DOMAIN b :
        IF HasMask(h) THEN StrictMasked(FieldOf(h), a[h], b[h])
        ELSE a[h].value = b[h].value

(* Every header of a is looked up in b, and their lengths are the same.    *)
match_std_strict(a, b) ==
    /\ DOMAIN a = DOMAIN b
    /\ \A h \in DOMAIN a :
          IF HasMask(h) THEN StrictMasked(FieldOf(h), a[h], b[h])
          ELSE a[h].value = b[h].value

(* nonstrict_mask8 to nonstrict_mask128.                                   *)
NonstrictMasked(f, a, b) ==
    LET Not(bits) == Bits[f] \ bits
    IN  Not(a.mask) \intersect (Not(a.value) \union Not(b.value) \union b.mask)
                    \intersect (a.value \union b.value \union b.mask) = {}

match_std_nonstrict(a, b) ==
    /\ DOMAIN a \subseteq DOMAIN b
    /\ \A h \in DOMAIN a :
          IF HasMask(h) THEN NonstrictMasked(FieldOf(h), a[h], b[h])
          ELSE a[h].value = b[h].value

(* incompatible_8 to incompatible_128, of which there is none for three    *)
(* octets.                                                                 *)
Incompatible(f, a, b) ==
    /\ f \notin ThreeOctets
    /\ a.mask \intersect a.value # b.mask \intersect b.value

(* A plain header of the field is looked up before the masked one.         *)
match_std_overlap(a, b) ==
    \A h \in DOMAIN a :
        LET f == FieldOf(h)
            inB == {g \in DOMAIN b : FieldOf(g) = f}
            found == IF <<f, FALSE>> \in inB THEN <<f, FALSE>> ELSE <<f, TRUE>>
        IN  inB = {} \/ ~ Incompatible(f, a[h], b[found])

-----------------------------------------------------------------------------
(* What the comparisons should be: those of the sets of packets matched.   *)
Covers == [m \in Matches |-> {packet \in Packets : packet_match(m, packet)}]

(* What a match gives for one header.  A plain VLAN identifier asks for no *)
(* tag or for one that is present; masked identifiers are left out.        *)
IsTlv(header, tlv) ==
    LET f == FieldOf(header)
    IN  /\ tlv.value \subseteq tlv.mask /\ tlv.mask \subseteq Bits[f]
        /\ HasMask(header) \/ tlv.mask = Bits[f]
        /\ f = VlanVid => ~ HasMask(header) /\ (tlv.value = {} \/ Present \in tlv.value)

(* It has one header of a field at most, as the protocol demands;          *)
(* check_oxm_dup itself refuses only the same header twice.                *)
IsMatch(m) ==
    /\ DOMAIN m \subseteq (DOMAIN Bits) \X BOOLEAN
    /\ \A h, g \in DOMAIN m : FieldOf(h) = FieldOf(g) => h = g
    /\ \A h \in DOMAIN m : IsTlv(h, m[h])

(* What a packet may have in a field: the identifier of a tag comes        *)
(* without the bit that says there is one.                                 *)
Contents(f) == {bits \in SUBSET Bits[f] : f = VlanVid => Present \notin bits}
AllBits == UNION {Bits[f] : f \in DOMAIN Bits}
AllPackets == UNION {{packet \in [fields -> SUBSET AllBits] : \A f \in fields : packet[f] \in Contents(f)} :
                     fields \in SUBSET DOMAIN Bits}

MatchesAssumption ==
    /\ VlanVid # Exthdr
    /\ \A f \in DOMAIN Bits : UNION Words[f] = Bits[f]
    /\ \A m \in Matches : IsMatch(m)
    /\ Packets = AllPackets

FieldsOf(m) == {FieldOf(h) : h \in DOMAIN m}
IsPlain(m) == \A h \in DOMAIN m : ~ HasMask(h)
IsOrdinary(m) == FieldsOf(m) \intersect ({VlanVid, Exthdr} \union ThreeOctets) = {}

(* The two name the same bits of every field they share.                   *)
SameMasks(a, b) ==
    \A h \in DOMAIN a, g \in DOMAIN b :
        FieldOf(h) = FieldOf(g) => h = g /\ a[h].mask = b[g].mask

(* The flow table treats a match as the set of the packets it matches: the *)
(* same match, one that includes the other, two that share a packet        *)
(* (flow_entry_matches, flow_entry_overlaps).  As long as two matches mask *)
(* the same bits, match_std_strict is equality of those sets.  Without     *)
(* masks, match_std_nonstrict only claims inclusions that hold, and        *)
(* outside VLAN and extension headers it claims them all.  An overlap that *)
(* is reported is real even with masks, and without them none is missed.   *)
MatchesAreSets ==
    \A a \in Matches, b \in Matches :
        /\ SameMasks(a, b) =>
              (match_std_strict(a, b) <=> Covers[a] = Covers[b])
        /\ IsPlain(a) /\ IsPlain(b) /\ match_std_nonstrict(a, b) =>
              Covers[b] \subseteq Covers[a]
        /\ IsPlain(a) /\ IsPlain(b) /\ IsOrdinary(a) /\ Covers[b] \subseteq Covers[a] =>
              match_std_nonstrict(a, b)
        /\ IsOrdinary(a) /\ IsOrdinary(b) /\ match_std_overlap(a, b) =>
              Covers[a] \intersect Covers[b] # {}
        /\ IsPlain(a) /\ IsPlain(b) /\ IsOrdinary(a) /\ Covers[a] \intersect Covers[b] # {} =>
              match_std_overlap(a, b)

=============================================================================
