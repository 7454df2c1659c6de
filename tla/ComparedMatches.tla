-------------------------- MODULE ComparedMatches --------------------------
(***************************************************************************)
(* The flow table compares matches as sets of packets.  This module puts   *)
(* beside it the matches as they are, fields with values and masks, and    *)
(* the comparisons of match_std.c (StandardMatch).                         *)
(***************************************************************************)
EXTENDS FlowTable

CONSTANTS
    Bits, Words, VlanVid, Present, Exthdr, ThreeOctets,    \* as in StandardMatch
    Matches,            \* matches a controller may send
    Headers             \* all the packets there are, by their fields

Std == INSTANCE StandardMatch WITH Packets <- Headers

ASSUME MatchesAssumption == Std!MatchesAssumption

(* Every step of the table compares matches as sets of packets, and that   *)
(* is what match_std.c does within the limits stated there.                *)
MatchesAreSets == [][Std!MatchesAreSets]_vars
=============================================================================
