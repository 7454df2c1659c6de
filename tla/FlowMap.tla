------------------------------ MODULE FlowMap ------------------------------
(***************************************************************************)
(* What a flow table of the ns-3 device promises to the controllers and to *)
(* the packets (flow_table.h): a set of flows, at most one for a match and *)
(* a priority and never more than there is room for.  No lists, no names   *)
(* of entries, no counter.  FlowTable implements it.                       *)
(***************************************************************************)
EXTENDS Naturals, FiniteSets

CONSTANTS
  Packets,        \* packets the matches tell apart
  FlowMods,       \* the flow-mod messages that controllers send
  Room            \* "Max number of entries supported"

VARIABLES
  table,          \* the flows, each a record with all its fields
  clock           \* the time in seconds

vars == <<table, clock>>

Init == table = {} /\ clock = 1

-----------------------------------------------------------------------------
Same(f, mod) == f.match = mod.match /\ f.priority = mod.priority

Conflict(f, mod) == /\ f.priority = mod.priority
                    /\ f.match \cap mod.match # {}
                    /\ mod.out \subseteq f.insts

CookieFits(f, mod) == f.cookie \cap mod.cookie_mask = mod.cookie \cap mod.cookie_mask

Chosen(mod) ==
  {f \in table : /\ CookieFits(f, mod)
                 /\ IF mod.command \in {"MODIFY_STRICT", "DELETE_STRICT"}
                    THEN Same(f, mod) ELSE f.match \subseteq mod.match}

\* Flows that give way to a new one when there is no room: those of a match that
\* were not used for the longest time.
Stalest == {f \in table : /\ f.match # Packets
                          /\ \A g \in table : g.match = Packets \/ f.last_used <= g.last_used}

GivesWay == IF Cardinality(table) = Room THEN {{f} : f \in Stalest} ELSE {{}}

Fresh(mod) == [match |-> mod.match, priority |-> mod.priority, cookie |-> mod.cookie,
               insts |-> mod.insts, idle |-> mod.idle,
               remove_at |-> IF mod.hard = 0 THEN 0 ELSE clock + mod.hard,
               last_used |-> clock, send_removed |-> mod.send_removed]

\* A flow is installed, in place of the one with its match and priority if there
\* is one; a conflict may prevent that, a full table costs one flow either way.
Install(mod) ==
  /\ mod.command = "ADD"
  /\ \E gone \in GivesWay :
       LET rest == table \ gone IN
       \/ /\ mod.check_overlap
          /\ \E f \in rest : Conflict(f, mod)
          /\ table' = rest
       \/ /\ \/ \E f \in rest : Same(f, mod)
             \/ ~mod.check_overlap
             \/ \A f \in rest : ~Conflict(f, mod)
          /\ table' = {f \in rest : ~Same(f, mod)} \cup {Fresh(mod)}
  /\ UNCHANGED clock

Rewrite(mod) ==
  /\ mod.command \in {"MODIFY", "MODIFY_STRICT"}
  /\ table' = (table \ Chosen(mod)) \cup {[f EXCEPT !.insts = mod.insts] : f \in Chosen(mod)}
  /\ UNCHANGED clock

Remove(mod) ==
  /\ mod.command \in {"DELETE", "DELETE_STRICT"}
  /\ table' = {f \in table : f \notin Chosen(mod) \/ ~(mod.out \subseteq f.insts)}
  /\ UNCHANGED clock

\* All the flows whose time is over leave at once.
Expire ==
  /\ table' = {f \in table : /\ f.remove_at = 0 \/ clock <= f.remove_at
                             /\ f.idle = 0 \/ clock <= f.last_used + f.idle}
  /\ UNCHANGED clock

\* A packet uses one flow of those with the highest priority that match it.
Use(p) ==
  /\ \E f \in table :
       /\ p \in f.match
       /\ \A g \in table : p \in g.match => g.priority <= f.priority
       /\ table' = (table \ {f}) \cup {[f EXCEPT !.last_used = clock]}
  /\ UNCHANGED clock

Pass == clock' = clock + 1 /\ UNCHANGED table

Next ==
  \/ \E mod \in FlowMods : Install(mod) \/ Rewrite(mod) \/ Remove(mod)
  \/ Expire
  \/ \E p \in Packets : Use(p)
  \/ Pass

Spec == Init /\ [][Next]_vars
=============================================================================
