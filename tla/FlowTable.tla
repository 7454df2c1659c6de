------------------------------ MODULE FlowTable ------------------------------
(***************************************************************************)
(* One flow table of the datapath: udatapath/flow_table.c with the entries *)
(* of udatapath/flow_entry.c.                                              *)
(*                                                                         *)
(* A match is the set of the packets it matches.  For matches without bit  *)
(* masks that is exact (match_std.c): two of them match strictly when      *)
(* they are the same set, one covers the other when it includes it, they   *)
(* overlap when they intersect.  The all-match entry, the one whose match  *)
(* has no field, is the match Packets.  The instructions of an entry are   *)
(* the set of the ports and groups they send to.  A cookie is a set of     *)
(* bits.  Counters, durations and the text of log lines are left out.      *)
(*                                                                         *)
(* Time is counted in seconds; time_msec() and the time stamp that the     *)
(* ns-3 device passes down are the same clock.                             *)
(***************************************************************************)
EXTENDS Lists

CONSTANTS
  Ids,            \* names of flow entries, live or not yet created
  Packets,        \* packets the matches tell apart
  Outputs,        \* ports and groups instructions can send to
  CookieBits,     \* bits of a cookie
  FlowMods,       \* the flow-mod messages that controllers send
  MaxEntries,     \* features->max_entries of a new table
  FeatureSizes,   \* values of max_entries in table-features requests
  UseLru,         \* use_lru: evict by LRU, otherwise by the ML policy
  Keys,           \* pairs of a source and a destination address
  FlowKeys,       \* get_key: the pair a match names; matches without one are left out
  FlowEnds,       \* flowStats.csv: end of the flow of a pair, if known
  MinInactive,    \* N of ml_evict
  LongGap,        \* seconds after which an end time is not extrapolated
  MaxNow          \* bound of the clock

FlowMod == [command : {"ADD", "MODIFY", "MODIFY_STRICT", "DELETE", "DELETE_STRICT"},
            match : SUBSET Packets, priority : Nat, idle : Nat, hard : Nat,
            cookie : SUBSET CookieBits, cookie_mask : SUBSET CookieBits,
            out : SUBSET Outputs, insts : SUBSET Outputs,
            check_overlap : BOOLEAN, send_removed : BOOLEAN]

ASSUME FlowModsAssumption == FlowMods \subseteq FlowMod
ASSUME MaxEntriesAssumption == MaxEntries \in Nat \ {0}
ASSUME BoundsAssumption == /\ MaxNow \in Nat /\ MinInactive \in Nat /\ LongGap \in Nat
                           /\ UseLru \in BOOLEAN
                           /\ FeatureSizes \subseteq Nat
ASSUME FlowKeysAssumption == /\ Keys # {}
                             /\ DOMAIN FlowKeys \subseteq SUBSET Packets
                             /\ FlowKeys \in [DOMAIN FlowKeys -> Keys]
ASSUME FlowEndsAssumption == /\ DOMAIN FlowEnds \subseteq Keys
                             /\ FlowEnds \in [DOMAIN FlowEnds -> Nat]

VARIABLES
  flows,          \* the live struct flow_entry objects, by name
  match_entries,  \* list of all entries, in lookup order
  hard_entries,   \* list of entries with a hard timeout
  idle_entries,   \* list of entries with an idle timeout
  active_count,   \* stats->active_count
  max_entries,    \* features->max_entries
  installed,      \* all_installed_entries: matches installed so far
  flow_end,       \* flow_stats: end times loaded by ml_evict; empty before
  now,            \* time_msec()
  crashed,        \* the process dereferenced a NULL entry
  out             \* what the last operation did and sent

lists == <<match_entries, hard_entries, idle_entries>>
history == <<installed, flow_end>>
vars == <<flows, lists, active_count, max_entries, history, now, crashed, out>>

Flow == [match : SUBSET Packets, priority : Nat, cookie : SUBSET CookieBits,
         insts : SUBSET Outputs, idle : Nat, remove_at : Nat, last_used : Nat,
         send_removed : BOOLEAN]

Live == DOMAIN flows

\* The effects of an operation that no list of the table shows: the error it
\* returned, the FLOW_REMOVED messages, the entries evicted, the packet looked up
\* and the entry found, whether an install counted as a capacity miss.
Quiet(op) == [op |-> op, error |-> "none", removed |-> {}, evicted |-> {},
              packets |-> {}, hit |-> {}, cap_miss |-> FALSE]

\* The FLOW_REMOVED messages for the entries R, removed for one reason.
Notices(R, reason) == {[id |-> i, reason |-> reason] : i \in {r \in R : flows[r].send_removed}}

-----------------------------------------------------------------------------
(* Comparing entries with flow-mods: flow_entry_matches, flow_entry_overlaps *)

IsAllMatch(e) == e.match = Packets

\* Mutant: the priority is not compared.
SameFlowAnyPriority(e, m) == e.match = m.match

SameFlow(e, m) == e.priority = m.priority /\ e.match = m.match

HasOut(e, mod) == mod.out \subseteq e.insts

CookieMatches(e, mod) == e.cookie \cap mod.cookie_mask = mod.cookie \cap mod.cookie_mask

Overlaps(e, mod) == /\ e.priority = mod.priority
                    /\ HasOut(e, mod)
                    /\ e.match \cap mod.match # {}

\* The live entries a MODIFY or DELETE selects by match, strictly or not, and cookie.
Selected(mod) ==
  {i \in Live :
     /\ CookieMatches(flows[i], mod)
     /\ IF mod.command \in {"MODIFY_STRICT", "DELETE_STRICT"}
        THEN SameFlow(flows[i], mod)
        ELSE flows[i].match \subseteq mod.match}

NewFlow(mod) == [match |-> mod.match, priority |-> mod.priority, cookie |-> mod.cookie,
                 insts |-> mod.insts, idle |-> mod.idle,
                 remove_at |-> IF mod.hard = 0 THEN 0 ELSE now + mod.hard,
                 last_used |-> now, send_removed |-> mod.send_removed]

-----------------------------------------------------------------------------
(* Removing entries: flow_entry_remove on every entry of R                   *)

RemoveFlows(R) ==
  /\ flows' = [i \in Live \ R |-> flows[i]]
  /\ match_entries' = Without(match_entries, R)
  /\ hard_entries' = Without(hard_entries, R)
  /\ idle_entries' = Without(idle_entries, R)
  /\ active_count' = active_count - Cardinality(R)

-----------------------------------------------------------------------------
(* Eviction: lru_evict and ml_evict                                          *)

\* Mutant: the test for the all-match entry is inverted.
EvictableInverted == {i \in Live : IsAllMatch(flows[i])}

\* Mutant: no test for the all-match entry.
EvictableAll == Live

Evictable == {i \in Live : ~IsAllMatch(flows[i])}

\* Mutant: the comparison of last_used is inverted.
LeastRecentInverted(S) ==
  {i \in S : \A j \in S : flows[i].last_used >= flows[j].last_used}

\* The first entry of the list, among those of S, that was used least recently.
LeastRecent(S) ==
  {i \in S : \A j \in S : \/ flows[i].last_used < flows[j].last_used
                          \/ /\ flows[i].last_used = flows[j].last_used
                             /\ i = j \/ Precedes(match_entries, i, j)}

Ends == IF flow_end = <<>> THEN FlowEnds ELSE flow_end

\* What get_key may return: of a match without both addresses it prints octets
\* that were never initialised.
KeysOf(m) == IF m \in DOMAIN FlowKeys THEN {FlowKeys[m]} ELSE Keys

IsOver(k) == k \in DOMAIN Ends /\ Ends[k] + 1 < now

\* The loop of ml_evict has found the flows of the entries S to be over.  The
\* active entry is drawn at random; the inactive one is the least recently used.
Drawn(S) ==
  LET active == Evictable \ S
      inactive == LeastRecent(S)
  IN  IF active = {} THEN inactive
      ELSE IF S = {} \/ Cardinality(S) < MinInactive THEN active
      ELSE active \cup inactive

MlVictims ==
  UNION {Drawn({i \in Evictable : IsOver(key[i])}) :
           key \in {f \in [Evictable -> Keys] : \A i \in Evictable : f[i] \in KeysOf(flows[i].match)}}

Victims == IF UseLru THEN LeastRecent(Evictable) ELSE MlVictims

\* Mutant: the size check is off by one, one way or the other.
IsFullLate == active_count = max_entries + 1

IsFull == active_count = max_entries

\* The sets of entries that flow_table_add_with_timestamp may evict first.
Evictions == IF IsFull THEN {{v} : v \in Victims} ELSE {{}}

\* Mutant: the evicted entry is destroyed without flow_entry_remove.
EvictedOutSilent(R) == [Quiet("add") EXCEPT !.evicted = R]

EvictedOut(R) == [Quiet("add") EXCEPT !.removed = Notices(R, "EVICTION"), !.evicted = R]

\* flow_stats is loaded when ml_evict runs for the first time.
EndsAfterEviction == IF IsFull /\ ~UseLru THEN Ends ELSE flow_end

\* update_flow_end_time: a flow installed after its predicted end lasts longer.
ExtendEnd(ends, m, k) ==
  IF m # Packets /\ k \in DOMAIN ends /\ ends[k] < now
  THEN [ends EXCEPT ![k] = IF now - @ > LongGap THEN now ELSE @ + 2 * (now - @)]
  ELSE ends

-----------------------------------------------------------------------------
(* Adding entries: flow_table_add and flow_table_add_with_timestamp          *)

\* Mutant: the loop stops at an entry of the same priority.
StopAtEqual(R, mod) ==
  LET s == Without(match_entries, R)
  IN  FirstOf(s, {i \in 1..Len(s) : mod.priority >= flows[s[i]].priority})

\* Where the loop over match_entries, some entries R gone, stops for mod.
Stop(R, mod) ==
  LET s == Without(match_entries, R)
  IN  FirstOf(s, {i \in 1..Len(s) : \/ mod.check_overlap /\ Overlaps(flows[s[i]], mod)
                                    \/ SameFlow(flows[s[i]], mod)
                                    \/ mod.priority > flows[s[i]].priority})

\* The entry the loop stops at: none if it runs to the list head.
StopEntries(R, mod) ==
  LET s == Without(match_entries, R)
  IN  {s[i] : i \in {Stop(R, mod)} \cap 1..Len(s)}

FindsOverlap(R, mod) == /\ mod.check_overlap
                        /\ \E old \in StopEntries(R, mod) : Overlaps(flows[old], mod)

FindsSame(R, mod) == /\ ~FindsOverlap(R, mod)
                     /\ \E old \in StopEntries(R, mod) : SameFlow(flows[old], mod)

FindsPlace(R, mod) == ~FindsOverlap(R, mod) /\ ~FindsSame(R, mod)

\* add_to_timeout_lists for the entry e named id; s and h are the lists before it.
AddIdle(s, id, e) == IF e.idle > 0 THEN Append(s, id) ELSE s

AddHard(h, id, e) ==
  IF e.remove_at = 0 THEN h
  ELSE InsertAt(h, FirstOf(h, {i \in 1..Len(h) : flows[h[i]].remove_at > e.remove_at}), id)

\* Mutant: the replaced entry stays in the idle list.
ReplaceFlowKeepIdle(R, old, id, mod) ==
  LET e == NewFlow(mod) IN
  /\ flows' = [i \in (Live \ (R \cup {old})) \cup {id} |-> IF i = id THEN e ELSE flows[i]]
  /\ match_entries' = ReplaceAll(Without(match_entries, R), old, id)
  /\ hard_entries' = AddHard(Without(hard_entries, R \cup {old}), id, e)
  /\ idle_entries' = AddIdle(Without(idle_entries, R), id, e)
  /\ active_count' = active_count - Cardinality(R)

\* The entries R leave and the new entry id, for mod, takes the place of old.
ReplaceFlow(R, old, id, mod) ==
  LET e == NewFlow(mod) IN
  /\ flows' = [i \in (Live \ (R \cup {old})) \cup {id} |-> IF i = id THEN e ELSE flows[i]]
  /\ match_entries' = ReplaceAll(Without(match_entries, R), old, id)
  /\ hard_entries' = AddHard(Without(hard_entries, R \cup {old}), id, e)
  /\ idle_entries' = AddIdle(Without(idle_entries, R \cup {old}), id, e)
  /\ active_count' = active_count - Cardinality(R)

\* The entries R leave and the new entry id, for mod, goes where the loop stopped.
InsertFlow(R, id, mod) ==
  LET e == NewFlow(mod) IN
  /\ flows' = [i \in (Live \ R) \cup {id} |-> IF i = id THEN e ELSE flows[i]]
  /\ match_entries' = InsertAt(Without(match_entries, R), Stop(R, mod), id)
  /\ hard_entries' = AddHard(Without(hard_entries, R), id, e)
  /\ idle_entries' = AddIdle(Without(idle_entries, R), id, e)
  /\ active_count' = (active_count - Cardinality(R)) + 1

\* update_num_cap_miss, and the out record that shows its verdict.
CountInstall(R, mod) ==
  /\ installed' = installed \cup {mod.match}
  /\ out' = [EvictedOut(R) EXCEPT !.cap_miss = mod.match \in installed]

\* flow_table_add_with_timestamp, the ADD of the ns-3 device.  Eviction comes
\* first, whatever the loop decides afterwards.
AddWithTimestamp(mod) ==
  /\ mod.command = "ADD"
  /\ \E R \in Evictions :
       \/ /\ FindsOverlap(R, mod)
          /\ RemoveFlows(R)
          /\ out' = [EvictedOut(R) EXCEPT !.error = "overlap"]
          /\ flow_end' = EndsAfterEviction
          /\ UNCHANGED installed
       \/ \E id \in Ids \ Live :
            /\ \/ /\ FindsSame(R, mod)
                  /\ \E old \in StopEntries(R, mod) : ReplaceFlow(R, old, id, mod)
                  /\ out' = EvictedOut(R)
                  /\ UNCHANGED installed
               \/ /\ FindsPlace(R, mod)
                  /\ InsertFlow(R, id, mod)
                  /\ CountInstall(R, mod)
            /\ \E k \in KeysOf(mod.match) :
                 flow_end' = ExtendEnd(EndsAfterEviction, mod.match, k)
  /\ UNCHANGED <<max_entries, now, crashed>>

\* lru_evict and ml_evict remove the NULL entry when every entry is all-match.
EvictNothing(mod) ==
  /\ mod.command = "ADD"
  /\ IsFull /\ Victims = {}
  /\ crashed' = TRUE
  /\ out' = Quiet("add")
  /\ UNCHANGED <<flows, lists, active_count, max_entries, history, now>>

\* flow_table_add, the ADD of the stand-alone switch.  It counts and creates
\* the entry before it finds the table full; that entry is in no list.
Add(mod) ==
  /\ mod.command = "ADD"
  /\ \/ /\ FindsOverlap({}, mod)
        /\ out' = [Quiet("add") EXCEPT !.error = "overlap"]
        /\ UNCHANGED <<flows, lists, active_count, installed>>
     \/ \E id \in Ids \ Live :
          \/ /\ FindsSame({}, mod)
             /\ \E old \in StopEntries({}, mod) : ReplaceFlow({}, old, id, mod)
             /\ CountInstall({}, mod)
          \/ /\ FindsPlace({}, mod)
             /\ active_count + 1 # max_entries
             /\ InsertFlow({}, id, mod)
             /\ CountInstall({}, mod)
     \/ /\ FindsPlace({}, mod)
        /\ active_count + 1 = max_entries
        /\ active_count' = active_count + 1
        /\ out' = [Quiet("add") EXCEPT !.error = "table_full"]
        /\ UNCHANGED <<flows, lists, installed>>
  /\ UNCHANGED <<max_entries, flow_end, now, crashed>>

-----------------------------------------------------------------------------
(* The other operations of the table                                         *)

\* flow_table_modify: new instructions, the rest of the entries is kept.
Modify(mod) ==
  /\ mod.command \in {"MODIFY", "MODIFY_STRICT"}
  /\ flows' = [i \in Live |-> IF i \in Selected(mod) THEN [flows[i] EXCEPT !.insts = mod.insts]
                              ELSE flows[i]]
  /\ out' = Quiet("modify")
  /\ UNCHANGED <<lists, active_count, max_entries, history, now, crashed>>

\* flow_table_delete
Delete(mod) ==
  /\ mod.command \in {"DELETE", "DELETE_STRICT"}
  /\ LET R == {i \in Selected(mod) : HasOut(flows[i], mod)} IN
       /\ RemoveFlows(R)
       /\ out' = [Quiet("delete") EXCEPT !.removed = Notices(R, "DELETE")]
  /\ UNCHANGED <<max_entries, history, now, crashed>>

HardExpired(e) == e.remove_at # 0 /\ now > e.remove_at

\* Mutant: the idle timeout is scaled twice.
IdleExpiredUnits(e) == e.idle # 0 /\ now > e.last_used + e.idle * 1000

IdleExpired(e) == e.idle # 0 /\ now > e.last_used + e.idle

\* The hard list is walked up to the first entry that stays.
HardSweep == {hard_entries[i] : i \in {k \in 1..Len(hard_entries) :
                 \A j \in 1..k : HardExpired(flows[hard_entries[j]])}}

IdleSweep == {idle_entries[i] : i \in {k \in 1..Len(idle_entries) :
                 IdleExpired(flows[idle_entries[k]])}}

\* flow_table_timeout, from pipeline_timeout
Timeout ==
  LET idle == IdleSweep \ HardSweep IN
  /\ RemoveFlows(HardSweep \cup idle)
  /\ out' = [Quiet("timeout") EXCEPT
               !.removed = Notices(HardSweep, "HARD_TIMEOUT") \cup Notices(idle, "IDLE_TIMEOUT")]
  /\ UNCHANGED <<max_entries, history, now, crashed>>

\* flow_table_lookup
Lookup(p) ==
  LET found == {match_entries[i] : i \in 1..Len(match_entries) \cap
                 {FirstOf(match_entries, {k \in 1..Len(match_entries) :
                                            p \in flows[match_entries[k]].match})}}
  IN  /\ flows' = [i \in Live |-> IF i \in found THEN [flows[i] EXCEPT !.last_used = now]
                                  ELSE flows[i]]
      /\ out' = [Quiet("lookup") EXCEPT !.packets = {p}, !.hit = found]
      /\ UNCHANGED <<lists, active_count, max_entries, history, now, crashed>>

\* A table-features request of a controller replaces the features, max_entries
\* with them; the entries stay.
SetFeatures(n) ==
  /\ max_entries' = n
  /\ out' = Quiet("features")
  /\ UNCHANGED <<flows, lists, active_count, history, now, crashed>>

Tick ==
  /\ now < MaxNow
  /\ now' = now + 1
  /\ out' = Quiet("tick")
  /\ UNCHANGED <<flows, lists, active_count, max_entries, history, crashed>>

-----------------------------------------------------------------------------
Init ==
  /\ flows = <<>>
  /\ match_entries = <<>> /\ hard_entries = <<>> /\ idle_entries = <<>>
  /\ active_count = 0
  /\ max_entries = MaxEntries
  /\ installed = {}
  /\ flow_end = <<>>
  /\ now = 1
  /\ crashed = FALSE
  /\ out = Quiet("create")

\* What does not depend on the program the library is linked into.
Common ==
  \/ \E mod \in FlowMods : Modify(mod) \/ Delete(mod)
  \/ Timeout
  \/ \E p \in Packets : Lookup(p)
  \/ Tick

\* The table inside the ns-3 device.
Next == /\ ~crashed
        /\ \/ \E mod \in FlowMods : AddWithTimestamp(mod) \/ EvictNothing(mod)
           \/ Common

Spec == Init /\ [][Next]_vars

\* The same, with controllers that also configure the size of the table.
FeaturesNext == Next \/ (~crashed /\ \E n \in FeatureSizes : SetFeatures(n))

FeaturesSpec == Init /\ [][FeaturesNext]_vars

\* The table inside the stand-alone switch.
StandaloneNext == (\E mod \in FlowMods : Add(mod)) \/ Common

StandaloneSpec == Init /\ [][StandaloneNext]_vars

\* Time goes on, and OFSwitch13Device::DatapathTimeout reschedules itself.
FairSpec == FeaturesSpec /\ WF_vars(Tick) /\ WF_vars(~crashed /\ Timeout)

-----------------------------------------------------------------------------
(* Properties *)

\* Every variable has its type (flow_table.h, struct flow_table).
TypeOK ==
  /\ Live \subseteq Ids
  /\ flows \in [Live -> Flow]
  /\ match_entries \in Seq(Live) /\ hard_entries \in Seq(Live) /\ idle_entries \in Seq(Live)
  /\ active_count \in Nat
  /\ max_entries \in Nat
  /\ installed \subseteq SUBSET Packets
  /\ DOMAIN flow_end \subseteq Keys /\ flow_end \in [DOMAIN flow_end -> Nat]
  /\ now \in Nat
  /\ crashed \in BOOLEAN

\* The three lists agree with the entries that exist: each entry is once in the
\* match list, and once in a timeout list exactly when it has that timeout.
ListsAgree ==
  /\ NoRepeats(match_entries) /\ ToSet(match_entries) = Live
  /\ NoRepeats(hard_entries)  /\ ToSet(hard_entries) = {i \in Live : flows[i].remove_at # 0}
  /\ NoRepeats(idle_entries)  /\ ToSet(idle_entries) = {i \in Live : flows[i].idle # 0}

\* "Number of active entries" (ofl-structs.h): the statistic equals the number
\* of entries a packet can reach.
ActiveCountExact == active_count = Len(match_entries)

\* "Entries in priority order" (flow_table.h): never a lower one before a higher.
PriorityOrder ==
  \A i, j \in 1..Len(match_entries) :
    i < j => flows[match_entries[i]].priority >= flows[match_entries[j]].priority

\* "Ordered by their timeout times" (flow_table.h): the sweep may stop at the
\* first entry that has not expired.
HardOrder ==
  \A i, j \in 1..Len(hard_entries) :
    i < j => flows[hard_entries[i]].remove_at <= flows[hard_entries[j]].remove_at

\* An ADD replaces the entry with its priority and match wherever it stands, so
\* no two entries have the same ones.
NoDuplicateFlows == \A i, j \in Live : SameFlow(flows[i], flows[j]) => i = j

\* "Max number of entries supported" (ofl-structs.h): the table never outgrows it.
WithinCapacity == Len(match_entries) <= max_entries

\* "Finds the flow entry with the highest priority, which matches the packet"
\* (flow_table.h): also when the list was reordered by replacements and evictions.
LookupIsBest ==
  out.op = "lookup" =>
    LET matching == {i \in Live : out.packets \subseteq flows[i].match} IN
    /\ out.hit \subseteq matching
    /\ out.hit = {} => matching = {}
    /\ \A h \in out.hit : \A i \in matching : flows[i].priority <= flows[h].priority

\* A sweep leaves no entry behind whose hard or idle time is over.
SweepComplete ==
  out.op = "timeout" => \A i \in Live : ~HardExpired(flows[i]) /\ ~IdleExpired(flows[i])

\* lru_evict and ml_evict pass over the all-match entries and remove what they
\* found without a test.  Controllers that install fewer all-match flows than a
\* table has room for are safe: a full table always has an entry to evict.
FewAllMatchesAreSafe ==
  Cardinality({mod.priority : mod \in {m \in FlowMods : m.command = "ADD" /\ m.match = Packets}})
    < max_entries => ~crashed

\* The entries of one step that took the place of an entry of the same flow.
ReplacedNow == {i \in Live \ Live' : \E j \in Live' \ Live : SameFlow(flows[i], flows'[j])}

\* flow_entry_remove: whatever an entry left for, the controllers are told once,
\* if they asked for it, and are never told about one that stays.  Only an entry
\* that its own ADD replaced may go without a message.
Announced ==
  LET gone == {i \in Live \ Live' : flows[i].send_removed}
      told == {n.id : n \in out'.removed}
  IN  /\ told \subseteq gone
      /\ gone \ told \subseteq ReplacedNow
      /\ Cardinality(told) = Cardinality(out'.removed)

LeavingIsAnnounced == [][Announced]_vars

\* The set of the entries is what flow_table.h promises: an ADD installs one flow
\* in place of the same one, at the cost of the least recently used one when the
\* table is full; deletions and sweeps take exactly the flows they should; a packet
\* touches one flow of the highest priority.  Lists, names and counter do not show.
Map == INSTANCE FlowMap WITH table <- {flows[i] : i \in Live}, clock <- now, Room <- MaxEntries

ImplementsFlowMap == Map!Spec

\* "Entries in priority and then insertion order" (flow_table.h): entries that
\* stay keep their order, and a new one goes behind those of its priority,
\* unless it took the place of another.
OrderKept ==
  /\ \A a, b \in Live \cap Live' :
       Precedes(match_entries, a, b) => Precedes(match_entries', a, b)
  /\ \A new \in Live' \ Live : \A a \in Live \cap Live' :
       /\ flows'[a].priority = flows'[new].priority
       /\ \A old \in Live \ Live' : ~SameFlow(flows[old], flows'[new])
       => Precedes(match_entries', a, new)

InsertionOrder == [][OrderKept]_vars

\* The entries whose flow is predicted to be over.
Inactive == {i \in Live : /\ ~IsAllMatch(flows[i])
                          /\ flows[i].match \in DOMAIN FlowKeys
                          /\ IsOver(FlowKeys[flows[i].match])}

\* ml_evict never takes the all-match entry, and takes an entry whose flow is
\* predicted to be over only if no other of those was idle for longer.
EvictedWell ==
  \A v \in out'.evicted \cap Live :
    /\ ~IsAllMatch(flows[v])
    /\ v \in Inactive => \A i \in Inactive : flows[v].last_used <= flows[i].last_used

MlEvictsWell == [][EvictedWell]_vars

\* A hard timeout before the end of the clock is served in the end, and so is an
\* idle timeout of an entry that no packet uses again.
TimeoutsServed ==
  /\ \A i \in Ids :
       (i \in Live /\ flows[i].remove_at \in 1..(MaxNow - 1)) ~> (crashed \/ i \notin Live)
  /\ \A i \in Ids : \A t \in 1..(MaxNow - 2) :
       (i \in Live /\ flows[i].last_used = t /\ flows[i].idle \in 1..(MaxNow - 1 - t))
         ~> (crashed \/ i \notin Live \/ flows[i].last_used # t)
=============================================================================
