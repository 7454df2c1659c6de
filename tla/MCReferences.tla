---------------------------- MODULE MCReferences ----------------------------
(***************************************************************************)
(* An instance of References for TLC: three groups that may forward to     *)
(* each other in loops of one, two and three, a fourth for which the table *)
(* may have no room, two meters for one place and two flow entries.  An    *)
(* entry names one meter at most, as OpenFlow asks of its instructions.    *)
(***************************************************************************)
EXTENDS References, TLC

CONSTANTS f1, f2, g1, g2, g3, g4, m1, m2

Symmetry == Permutations(Flows)

ChainsOf == (g1 :> {{}, {g2}}) @@ (g2 :> {{}, {g3}}) @@ (g3 :> {{}, {g3}, {g1, g2}})
            @@ (g4 :> {{}})

\* A bucket for each group that is forwarded to; g4 fills the table with buckets.
MCGroupMods == UNION {{[id |-> g, buckets |-> IF g = g4 THEN MaxBuckets ELSE Cardinality(C), chain |-> C] :
                          C \in ChainsOf[g]} : g \in GroupIds}

\* The last one has more bands than the table has room for.
MCMeterMods == {[id |-> m1, bands |-> 1], [id |-> m1, bands |-> 2],
                [id |-> m2, bands |-> 1], [id |-> m2, bands |-> MaxBands + 1]}

MCInsts == {[groups |-> {}, meters |-> {m1}], [groups |-> {g1}, meters |-> {m1}],
            [groups |-> {g2}, meters |-> {}]}
=============================================================================
