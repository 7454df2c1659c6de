--------------------------- MODULE FlowTableProofs ---------------------------
(***************************************************************************)
(* Proofs about FlowTable, for every set of entries, packets and           *)
(* flow-mods, every table size and every clock.                            *)
(*                                                                         *)
(* The lemmas of the first half say what one loop or one insertion does to *)
(* a list of entries f, apart from the state; each action of the table is  *)
(* a combination of them.                                                  *)
(*                                                                         *)
(* The last part is about the comparison of two matches, StandardMatch.    *)
(***************************************************************************)
EXTENDS ComparedMatches, ListLemmas

\* The entries f without R, and with the entry e under the name id.
Kept(f, R) == [i \in DOMAIN f \ R |-> f[i]]
Plus(f, id, e) == [i \in DOMAIN f \cup {id} |-> IF i = id THEN e ELSE f[i]]

\* m lists the entries f once each, higher priorities first.
MatchOK(f, m) ==
  /\ m \in Seq(DOMAIN f) /\ NoRepeats(m) /\ ToSet(m) = DOMAIN f
  /\ \A i, j \in 1..Len(m) : i < j => f[m[i]].priority >= f[m[j]].priority
  /\ \A i, j \in DOMAIN f : SameFlow(f[i], f[j]) => i = j

\* h lists the entries with a hard timeout, the first to end first.
HardOK(f, h) ==
  /\ h \in Seq(DOMAIN f) /\ NoRepeats(h) /\ ToSet(h) = {i \in DOMAIN f : f[i].remove_at # 0}
  /\ \A i, j \in 1..Len(h) : i < j => f[h[i]].remove_at <= f[h[j]].remove_at

\* d lists the entries with an idle timeout.
IdleOK(f, d) ==
  d \in Seq(DOMAIN f) /\ NoRepeats(d) /\ ToSet(d) = {i \in DOMAIN f : f[i].idle # 0}

-----------------------------------------------------------------------------
\* Unlinking entries from the match list.
LEMMA MatchRemove ==
  ASSUME NEW D, NEW f \in [D -> Flow], NEW m, MatchOK(f, m), NEW R \in SUBSET D
  PROVE  /\ MatchOK(Kept(f, R), Without(m, R))
         /\ IsFiniteSet(R)
         /\ Cardinality(R) \in Nat /\ Len(m) - Cardinality(R) \in Nat
         /\ Len(Without(m, R)) = Len(m) - Cardinality(R)
<1> DEFINE s == Without(m, R)
           g == Kept(f, R)
<1>1. m \in Seq(D) /\ NoRepeats(m) /\ ToSet(m) = D BY DEF MatchOK
<1>2. s \in Seq(D \ R) /\ KeepsOrder(s, m) /\ ToSet(s) = D \ R BY <1>1, WithoutShape
<1>3. NoRepeats(s) BY <1>1, WithoutNoRepeats
<1>4. DOMAIN g = D \ R /\ \A i \in D \ R : g[i] = f[i] BY DEF Kept
<1> HIDE DEF s, g
<1>5. ASSUME NEW i \in 1..Len(s), NEW j \in 1..Len(s), i < j
      PROVE  g[s[i]].priority >= g[s[j]].priority
  <2>1. PICK a \in 1..Len(m), b \in 1..Len(m) : a < b /\ s[i] = m[a] /\ s[j] = m[b]
    BY <1>2, <1>5 DEF KeepsOrder
  <2>2. f[m[a]].priority >= f[m[b]].priority BY <2>1 DEF MatchOK
  <2>3. s[i] \in D \ R /\ s[j] \in D \ R BY <1>2
  <2>4. QED BY <2>1, <2>2, <2>3, <1>4
<1>6. \A i, j \in DOMAIN g : SameFlow(g[i], g[j]) => i = j BY <1>4 DEF MatchOK
<1>7. MatchOK(g, s) BY <1>2, <1>3, <1>4, <1>5, <1>6 DEF MatchOK
<1>8. IsFiniteSet(D) /\ Cardinality(D) = Len(m) BY <1>1, LenIsCardinality
<1>9. IsFiniteSet(D \ R) /\ Cardinality(D \ R) = Len(s) BY <1>2, <1>3, LenIsCardinality
<1>10. IsFiniteSet(R) BY <1>8, FS_Subset
<1>11. Cardinality(D \ R) = Cardinality(D) - Cardinality(R)
  <2>1. D \cap R = R OBVIOUS
  <2>2. QED BY <2>1, <1>8, FS_Difference
<1>12. Cardinality(R) \in Nat BY <1>10, FS_CardinalityType
<1>13. Len(s) \in Nat /\ Len(m) \in Nat BY <1>1, <1>2
<1>14. QED BY <1>7, <1>8, <1>9, <1>10, <1>11, <1>12, <1>13 DEF s, g

\* Unlinking entries from the hard list; R may hold names that are not in it.
LEMMA HardRemove ==
  ASSUME NEW D, NEW f \in [D -> Flow], NEW h, HardOK(f, h), NEW R
  PROVE  HardOK(Kept(f, R), Without(h, R))
<1> DEFINE s == Without(h, R)
           g == Kept(f, R)
<1>1. h \in Seq(D) /\ NoRepeats(h) /\ ToSet(h) = {i \in D : f[i].remove_at # 0} BY DEF HardOK
<1>2. s \in Seq(D \ R) /\ KeepsOrder(s, h) /\ ToSet(s) = ToSet(h) \ R BY <1>1, WithoutShape
<1>3. NoRepeats(s) BY <1>1, WithoutNoRepeats
<1>4. DOMAIN g = D \ R /\ \A i \in D \ R : g[i] = f[i] BY DEF Kept
<1> HIDE DEF s, g
<1>5. ASSUME NEW i \in 1..Len(s), NEW j \in 1..Len(s), i < j
      PROVE  g[s[i]].remove_at <= g[s[j]].remove_at
  <2>1. PICK a \in 1..Len(h), b \in 1..Len(h) : a < b /\ s[i] = h[a] /\ s[j] = h[b]
    BY <1>2, <1>5 DEF KeepsOrder
  <2>2. f[h[a]].remove_at <= f[h[b]].remove_at BY <2>1 DEF HardOK
  <2>3. s[i] \in D \ R /\ s[j] \in D \ R BY <1>2
  <2>4. QED BY <2>1, <2>2, <2>3, <1>4
<1>6. ToSet(s) = {i \in D \ R : g[i].remove_at # 0} BY <1>1, <1>2, <1>4
<1>7. HardOK(g, s) BY <1>2, <1>3, <1>4, <1>5, <1>6 DEF HardOK
<1>8. QED BY <1>7 DEF s, g

\* The same for the idle list.
LEMMA IdleRemove ==
  ASSUME NEW D, NEW f \in [D -> Flow], NEW d, IdleOK(f, d), NEW R
  PROVE  IdleOK(Kept(f, R), Without(d, R))
<1> DEFINE s == Without(d, R)
           g == Kept(f, R)
<1>1. d \in Seq(D) /\ NoRepeats(d) /\ ToSet(d) = {i \in D : f[i].idle # 0} BY DEF IdleOK
<1>2. s \in Seq(D \ R) /\ ToSet(s) = ToSet(d) \ R BY <1>1, WithoutShape
<1>3. NoRepeats(s) BY <1>1, WithoutNoRepeats
<1>4. DOMAIN g = D \ R /\ \A i \in D \ R : g[i] = f[i] BY DEF Kept
<1> HIDE DEF s, g
<1>5. ToSet(s) = {i \in D \ R : g[i].idle # 0} BY <1>1, <1>2, <1>4
<1>6. IdleOK(g, s) BY <1>2, <1>3, <1>4, <1>5 DEF IdleOK
<1>7. QED BY <1>6 DEF s, g

\* An entry e put at the position k of the match list, behind all entries of its
\* priority and higher ones, and before all others.
LEMMA MatchInsert ==
  ASSUME NEW D, NEW f \in [D -> Flow], NEW m, MatchOK(f, m),
         NEW id, id \notin D, NEW e \in Flow, NEW k \in 1..(Len(m) + 1),
         \A i \in 1..Len(m) : i < k => /\ f[m[i]].priority >= e.priority
                                       /\ ~SameFlow(f[m[i]], e),
         k \in 1..Len(m) => e.priority > f[m[k]].priority
  PROVE  /\ MatchOK(Plus(f, id, e), InsertAt(m, k, id))
         /\ Len(InsertAt(m, k, id)) = Len(m) + 1
<1> DEFINE s == InsertAt(m, k, id)
           g == Plus(f, id, e)
           E == D \cup {id}
<1>1. m \in Seq(D) /\ NoRepeats(m) /\ ToSet(m) = D BY DEF MatchOK
<1>2. m \in Seq(E) /\ id \in E /\ id \notin ToSet(m) BY <1>1, SeqMonotonic
<1>0. s \in Seq(E) /\ Inserted(s, m, k, id) BY <1>2, InsertAtShape
<1>4. ToSet(s) = E /\ NoRepeats(s) BY <1>1, <1>2, InsertAtElements
<1>5. DOMAIN g = E /\ g[id] = e /\ \A i \in D : g[i] = f[i] BY DEF Plus
<1> HIDE DEF s, g
<1>3. /\ s \in Seq(E) /\ Len(s) = Len(m) + 1
      /\ \A i \in 1..(Len(m) + 1) : s[i] = IF i < k THEN m[i] ELSE IF i = k THEN id ELSE m[i - 1]
  BY <1>0 DEF Inserted
<1>6. Len(m) \in Nat /\ k \in Nat /\ (\A i \in 1..Len(m) : m[i] \in D) BY <1>1
<1>7. \A i \in D : f[i].priority \in Nat BY DEF Flow
<1>8. e.priority \in Nat BY DEF Flow
\* What stands before the position of the new entry, and what behind it.
<1>15. ASSUME NEW i \in 1..(Len(m) + 1), i < k PROVE s[i] = m[i] /\ i \in 1..Len(m)
  <2>1. i \in 1..Len(m) BY <1>15, <1>6
  <2>2. QED BY <2>1, <1>3, <1>15
<1>16. ASSUME NEW i \in 1..(Len(m) + 1), k < i
       PROVE  s[i] = m[i - 1] /\ i - 1 \in 1..Len(m) /\ i - 1 >= k
  <2>1. i - 1 \in 1..Len(m) /\ i - 1 >= k BY <1>16, <1>6
  <2>2. ~(i < k) /\ i # k BY <1>16, <1>6
  <2>3. QED BY <2>1, <2>2, <1>3
\* Every entry from position k on has a lower priority than e.
<1>9. ASSUME NEW i \in 1..Len(m), i >= k PROVE e.priority > f[m[i]].priority
  <2>1. k \in 1..Len(m) BY <1>6, <1>9
  <2>2. k = i \/ f[m[k]].priority >= f[m[i]].priority BY <1>9, <2>1 DEF MatchOK
  <2>3. QED BY <2>1, <2>2, <1>6, <1>7, <1>8
<1>10. ASSUME NEW i \in 1..Len(s), NEW j \in 1..Len(s), i < j
       PROVE  g[s[i]].priority >= g[s[j]].priority
  <2>0. i \in 1..(Len(m) + 1) /\ j \in 1..(Len(m) + 1) BY <1>3
  <2>1. CASE j < k
    <3>1. s[i] = m[i] /\ s[j] = m[j] /\ i \in 1..Len(m) /\ j \in 1..Len(m)
      BY <2>0, <2>1, <1>3, <1>6, <1>10
    <3>2. f[m[i]].priority >= f[m[j]].priority BY <3>1, <1>10 DEF MatchOK
    <3>3. QED BY <3>1, <3>2, <1>5, <1>6
  <2>2. CASE j = k
    <3>1. s[i] = m[i] /\ s[j] = id /\ i \in 1..Len(m) BY <2>0, <2>2, <1>3, <1>6, <1>10
    <3>2. QED BY <3>1, <2>2, <1>5, <1>6, <1>10
  <2>3. CASE i < k /\ k < j
    <3>1. s[i] = m[i] /\ s[j] = m[j - 1] /\ i \in 1..Len(m) /\ j - 1 \in 1..Len(m) /\ j - 1 >= k
      BY <2>0, <2>3, <1>15, <1>16
    <3>2. f[m[i]].priority >= e.priority BY <3>1, <2>3
    <3>3. e.priority > f[m[j - 1]].priority BY <3>1, <1>9
    <3>4. m[i] \in D /\ m[j - 1] \in D BY <3>1, <1>6
    <3>5. QED BY <3>1, <3>2, <3>3, <3>4, <1>5, <1>7, <1>8
  <2>4. CASE i = k
    <3>1. s[i] = id /\ s[j] = m[j - 1] /\ j - 1 \in 1..Len(m) /\ j - 1 >= k
      BY <2>0, <2>4, <1>3, <1>6, <1>10
    <3>2. e.priority > f[m[j - 1]].priority BY <3>1, <1>9
    <3>3. m[j - 1] \in D BY <3>1, <1>6
    <3>4. QED BY <3>1, <3>2, <3>3, <1>5, <1>7, <1>8
  <2>5. CASE i > k
    <3>1. /\ s[i] = m[i - 1] /\ i - 1 \in 1..Len(m)
          /\ s[j] = m[j - 1] /\ j - 1 \in 1..Len(m) /\ i - 1 < j - 1
      BY <2>0, <2>5, <1>3, <1>6, <1>10
    <3>2. f[m[i - 1]].priority >= f[m[j - 1]].priority BY <3>1 DEF MatchOK
    <3>3. m[i - 1] \in D /\ m[j - 1] \in D BY <3>1, <1>6
    <3>4. QED BY <3>1, <3>2, <3>3, <1>5
  <2>6. QED BY <2>0, <2>1, <2>2, <2>3, <2>4, <2>5, <1>6, <1>10
\* No entry that was there is of the same flow as e.
<1>11. ASSUME NEW i \in D PROVE ~SameFlow(f[i], e) /\ ~SameFlow(e, f[i])
  <2>1. PICK n \in 1..Len(m) : m[n] = i BY <1>1 DEF ToSet
  <2>2. CASE n < k BY <2>1, <2>2 DEF SameFlow
  <2>3. CASE n >= k
    <3>1. e.priority > f[i].priority BY <2>1, <2>3, <1>9
    <3>2. e.priority # f[i].priority BY <3>1, <1>7, <1>8
    <3>3. QED BY <3>2 DEF SameFlow
  <2>4. QED BY <2>2, <2>3, <1>6
<1>12. ASSUME NEW i \in E, NEW j \in E, SameFlow(g[i], g[j]) PROVE i = j
  <2>1. CASE i = id /\ j = id BY <2>1
  <2>2. CASE i \in D /\ j = id BY <2>2, <1>5, <1>11, <1>12
  <2>3. CASE i = id /\ j \in D BY <2>3, <1>5, <1>11, <1>12
  <2>4. CASE i \in D /\ j \in D BY <2>4, <1>5, <1>12 DEF MatchOK
  <2>5. QED BY <2>1, <2>2, <2>3, <2>4
<1>13. MatchOK(g, s) BY <1>3, <1>4, <1>5, <1>10, <1>12 DEF MatchOK
<1>14. QED BY <1>3, <1>13 DEF s, g

\* An entry e takes the place of the entry old of the same flow.
LEMMA MatchReplace ==
  ASSUME NEW D, NEW f \in [D -> Flow], NEW m, MatchOK(f, m),
         NEW id, id \notin D, NEW e \in Flow, NEW old \in D, SameFlow(f[old], e)
  PROVE  /\ MatchOK(Plus(Kept(f, {old}), id, e), ReplaceAll(m, old, id))
         /\ Len(ReplaceAll(m, old, id)) = Len(m)
<1> DEFINE s == ReplaceAll(m, old, id)
           g == Plus(Kept(f, {old}), id, e)
           E == (D \ {old}) \cup {id}
<1>1. m \in Seq(D) /\ NoRepeats(m) /\ ToSet(m) = D BY DEF MatchOK
<1>0. s \in Seq(E) /\ Replaced(s, m, old, id) /\ ToSet(s) = E /\ NoRepeats(s)
  <2>1. old \in ToSet(m) /\ id \notin ToSet(m) BY <1>1
  <2> HIDE DEF g, E
  <2>2. s \in Seq((D \ {old}) \cup {id}) BY <1>1, <2>1, ReplaceAllElements
  <2>3. Replaced(s, m, old, id) BY <1>1, <2>1, ReplaceAllElements
  <2>4. Swapped(s, m, old, id)
    BY <1>1, <2>1, ReplaceAllElements
  <2>5. NoRepeats(s) BY <1>1, <2>1, ReplaceAllElements
  <2>6. QED BY <1>1, <2>2, <2>3, <2>4, <2>5 DEF E, Swapped
<1>3. DOMAIN g = E /\ g[id] = e /\ \A i \in D \ {old} : g[i] = f[i] BY DEF Plus, Kept
<1> HIDE DEF s, g
<1>2. /\ s \in Seq(E) /\ Len(s) = Len(m) /\ ToSet(s) = E /\ NoRepeats(s)
      /\ \A i \in 1..Len(m) : s[i] = IF m[i] = old THEN id ELSE m[i]
  BY <1>0 DEF Replaced
<1>4. \A i \in 1..Len(m) : m[i] \in D BY <1>1
<1>5. e.priority = f[old].priority /\ e.match = f[old].match BY DEF SameFlow
\* The entry at a position keeps its priority.
<1>6. \A i \in 1..Len(m) : g[s[i]].priority = f[m[i]].priority BY <1>2, <1>3, <1>4, <1>5
<1>7. ASSUME NEW i \in 1..Len(s), NEW j \in 1..Len(s), i < j
      PROVE  g[s[i]].priority >= g[s[j]].priority
  <2>1. f[m[i]].priority >= f[m[j]].priority BY <1>2, <1>7 DEF MatchOK
  <2>2. QED BY <2>1, <1>2, <1>6
<1>8. ASSUME NEW i \in E, NEW j \in E, SameFlow(g[i], g[j]) PROVE i = j
  <2>1. CASE i = id /\ j = id BY <2>1
  <2>2. CASE i \in D \ {old} /\ j = id
    <3>1. SameFlow(f[i], f[old]) BY <2>2, <1>3, <1>5, <1>8 DEF SameFlow
    <3>2. QED BY <3>1, <2>2 DEF MatchOK
  <2>3. CASE i = id /\ j \in D \ {old}
    <3>1. SameFlow(f[old], f[j]) BY <2>3, <1>3, <1>5, <1>8 DEF SameFlow
    <3>2. QED BY <3>1, <2>3 DEF MatchOK
  <2>4. CASE i \in D \ {old} /\ j \in D \ {old} BY <2>4, <1>3, <1>8 DEF MatchOK
  <2>5. QED BY <2>1, <2>2, <2>3, <2>4
<1>9. MatchOK(g, s) BY <1>2, <1>3, <1>7, <1>8 DEF MatchOK
<1>10. QED BY <1>2, <1>9 DEF s, g

\* add_to_timeout_lists: the position of an entry e in the hard list.
HardPos(f, h, e) == FirstOf(h, {i \in 1..Len(h) : f[h[i]].remove_at > e.remove_at})

\* add_to_timeout_lists: the hard list stays in the order of the removal times.
LEMMA HardAdd ==
  ASSUME NEW D, NEW f \in [D -> Flow], NEW h, HardOK(f, h),
         NEW id, id \notin D, NEW e \in Flow
  PROVE  HardOK(Plus(f, id, e),
                IF e.remove_at = 0 THEN h ELSE InsertAt(h, HardPos(f, h, e), id))
<1> DEFINE g == Plus(f, id, e)
           k == HardPos(f, h, e)
           s == InsertAt(h, k, id)
           E == D \cup {id}
           P == {i \in 1..Len(h) : f[h[i]].remove_at > e.remove_at}
<1>1. h \in Seq(D) /\ NoRepeats(h) /\ ToSet(h) = {i \in D : f[i].remove_at # 0} BY DEF HardOK
<1>2. h \in Seq(E) /\ id \in E /\ id \notin ToSet(h) BY <1>1, SeqMonotonic
<1>3. DOMAIN g = E /\ g[id] = e /\ \A i \in D : g[i] = f[i] BY DEF Plus
<1>4. /\ k \in 1..(Len(h) + 1) /\ k \in P \cup {Len(h) + 1}
      /\ \A i \in P : k <= i
  <2>1. P \in SUBSET (1..Len(h)) OBVIOUS
  <2> HIDE DEF P
  <2>2. k = FirstOf(h, P) BY DEF HardPos, P
  <2>3. QED BY <1>1, <2>1, <2>2, FirstOfIsFirst
<1>5. s \in Seq(E) /\ Inserted(s, h, k, id) BY <1>2, <1>4, InsertAtShape
<1>6. ToSet(s) = ToSet(h) \cup {id} /\ NoRepeats(s) BY <1>1, <1>2, <1>4, InsertAtElements
<1> HIDE DEF s, g, k
<1>7. /\ Len(s) = Len(h) + 1
      /\ \A i \in 1..(Len(h) + 1) : s[i] = IF i < k THEN h[i] ELSE IF i = k THEN id ELSE h[i - 1]
  BY <1>5 DEF Inserted
<1>8. Len(h) \in Nat /\ k \in Nat /\ (\A i \in 1..Len(h) : h[i] \in D) BY <1>1, <1>4
<1>9. (\A i \in D : f[i].remove_at \in Nat) /\ e.remove_at \in Nat BY DEF Flow
<1>10. CASE e.remove_at = 0
  <2>1. ToSet(h) = {i \in E : g[i].remove_at # 0} BY <1>1, <1>3, <1>10
  <2>2. ASSUME NEW i \in 1..Len(h), NEW j \in 1..Len(h), i < j
        PROVE  g[h[i]].remove_at <= g[h[j]].remove_at
    <3>1. f[h[i]].remove_at <= f[h[j]].remove_at BY <2>2 DEF HardOK
    <3>2. QED BY <3>1, <1>3, <1>8
  <2>3. HardOK(g, h) BY <1>1, <1>2, <1>3, <2>1, <2>2 DEF HardOK
  <2>4. QED BY <2>3, <1>10 DEF g
<1>11. CASE e.remove_at # 0
  <2>1. ToSet(s) = {i \in E : g[i].remove_at # 0} BY <1>1, <1>3, <1>6, <1>11
  <2>2. ASSUME NEW i \in 1..Len(h), i < k PROVE f[h[i]].remove_at <= e.remove_at
    <3>1. i \notin P BY <1>4, <1>8, <2>2
    <3>2. QED BY <3>1, <1>8, <1>9
  <2>3. ASSUME NEW i \in 1..Len(h), i >= k PROVE e.remove_at <= f[h[i]].remove_at
    <3>1. k \in P BY <1>4, <1>8, <2>3
    <3>2. k = i \/ f[h[k]].remove_at <= f[h[i]].remove_at BY <3>1, <1>8, <2>3 DEF HardOK
    <3>3. QED BY <3>1, <3>2, <1>8, <1>9
  <2>4. ASSUME NEW i \in 1..Len(s), NEW j \in 1..Len(s), i < j
        PROVE  g[s[i]].remove_at <= g[s[j]].remove_at
    <3>0. i \in 1..(Len(h) + 1) /\ j \in 1..(Len(h) + 1) BY <1>7
    <3>1. CASE j < k
      <4>1. s[i] = h[i] /\ s[j] = h[j] /\ i \in 1..Len(h) /\ j \in 1..Len(h)
        BY <3>0, <3>1, <1>4, <1>7, <1>8, <2>4
      <4>2. f[h[i]].remove_at <= f[h[j]].remove_at BY <4>1, <2>4 DEF HardOK
      <4>3. QED BY <4>1, <4>2, <1>3, <1>8
    <3>2. CASE j = k
      <4>1. s[i] = h[i] /\ s[j] = id /\ i \in 1..Len(h) BY <3>0, <3>2, <1>7, <1>8, <2>4
      <4>2. QED BY <4>1, <3>2, <1>3, <1>8, <2>2, <2>4
    <3>3. CASE i < k /\ k < j
      <4>1. s[i] = h[i] /\ s[j] = h[j - 1] /\ i \in 1..Len(h) /\ j - 1 \in 1..Len(h) /\ j - 1 >= k
        BY <3>0, <3>3, <1>4, <1>7, <1>8
      <4>2. f[h[i]].remove_at <= e.remove_at BY <4>1, <3>3, <2>2
      <4>3. e.remove_at <= f[h[j - 1]].remove_at BY <4>1, <2>3
      <4>4. h[i] \in D /\ h[j - 1] \in D BY <4>1, <1>8
      <4>5. QED BY <4>1, <4>2, <4>3, <4>4, <1>3, <1>9
    <3>4. CASE i = k
      <4>1. s[i] = id /\ s[j] = h[j - 1] /\ j - 1 \in 1..Len(h) /\ j - 1 >= k
        BY <3>0, <3>4, <1>7, <1>8, <2>4
      <4>2. e.remove_at <= f[h[j - 1]].remove_at BY <4>1, <2>3
      <4>3. QED BY <4>1, <4>2, <1>3, <1>8
    <3>5. CASE i > k
      <4>1. /\ s[i] = h[i - 1] /\ i - 1 \in 1..Len(h)
            /\ s[j] = h[j - 1] /\ j - 1 \in 1..Len(h) /\ i - 1 < j - 1
        <5>1. i - 1 \in 1..Len(h) /\ j - 1 \in 1..Len(h) /\ i - 1 < j - 1 /\ j > k
          <6>1. i \in Int /\ j \in Int /\ k >= 1 BY <3>0, <1>4
          <6>2. k < i /\ i < j /\ j <= Len(h) + 1 BY <3>0, <3>5, <2>4
          <6>3. QED BY <6>1, <6>2, <1>8
        <5>2. s[i] = h[i - 1] BY <3>0, <3>5, <1>7, <1>8
        <5>3. s[j] = h[j - 1] BY <3>0, <5>1, <1>7, <1>8
        <5>4. QED BY <5>1, <5>2, <5>3
      <4>2. f[h[i - 1]].remove_at <= f[h[j - 1]].remove_at BY <4>1 DEF HardOK
      <4>3. QED BY <4>1, <4>2, <1>3, <1>8
    <3>6. QED BY <3>0, <3>1, <3>2, <3>3, <3>4, <3>5, <1>8, <2>4
  <2>5. HardOK(g, s) BY <1>3, <1>5, <1>6, <2>1, <2>4 DEF HardOK
  <2>6. QED BY <2>5, <1>11 DEF g, s, k
<1>12. QED BY <1>10, <1>11

\* add_to_timeout_lists: the idle list.
LEMMA IdleAdd ==
  ASSUME NEW D, NEW f \in [D -> Flow], NEW d, IdleOK(f, d),
         NEW id, id \notin D, NEW e \in Flow
  PROVE  IdleOK(Plus(f, id, e), IF e.idle > 0 THEN Append(d, id) ELSE d)
<1> DEFINE g == Plus(f, id, e)
           E == D \cup {id}
<1>1. d \in Seq(D) /\ NoRepeats(d) /\ ToSet(d) = {i \in D : f[i].idle # 0} BY DEF IdleOK
<1>2. d \in Seq(E) /\ id \in E /\ id \notin ToSet(d) BY <1>1, SeqMonotonic
<1>3. DOMAIN g = E /\ g[id] = e /\ \A i \in D : g[i] = f[i] BY DEF Plus
<1>4. e.idle \in Nat BY DEF Flow
<1> HIDE DEF g
<1>5. CASE e.idle > 0
  <2>1. /\ Append(d, id) \in Seq(E) /\ NoRepeats(Append(d, id))
        /\ ToSet(Append(d, id)) = ToSet(d) \cup {id}
    BY <1>1, <1>2, AppendElements
  <2>2. ToSet(Append(d, id)) = {i \in E : g[i].idle # 0} BY <1>1, <1>3, <1>4, <1>5, <2>1
  <2>3. IdleOK(g, Append(d, id)) BY <1>3, <2>1, <2>2 DEF IdleOK
  <2>4. QED BY <1>5, <2>3 DEF g
<1>6. CASE ~(e.idle > 0)
  <2>1. ToSet(d) = {i \in E : g[i].idle # 0} BY <1>1, <1>3, <1>4, <1>6
  <2>2. IdleOK(g, d) BY <1>1, <1>2, <1>3, <2>1 DEF IdleOK
  <2>3. QED BY <1>6, <2>2 DEF g
<1>7. QED BY <1>5, <1>6

-----------------------------------------------------------------------------
(* The inductive invariant                                                   *)

\* The entries have their type and the lists agree with them and are in order.
Shape ==
  /\ DOMAIN flows \subseteq Ids /\ flows \in [DOMAIN flows -> Flow]
  /\ MatchOK(flows, match_entries)
  /\ HardOK(flows, hard_entries)
  /\ IdleOK(flows, idle_entries)

\* The type of everything else.
RestOK ==
  /\ active_count \in Nat
  /\ max_entries \in Nat
  /\ installed \subseteq SUBSET Packets
  /\ DOMAIN flow_end \subseteq Keys /\ flow_end \in [DOMAIN flow_end -> Nat]
  /\ now \in Nat
  /\ crashed \in BOOLEAN

-----------------------------------------------------------------------------
\* Removing live entries keeps the lists right, and takes each out of the count.
LEMMA RemoveFlowsStep ==
  ASSUME Shape, NEW R \in SUBSET Live, RemoveFlows(R)
  PROVE  /\ Shape'
         /\ Cardinality(R) \in Nat /\ Len(match_entries) - Cardinality(R) \in Nat
         /\ Len(match_entries') = Len(match_entries) - Cardinality(R)
<1> DEFINE D == DOMAIN flows
<1>1. flows \in [D -> Flow] /\ MatchOK(flows, match_entries)
      /\ HardOK(flows, hard_entries) /\ IdleOK(flows, idle_entries) /\ R \in SUBSET D
  BY DEF Shape, Live
<1>2. flows' = Kept(flows, R) BY DEF RemoveFlows, Kept, Live
<1>3. /\ match_entries' = Without(match_entries, R)
      /\ hard_entries' = Without(hard_entries, R)
      /\ idle_entries' = Without(idle_entries, R)
  BY DEF RemoveFlows
<1> HIDE DEF D
<1>4. /\ MatchOK(flows', match_entries')
      /\ Cardinality(R) \in Nat /\ Len(match_entries) - Cardinality(R) \in Nat
      /\ Len(match_entries') = Len(match_entries) - Cardinality(R)
  BY <1>1, <1>2, <1>3, MatchRemove
<1>5. HardOK(flows', hard_entries') BY <1>1, <1>2, <1>3, HardRemove
<1>6. IdleOK(flows', idle_entries') BY <1>1, <1>2, <1>3, IdleRemove
<1>7. DOMAIN flows' \subseteq Ids /\ flows' \in [DOMAIN flows' -> Flow]
  BY <1>2 DEF Kept, Shape
<1>8. QED BY <1>4, <1>5, <1>6, <1>7 DEF Shape

\* The hard list of add_to_timeout_lists, for the entries g that hold the list h.
LEMMA AddHardIsHardPos ==
  ASSUME NEW g, NEW h \in Seq(DOMAIN g), NEW id, NEW e,
         \A i \in DOMAIN g : g[i] = flows[i]
  PROVE  AddHard(h, id, e) =
           IF e.remove_at = 0 THEN h ELSE InsertAt(h, HardPos(g, h, e), id)
<1>1. \A i \in 1..Len(h) : h[i] \in DOMAIN g OBVIOUS
<1>2. {i \in 1..Len(h) : flows[h[i]].remove_at > e.remove_at}
        = {i \in 1..Len(h) : g[h[i]].remove_at > e.remove_at}
  BY <1>1
<1>3. QED BY <1>2 DEF AddHard, HardPos

\* Both timeout lists once the entries Q have left and e has come.
LEMMA TimeoutLists ==
  ASSUME Shape, NEW Q \in SUBSET Live, NEW id \in Ids \ Live, NEW e \in Flow
  PROVE  /\ HardOK(Plus(Kept(flows, Q), id, e), AddHard(Without(hard_entries, Q), id, e))
         /\ IdleOK(Plus(Kept(flows, Q), id, e), AddIdle(Without(idle_entries, Q), id, e))
<1> DEFINE D == DOMAIN flows
           f == Kept(flows, Q)
           E == DOMAIN f
           h == Without(hard_entries, Q)
           d == Without(idle_entries, Q)
           g == Plus(f, id, e)
<1>1. flows \in [D -> Flow] /\ HardOK(flows, hard_entries) /\ IdleOK(flows, idle_entries)
  BY DEF Shape
<1>2. HardOK(f, h) BY <1>1, HardRemove
<1>3. IdleOK(f, d) BY <1>1, IdleRemove
<1>4. f \in [E -> Flow] /\ id \notin E /\ (\A i \in E : f[i] = flows[i])
  BY <1>1 DEF Kept, Live
<1>5. h \in Seq(E) BY <1>2 DEF HardOK
<1> HIDE DEF D, f, E, h, d
<1>6. HardOK(g, IF e.remove_at = 0 THEN h ELSE InsertAt(h, HardPos(f, h, e), id))
  BY <1>2, <1>4, HardAdd
<1>7. AddHard(h, id, e) = IF e.remove_at = 0 THEN h ELSE InsertAt(h, HardPos(f, h, e), id)
  BY <1>4, <1>5, AddHardIsHardPos DEF E
<1>8. IdleOK(g, IF e.idle > 0 THEN Append(d, id) ELSE d) BY <1>3, <1>4, IdleAdd
<1>9. AddIdle(d, id, e) = IF e.idle > 0 THEN Append(d, id) ELSE d BY DEF AddIdle
<1>10. HardOK(g, AddHard(h, id, e)) BY <1>6, <1>7
<1>11. IdleOK(g, AddIdle(d, id, e)) BY <1>8, <1>9
<1>12. QED BY <1>10, <1>11 DEF f, h, d

\* The entry that flow_entry_create makes from a flow-mod.
LEMMA NewFlowType ==
  ASSUME NEW mod \in FlowMods, now \in Nat
  PROVE  /\ NewFlow(mod) \in Flow
         /\ NewFlow(mod).priority = mod.priority /\ NewFlow(mod).match = mod.match
         /\ mod.priority \in Nat
<1>1. mod \in FlowMod BY FlowModsAssumption
<1>2. mod.hard \in Nat /\ mod.idle \in Nat /\ mod.priority \in Nat /\ mod.match \in SUBSET Packets
      /\ mod.cookie \in SUBSET CookieBits /\ mod.insts \in SUBSET Outputs
      /\ mod.send_removed \in BOOLEAN
  BY <1>1 DEF FlowMod
<1>3. (IF mod.hard = 0 THEN 0 ELSE now + mod.hard) \in Nat BY <1>2
<1>4. QED BY <1>2, <1>3 DEF NewFlow, Flow

\* The entries left by R, and where the loop for mod stops among them.
LEMMA StopPosition ==
  ASSUME Shape, NEW R \in SUBSET Live, NEW mod,
         NEW s, s = Without(match_entries, R)
  PROVE  /\ s \in Seq(Live \ R)
         /\ Stop(R, mod) \in 1..(Len(s) + 1)
         /\ \A i \in 1..Len(s) : i < Stop(R, mod) =>
              /\ ~SameFlow(flows[s[i]], mod) /\ ~(mod.priority > flows[s[i]].priority)
              /\ ~(mod.check_overlap /\ Overlaps(flows[s[i]], mod))
         /\ Stop(R, mod) \in 1..Len(s) =>
              \/ mod.check_overlap /\ Overlaps(flows[s[Stop(R, mod)]], mod)
              \/ SameFlow(flows[s[Stop(R, mod)]], mod)
              \/ mod.priority > flows[s[Stop(R, mod)]].priority
         /\ StopEntries(R, mod) = {s[i] : i \in {Stop(R, mod)} \cap 1..Len(s)}
<1> DEFINE P == {i \in 1..Len(s) : \/ mod.check_overlap /\ Overlaps(flows[s[i]], mod)
                                   \/ SameFlow(flows[s[i]], mod)
                                   \/ mod.priority > flows[s[i]].priority}
           k == Stop(R, mod)
<1>1. match_entries \in Seq(Live) BY DEF Shape, MatchOK, Live
<1>2. s \in Seq(Live \ R) BY <1>1, WithoutShape
<1>3. P \in SUBSET (1..Len(s)) OBVIOUS
<1>4. k = FirstOf(s, P) BY DEF Stop
<1>5. StopEntries(R, mod) = {s[i] : i \in {k} \cap 1..Len(s)} BY DEF StopEntries
<1> HIDE DEF P, k
<1>6. /\ k \in 1..(Len(s) + 1) /\ k \in P \cup {Len(s) + 1}
      /\ \A i \in P : k <= i
  BY <1>2, <1>3, <1>4, FirstOfIsFirst
<1>7. Len(s) \in Nat BY <1>2
<1>8. \A i \in 1..Len(s) : i < k => i \notin P BY <1>6, <1>7
<1>9. k \in 1..Len(s) => k \in P BY <1>6, <1>7
<1>10. \A i \in 1..Len(s) : i < k =>
         /\ ~SameFlow(flows[s[i]], mod) /\ ~(mod.priority > flows[s[i]].priority)
         /\ ~(mod.check_overlap /\ Overlaps(flows[s[i]], mod))
  BY <1>8 DEF P
<1>11. k \in 1..Len(s) =>
              \/ mod.check_overlap /\ Overlaps(flows[s[k]], mod)
              \/ SameFlow(flows[s[k]], mod)
              \/ mod.priority > flows[s[k]].priority
  BY <1>9 DEF P
<1>12. QED BY <1>2, <1>5, <1>6, <1>10, <1>11 DEF k

\* Where an ADD finds its place no entry is of its flow, and with the overlap check
\* none overlaps: neither those in front of the place nor those behind it.
LEMMA PlaceFound ==
  ASSUME Shape, NEW R \in SUBSET Live, NEW mod \in FlowMods, FindsPlace(R, mod),
         NEW s, s = Without(match_entries, R), NEW i \in 1..Len(s)
  PROVE  /\ i < Stop(R, mod) => ~(mod.priority > flows[s[i]].priority)
         /\ i >= Stop(R, mod) => mod.priority > flows[s[i]].priority
         /\ ~SameFlow(flows[s[i]], mod)
         /\ ~(mod.check_overlap /\ Overlaps(flows[s[i]], mod))
<1> DEFINE k == Stop(R, mod)
           f == Kept(flows, R)
<1> HIDE DEF k, f
<1>1. /\ s \in Seq(Live \ R) /\ k \in 1..(Len(s) + 1)
      /\ \A j \in 1..Len(s) : j < k =>
           /\ ~SameFlow(flows[s[j]], mod) /\ ~(mod.priority > flows[s[j]].priority)
           /\ ~(mod.check_overlap /\ Overlaps(flows[s[j]], mod))
      /\ k \in 1..Len(s) => \/ mod.check_overlap /\ Overlaps(flows[s[k]], mod)
                            \/ SameFlow(flows[s[k]], mod)
                            \/ mod.priority > flows[s[k]].priority
  BY StopPosition DEF k
<1>0. k \in 1..Len(s) => s[k] \in StopEntries(R, mod) BY DEF StopEntries, k
<1>2. flows \in [Live -> Flow] /\ mod.priority \in Nat
  BY FlowModsAssumption DEF Shape, Live, FlowMod
<1>3. MatchOK(f, s)
  <2>1. flows \in [Live -> Flow] /\ MatchOK(flows, match_entries) /\ R \in SUBSET Live
    BY DEF Shape, Live
  <2>2. QED BY <2>1, MatchRemove DEF f
<1>4. \A j \in 1..Len(s) : s[j] \in Live /\ f[s[j]] = flows[s[j]] /\ flows[s[j]].priority \in Nat
  <2>1. \A j \in 1..Len(s) : s[j] \in Live \ R BY <1>1
  <2>2. QED BY <1>2, <2>1 DEF Kept, Live, Flow, f
<1>5. k \in 1..Len(s) => mod.priority > flows[s[k]].priority
  <2> SUFFICES ASSUME k \in 1..Len(s) PROVE mod.priority > flows[s[k]].priority OBVIOUS
  <2>1. s[k] \in StopEntries(R, mod) BY <1>0
  <2>2. ~FindsOverlap(R, mod) /\ ~FindsSame(R, mod) BY DEF FindsPlace
  <2>3. ~(mod.check_overlap /\ Overlaps(flows[s[k]], mod)) BY <2>1, <2>2 DEF FindsOverlap
  <2>4. ~SameFlow(flows[s[k]], mod) BY <2>1, <2>2 DEF FindsSame
  <2>5. QED BY <1>1, <2>3, <2>4
<1>6. CASE i < k BY <1>1, <1>6 DEF k
<1>7. CASE i >= k
  <2>1. k \in 1..Len(s) BY <1>1, <1>7
  <2>2. k = i \/ f[s[k]].priority >= f[s[i]].priority BY <1>3, <1>7, <2>1 DEF MatchOK
  <2>3. mod.priority > flows[s[i]].priority
    <3>1. CASE k = i BY <1>5, <2>1, <3>1
    <3>2. CASE f[s[k]].priority >= f[s[i]].priority BY <1>2, <1>4, <1>5, <2>1, <3>2
    <3>3. QED BY <2>2, <3>1, <3>2
  <2>4. flows[s[i]].priority # mod.priority BY <1>2, <1>4, <2>3
  <2>5. QED BY <1>1, <1>7, <2>3, <2>4 DEF SameFlow, Overlaps, k
<1>8. QED BY <1>1, <1>6, <1>7

\* What an ADD leaves when it replaced an entry, or put a new one into the lists.
LEMMA ReplaceFlowStep ==
  ASSUME Shape, now \in Nat, NEW R \in SUBSET Live, NEW mod \in FlowMods, FindsSame(R, mod),
         NEW old \in StopEntries(R, mod), NEW id \in Ids \ Live, ReplaceFlow(R, old, id, mod)
  PROVE  /\ Shape'
         /\ Cardinality(R) \in Nat /\ Len(match_entries) - Cardinality(R) \in Nat
         /\ Len(match_entries') = Len(match_entries) - Cardinality(R)
         /\ old \in Live \ R /\ SameFlow(flows[old], mod)
<1> DEFINE e == NewFlow(mod)
           Q == R \cup {old}
           D == DOMAIN flows
           E == D \ R
           f == Kept(flows, R)
           s == Without(match_entries, R)
<1>1. flows \in [D -> Flow] /\ MatchOK(flows, match_entries) /\ R \in SUBSET D
  BY DEF Shape, Live
<1>2. /\ e \in Flow /\ e.priority = mod.priority /\ e.match = mod.match
  BY NewFlowType
<1>3. /\ s \in Seq(Live \ R)
      /\ StopEntries(R, mod) = {s[i] : i \in {Stop(R, mod)} \cap 1..Len(s)}
  BY StopPosition
<1>4. old \in Live \ R /\ SameFlow(flows[old], mod)
  <2>1. PICK same \in StopEntries(R, mod) : SameFlow(flows[same], mod) BY DEF FindsSame
  <2>2. same = old BY <1>3, <2>1
  <2>3. old \in Live \ R BY <1>3
  <2>4. QED BY <2>1, <2>2, <2>3
<1>5. /\ match_entries' = ReplaceAll(s, old, id)
      /\ hard_entries' = AddHard(Without(hard_entries, Q), id, e)
      /\ idle_entries' = AddIdle(Without(idle_entries, Q), id, e)
      /\ flows' = [i \in (Live \ Q) \cup {id} |-> IF i = id THEN e ELSE flows[i]]
  BY DEF ReplaceFlow
<1>6. flows' = Plus(Kept(flows, Q), id, e) BY <1>5 DEF Plus, Kept, Live
<1>7. flows' = Plus(Kept(f, {old}), id, e) BY <1>5 DEF Plus, Kept, Live
<1>8. f \in [E -> Flow] /\ id \notin E /\ old \in E /\ f[old] = flows[old]
  BY <1>1, <1>4 DEF Kept, Live
<1>9. SameFlow(f[old], e) BY <1>2, <1>4, <1>8 DEF SameFlow
<1>10. Q \in SUBSET Live BY <1>4
<1> HIDE DEF e, Q, D, E, f, s
<1>11. /\ MatchOK(f, s)
       /\ Cardinality(R) \in Nat /\ Len(match_entries) - Cardinality(R) \in Nat
       /\ Len(s) = Len(match_entries) - Cardinality(R)
  BY <1>1, MatchRemove DEF f, s
<1>12. MatchOK(flows', match_entries') /\ Len(match_entries') = Len(s)
  <2>1. /\ MatchOK(Plus(Kept(f, {old}), id, e), ReplaceAll(s, old, id))
        /\ Len(ReplaceAll(s, old, id)) = Len(s)
    BY <1>2, <1>8, <1>9, <1>11, MatchReplace
  <2>2. QED BY <2>1, <1>5, <1>7
<1>13. HardOK(flows', hard_entries') /\ IdleOK(flows', idle_entries')
  BY <1>2, <1>5, <1>6, <1>10, TimeoutLists
<1>14. DOMAIN flows' \subseteq Ids /\ flows' \in [DOMAIN flows' -> Flow]
  <2>1. DOMAIN flows' = (Live \ Q) \cup {id} BY <1>5
  <2>2. \A i \in DOMAIN flows' : flows'[i] \in Flow BY <1>1, <1>2, <1>5, <2>1 DEF Live, D
  <2>3. DOMAIN flows' \subseteq Ids BY <2>1 DEF Shape, Live
  <2>4. QED BY <1>5, <2>1, <2>2, <2>3
<1>15. Shape' BY <1>12, <1>13, <1>14 DEF Shape
<1>16. QED BY <1>4, <1>11, <1>12, <1>15

\* The new entry of an ADD that replaces none stands where the loop stopped.
LEMMA InsertFlowStep ==
  ASSUME Shape, now \in Nat, NEW R \in SUBSET Live, NEW mod \in FlowMods, FindsPlace(R, mod),
         NEW id \in Ids \ Live, InsertFlow(R, id, mod)
  PROVE  /\ Shape'
         /\ Cardinality(R) \in Nat /\ Len(match_entries) - Cardinality(R) \in Nat
         /\ Len(match_entries') = (Len(match_entries) - Cardinality(R)) + 1
<1> DEFINE e == NewFlow(mod)
           k == Stop(R, mod)
           D == DOMAIN flows
           E == D \ R
           f == Kept(flows, R)
           s == Without(match_entries, R)
<1>1. flows \in [D -> Flow] /\ MatchOK(flows, match_entries) /\ R \in SUBSET D
  BY DEF Shape, Live
<1>2. e \in Flow /\ e.priority = mod.priority /\ e.match = mod.match /\ mod.priority \in Nat
  BY NewFlowType
<1>3. /\ s \in Seq(E) /\ k \in 1..(Len(s) + 1)
      /\ \A i \in 1..Len(s) : i < k =>
           ~SameFlow(flows[s[i]], mod) /\ ~(mod.priority > flows[s[i]].priority)
      /\ k \in 1..Len(s) => \/ mod.check_overlap /\ Overlaps(flows[s[k]], mod)
                            \/ SameFlow(flows[s[k]], mod)
                            \/ mod.priority > flows[s[k]].priority
      /\ StopEntries(R, mod) = {s[i] : i \in {k} \cap 1..Len(s)}
  BY StopPosition DEF Live
<1>4. /\ match_entries' = InsertAt(s, k, id)
      /\ hard_entries' = AddHard(Without(hard_entries, R), id, e)
      /\ idle_entries' = AddIdle(Without(idle_entries, R), id, e)
      /\ flows' = [i \in (Live \ R) \cup {id} |-> IF i = id THEN e ELSE flows[i]]
  BY DEF InsertFlow
<1>5. flows' = Plus(f, id, e) BY <1>4 DEF Plus, Kept, Live
<1>6. f \in [E -> Flow] /\ id \notin E /\ \A i \in E : f[i] = flows[i]
  BY <1>1 DEF Kept, Live
<1> HIDE DEF e, k, D, E, f, s
<1>7. k \in 1..Len(s) => mod.priority > flows[s[k]].priority
  <2> SUFFICES ASSUME k \in 1..Len(s) PROVE mod.priority > flows[s[k]].priority OBVIOUS
  <2>1. s[k] \in StopEntries(R, mod) BY <1>3
  <2>2. ~FindsOverlap(R, mod) /\ ~FindsSame(R, mod) BY DEF FindsPlace
  <2>3. ~(mod.check_overlap /\ Overlaps(flows[s[k]], mod)) BY <2>1, <2>2 DEF FindsOverlap
  <2>4. ~SameFlow(flows[s[k]], mod) BY <2>1, <2>2 DEF FindsSame
  <2>5. QED BY <1>3, <2>3, <2>4
<1>8. \A i \in 1..Len(s) : i < k => /\ f[s[i]].priority >= e.priority
                                    /\ ~SameFlow(f[s[i]], e)
  <2> SUFFICES ASSUME NEW i \in 1..Len(s), i < k
               PROVE  f[s[i]].priority >= e.priority /\ ~SameFlow(f[s[i]], e)
    OBVIOUS
  <2>1. s[i] \in E /\ f[s[i]] = flows[s[i]] BY <1>3, <1>6
  <2>2. flows[s[i]].priority \in Nat BY <1>1, <2>1 DEF Flow, E
  <2>3. QED BY <1>2, <1>3, <2>1, <2>2 DEF SameFlow
<1>9. k \in 1..Len(s) => e.priority > f[s[k]].priority BY <1>2, <1>3, <1>6, <1>7
<1>10. /\ MatchOK(f, s)
       /\ Cardinality(R) \in Nat /\ Len(match_entries) - Cardinality(R) \in Nat
       /\ Len(s) = Len(match_entries) - Cardinality(R)
  BY <1>1, MatchRemove DEF f, s
<1>11. MatchOK(flows', match_entries') /\ Len(match_entries') = Len(s) + 1
  <2>1. e \in Flow /\ k \in 1..(Len(s) + 1) /\ f \in [E -> Flow] /\ id \notin E /\ MatchOK(f, s)
    BY <1>2, <1>3, <1>6, <1>10
  <2>2. /\ MatchOK(Plus(f, id, e), InsertAt(s, k, id))
        /\ Len(InsertAt(s, k, id)) = Len(s) + 1
    BY ONLY <2>1, <1>8, <1>9, MatchInsert
  <2>3. QED BY <2>2, <1>4, <1>5
<1>12. HardOK(flows', hard_entries') /\ IdleOK(flows', idle_entries')
  BY <1>2, <1>4, <1>5, TimeoutLists DEF f
<1>13. DOMAIN flows' \subseteq Ids /\ flows' \in [DOMAIN flows' -> Flow]
  <2>1. DOMAIN flows' = (Live \ R) \cup {id} BY <1>4
  <2>2. \A i \in DOMAIN flows' : flows'[i] \in Flow BY <1>1, <1>2, <1>4, <2>1 DEF Live, D
  <2>3. DOMAIN flows' \subseteq Ids BY <2>1 DEF Shape, Live
  <2>4. QED BY <1>4, <2>1, <2>2, <2>3
<1>14. Shape' BY <1>11, <1>12, <1>13 DEF Shape
<1>15. QED BY <1>10, <1>11, <1>14

\* Entries that keep their match, priority and timeouts keep their lists.
LEMMA SameLists ==
  ASSUME Shape, UNCHANGED lists, flows' \in [Live -> Flow],
         \A i \in Live : /\ flows'[i].match = flows[i].match
                         /\ flows'[i].priority = flows[i].priority
                         /\ flows'[i].remove_at = flows[i].remove_at
                         /\ flows'[i].idle = flows[i].idle
  PROVE  Shape'
<1> DEFINE D == DOMAIN flows
<1>1. /\ DOMAIN flows' = D /\ D \subseteq Ids /\ flows' \in [D -> Flow]
      /\ match_entries' = match_entries /\ hard_entries' = hard_entries
      /\ idle_entries' = idle_entries
  BY DEF Shape, lists, Live
<1>2. /\ MatchOK(flows, match_entries) /\ HardOK(flows, hard_entries)
      /\ IdleOK(flows, idle_entries)
  BY DEF Shape
<1>3. \A i \in D : /\ flows'[i].match = flows[i].match
                   /\ flows'[i].priority = flows[i].priority
                   /\ flows'[i].remove_at = flows[i].remove_at
                   /\ flows'[i].idle = flows[i].idle
  BY DEF Live
<1> HIDE DEF D
<1>0. DOMAIN flows = D BY DEF D
<1>4. MatchOK(flows', match_entries)
  <2>1. /\ match_entries \in Seq(D) /\ NoRepeats(match_entries) /\ ToSet(match_entries) = D
        /\ \A i, j \in 1..Len(match_entries) :
             i < j => flows[match_entries[i]].priority >= flows[match_entries[j]].priority
        /\ \A i, j \in D : SameFlow(flows[i], flows[j]) => i = j
    BY <1>0, <1>2 DEF MatchOK
  <2>2. \A i \in 1..Len(match_entries) : match_entries[i] \in D BY <2>1
  <2>3. \A i, j \in D : SameFlow(flows'[i], flows'[j]) => i = j BY <1>3, <2>1 DEF SameFlow
  <2>4. \A i, j \in 1..Len(match_entries) :
          i < j => flows'[match_entries[i]].priority >= flows'[match_entries[j]].priority
    BY <1>3, <2>1, <2>2
  <2>5. QED BY <1>1, <2>1, <2>3, <2>4 DEF MatchOK
<1>5. HardOK(flows', hard_entries)
  <2>1. /\ hard_entries \in Seq(D) /\ NoRepeats(hard_entries)
        /\ ToSet(hard_entries) = {i \in D : flows[i].remove_at # 0}
        /\ \A i, j \in 1..Len(hard_entries) :
             i < j => flows[hard_entries[i]].remove_at <= flows[hard_entries[j]].remove_at
    BY <1>0, <1>2 DEF HardOK
  <2>2. \A i \in 1..Len(hard_entries) : hard_entries[i] \in D BY <2>1
  <2>3. ToSet(hard_entries) = {i \in D : flows'[i].remove_at # 0} BY <1>3, <2>1
  <2>4. \A i, j \in 1..Len(hard_entries) :
          i < j => flows'[hard_entries[i]].remove_at <= flows'[hard_entries[j]].remove_at
    BY <1>3, <2>1, <2>2
  <2>5. QED BY <1>1, <2>1, <2>3, <2>4 DEF HardOK
<1>6. IdleOK(flows', idle_entries)
  <2>1. /\ idle_entries \in Seq(D) /\ NoRepeats(idle_entries)
        /\ ToSet(idle_entries) = {i \in D : flows[i].idle # 0}
    BY <1>0, <1>2 DEF IdleOK
  <2>2. ToSet(idle_entries) = {i \in D : flows'[i].idle # 0} BY <1>3, <2>1
  <2>3. QED BY <1>1, <2>1, <2>2 DEF IdleOK
<1>7. QED BY <1>1, <1>4, <1>5, <1>6 DEF Shape

\* flow_table_modify
LEMMA ModifyStep ==
  ASSUME Shape, NEW mod \in FlowMods, Modify(mod)
  PROVE  Shape' /\ UNCHANGED match_entries
<1>1. mod.insts \in SUBSET Outputs BY FlowModsAssumption DEF FlowMod
<1>2. flows \in [Live -> Flow] BY DEF Shape, Live
<1>3. flows' = [i \in Live |-> IF i \in Selected(mod) THEN [flows[i] EXCEPT !.insts = mod.insts]
                               ELSE flows[i]]
      /\ UNCHANGED lists
  BY DEF Modify
<1>4. ASSUME NEW i \in Live
      PROVE  /\ flows'[i] \in Flow
             /\ flows'[i].match = flows[i].match /\ flows'[i].priority = flows[i].priority
             /\ flows'[i].remove_at = flows[i].remove_at /\ flows'[i].idle = flows[i].idle
  <2>1. flows[i] \in Flow BY <1>2
  <2>2. CASE i \in Selected(mod)
    <3>1. flows'[i] = [flows[i] EXCEPT !.insts = mod.insts] BY <1>3, <2>2
    <3>2. QED BY <1>1, <2>1, <3>1 DEF Flow
  <2>3. CASE i \notin Selected(mod) BY <1>3, <2>1, <2>3
  <2>4. QED BY <2>2, <2>3
<1>5. flows' \in [Live -> Flow] BY <1>3, <1>4
<1>6. QED BY <1>3, <1>4, <1>5, SameLists DEF lists

\* flow_table_lookup
LEMMA LookupStep ==
  ASSUME Shape, now \in Nat, NEW p \in Packets, Lookup(p)
  PROVE  Shape' /\ UNCHANGED match_entries
<1> DEFINE found == {match_entries[i] : i \in 1..Len(match_entries) \cap
                 {FirstOf(match_entries, {k \in 1..Len(match_entries) :
                                            p \in flows[match_entries[k]].match})}}
<1>1. flows' = [i \in Live |-> IF i \in found THEN [flows[i] EXCEPT !.last_used = now]
                               ELSE flows[i]]
      /\ UNCHANGED lists
  BY DEF Lookup
<1>2. flows \in [Live -> Flow] BY DEF Shape, Live
<1> HIDE DEF found
<1>4. ASSUME NEW i \in Live
      PROVE  /\ flows'[i] \in Flow
             /\ flows'[i].match = flows[i].match /\ flows'[i].priority = flows[i].priority
             /\ flows'[i].remove_at = flows[i].remove_at /\ flows'[i].idle = flows[i].idle
  <2>1. flows[i] \in Flow BY <1>2
  <2>2. CASE i \in found
    <3>1. flows'[i] = [flows[i] EXCEPT !.last_used = now] BY <1>1, <2>2
    <3>2. QED BY <2>1, <3>1 DEF Flow
  <2>3. CASE i \notin found BY <1>1, <2>1, <2>3
  <2>4. QED BY <2>2, <2>3
<1>5. flows' \in [Live -> Flow] BY <1>1, <1>4
<1>6. QED BY <1>1, <1>4, <1>5, SameLists DEF lists

\* flow_table_delete and flow_table_timeout
LEMMA DeleteStep ==
  ASSUME Shape, NEW mod \in FlowMods, Delete(mod)
  PROVE  Shape' /\ (active_count = Len(match_entries) => active_count' = Len(match_entries'))
               /\ Len(match_entries') <= Len(match_entries)
<1> DEFINE R == {i \in Selected(mod) : HasOut(flows[i], mod)}
<1>1. R \in SUBSET Live BY DEF Selected
<1>2. RemoveFlows(R) BY DEF Delete
<1>3. active_count' = active_count - Cardinality(R) BY <1>2 DEF RemoveFlows
<1> HIDE DEF R
<1>4. Shape' /\ Cardinality(R) \in Nat /\ Len(match_entries') = Len(match_entries) - Cardinality(R)
  BY <1>1, <1>2, RemoveFlowsStep
<1>5. Len(match_entries) \in Nat BY DEF Shape, MatchOK
<1>6. QED BY <1>3, <1>4, <1>5

\* flow_table_timeout only frees entries that exist.
LEMMA SweepsAreLive ==
  ASSUME Shape
  PROVE  HardSweep \in SUBSET Live /\ IdleSweep \in SUBSET Live
<1>1. hard_entries \in Seq(Live) /\ idle_entries \in Seq(Live) BY DEF Shape, HardOK, IdleOK, Live
<1>2. (\A i \in 1..Len(hard_entries) : hard_entries[i] \in Live)
      /\ (\A i \in 1..Len(idle_entries) : idle_entries[i] \in Live)
  BY <1>1
<1>3. QED BY <1>2 DEF HardSweep, IdleSweep

\* flow_table_timeout: the lists and the count after both sweeps.
LEMMA TimeoutStep ==
  ASSUME Shape, Timeout
  PROVE  Shape' /\ (active_count = Len(match_entries) => active_count' = Len(match_entries'))
               /\ Len(match_entries') <= Len(match_entries)
<1> DEFINE R == HardSweep \cup (IdleSweep \ HardSweep)
<1>1. R \in SUBSET Live BY SweepsAreLive
<1>2. RemoveFlows(R) BY DEF Timeout
<1>3. active_count' = active_count - Cardinality(R) BY <1>2 DEF RemoveFlows
<1> HIDE DEF R
<1>4. Shape' /\ Cardinality(R) \in Nat /\ Len(match_entries') = Len(match_entries) - Cardinality(R)
  BY <1>1, <1>2, RemoveFlowsStep
<1>5. Len(match_entries) \in Nat BY DEF Shape, MatchOK
<1>6. QED BY <1>3, <1>4, <1>5

\* The entry evicted is live, and there is one exactly when the table is full.
LEMMA EvictionsAreLive ==
  ASSUME NEW R \in Evictions
  PROVE  R \in SUBSET Live /\ Cardinality(R) = IF IsFull THEN 1 ELSE 0
<1>1. CASE ~IsFull BY <1>1, FS_EmptySet DEF Evictions
<1>2. CASE IsFull
  <2>1. PICK v \in Victims : R = {v} BY <1>2 DEF Evictions
  <2>2. LeastRecent(Evictable) \subseteq Evictable BY DEF LeastRecent
  <2>3. \A S \in SUBSET Evictable : Drawn(S) \subseteq Evictable BY DEF Drawn, LeastRecent
  <2>4. MlVictims \subseteq Evictable
    <3>1. ASSUME NEW key PROVE {i \in Evictable : IsOver(key[i])} \in SUBSET Evictable OBVIOUS
    <3>2. QED BY <2>3, <3>1 DEF MlVictims
  <2>5. Victims \subseteq Evictable BY <2>2, <2>4 DEF Victims
  <2>6. Evictable \subseteq Live BY DEF Evictable
  <2>7. Cardinality({v}) = 1 BY FS_Singleton
  <2>8. QED BY <1>2, <2>1, <2>5, <2>6, <2>7
<1>3. QED BY <1>1, <1>2

\* ml_evict and update_flow_end_time keep end times what they are.
LEMMA EndsType ==
  ASSUME RestOK
  PROVE  /\ DOMAIN EndsAfterEviction \subseteq Keys
         /\ EndsAfterEviction \in [DOMAIN EndsAfterEviction -> Nat]
         /\ \A m, k : /\ DOMAIN ExtendEnd(EndsAfterEviction, m, k) = DOMAIN EndsAfterEviction
                      /\ ExtendEnd(EndsAfterEviction, m, k) \in [DOMAIN EndsAfterEviction -> Nat]
<1> DEFINE ends == EndsAfterEviction
<1>1. DOMAIN ends \subseteq Keys /\ ends \in [DOMAIN ends -> Nat]
  BY FlowEndsAssumption DEF RestOK, EndsAfterEviction, Ends
<1>2. now \in Nat /\ LongGap \in Nat BY BoundsAssumption DEF RestOK
<1> HIDE DEF ends
<1>3. ASSUME NEW m, NEW k
      PROVE  DOMAIN ExtendEnd(ends, m, k) = DOMAIN ends
             /\ ExtendEnd(ends, m, k) \in [DOMAIN ends -> Nat]
  <2>1. CASE m # Packets /\ k \in DOMAIN ends /\ ends[k] < now
    <3>1. ends[k] \in Nat BY <1>1, <2>1
    <3>2. (IF now - ends[k] > LongGap THEN now ELSE ends[k] + 2 * (now - ends[k])) \in Nat
      BY <1>2, <2>1, <3>1
    <3>3. ExtendEnd(ends, m, k) =
            [ends EXCEPT ![k] = IF now - @ > LongGap THEN now ELSE @ + 2 * (now - @)]
      BY <2>1 DEF ExtendEnd
    <3>4. QED BY <1>1, <3>2, <3>3
  <2>2. CASE ~(m # Packets /\ k \in DOMAIN ends /\ ends[k] < now)
    <3>1. ExtendEnd(ends, m, k) = ends BY <2>2 DEF ExtendEnd
    <3>2. QED BY <1>1, <3>1
  <2>3. QED BY <2>1, <2>2
<1>4. QED BY <1>1, <1>3 DEF ends

\* flow_table_add_with_timestamp: the lists, the count and the capacity.
LEMMA AddWithTimestampStep ==
  ASSUME Shape, RestOK, active_count = Len(match_entries),
         NEW mod \in FlowMods, AddWithTimestamp(mod)
  PROVE  /\ Shape' /\ RestOK' /\ active_count' = Len(match_entries')
         /\ Len(match_entries) <= max_entries => Len(match_entries') <= max_entries'
<1>0. mod.match \in SUBSET Packets /\ now \in Nat BY FlowModsAssumption DEF FlowMod, RestOK
<1>1. Len(match_entries) \in Nat /\ max_entries \in Nat BY DEF Shape, MatchOK, RestOK
<1>2. UNCHANGED <<max_entries, now, crashed>> BY DEF AddWithTimestamp
<1>3. PICK R \in Evictions :
       \/ /\ FindsOverlap(R, mod)
          /\ RemoveFlows(R)
          /\ flow_end' = EndsAfterEviction
          /\ UNCHANGED installed
       \/ \E id \in Ids \ Live :
            /\ \/ /\ FindsSame(R, mod)
                  /\ \E old \in StopEntries(R, mod) : ReplaceFlow(R, old, id, mod)
                  /\ UNCHANGED installed
               \/ /\ FindsPlace(R, mod)
                  /\ InsertFlow(R, id, mod)
                  /\ CountInstall(R, mod)
            /\ \E k \in KeysOf(mod.match) :
                 flow_end' = ExtendEnd(EndsAfterEviction, mod.match, k)
  BY DEF AddWithTimestamp
<1>4. R \in SUBSET Live /\ Cardinality(R) = IF IsFull THEN 1 ELSE 0 BY EvictionsAreLive
<1>5. IsFull <=> Len(match_entries) = max_entries BY DEF IsFull
<1>6. CASE FindsOverlap(R, mod) /\ RemoveFlows(R) /\ flow_end' = EndsAfterEviction
           /\ UNCHANGED installed
  <2>1. Shape' /\ Len(match_entries) - Cardinality(R) \in Nat
        /\ Len(match_entries') = Len(match_entries) - Cardinality(R)
    BY <1>4, <1>6, RemoveFlowsStep
  <2>2. active_count' = active_count - Cardinality(R) BY <1>6 DEF RemoveFlows
  <2>3. RestOK' BY <1>2, <1>6, <2>1, <2>2, EndsType DEF RestOK
  <2>4. QED BY <1>1, <1>2, <1>4, <1>5, <2>1, <2>2, <2>3
<1>7. ASSUME NEW id \in Ids \ Live,
             \/ /\ FindsSame(R, mod)
                /\ \E old \in StopEntries(R, mod) : ReplaceFlow(R, old, id, mod)
                /\ UNCHANGED installed
             \/ /\ FindsPlace(R, mod)
                /\ InsertFlow(R, id, mod)
                /\ CountInstall(R, mod),
             \E k \in KeysOf(mod.match) :
               flow_end' = ExtendEnd(EndsAfterEviction, mod.match, k)
      PROVE  /\ Shape' /\ RestOK' /\ active_count' = Len(match_entries')
             /\ Len(match_entries) <= max_entries => Len(match_entries') <= max_entries'
  <2>1. DOMAIN flow_end' \subseteq Keys /\ flow_end' \in [DOMAIN flow_end' -> Nat]
    BY <1>7, EndsType
  <2>2. CASE /\ FindsSame(R, mod)
             /\ \E old \in StopEntries(R, mod) : ReplaceFlow(R, old, id, mod)
             /\ UNCHANGED installed
    <3>1. PICK old \in StopEntries(R, mod) : ReplaceFlow(R, old, id, mod) BY <2>2
    <3>2. Shape' /\ Len(match_entries) - Cardinality(R) \in Nat
          /\ Len(match_entries') = Len(match_entries) - Cardinality(R)
      BY <1>0, <1>4, <2>2, <3>1, ReplaceFlowStep
    <3>3. active_count' = active_count - Cardinality(R) BY <3>1 DEF ReplaceFlow
    <3>4. RestOK' BY <1>2, <2>1, <2>2, <3>2, <3>3 DEF RestOK
    <3>5. QED BY <1>1, <1>2, <1>4, <1>5, <3>2, <3>3, <3>4
  <2>3. CASE /\ FindsPlace(R, mod)
             /\ InsertFlow(R, id, mod)
             /\ CountInstall(R, mod)
    <3>1. Shape' /\ Len(match_entries) - Cardinality(R) \in Nat
          /\ Len(match_entries') = (Len(match_entries) - Cardinality(R)) + 1
      BY <1>0, <1>4, <2>3, InsertFlowStep
    <3>2. active_count' = (active_count - Cardinality(R)) + 1 BY <2>3 DEF InsertFlow
    <3>3. installed' = installed \cup {mod.match} BY <2>3 DEF CountInstall
    <3>4. RestOK' BY <1>0, <1>2, <2>1, <3>1, <3>2, <3>3 DEF RestOK
    <3>5. QED BY <1>1, <1>2, <1>4, <1>5, <3>1, <3>2, <3>4
  <2>4. QED BY <1>7, <2>2, <2>3
<1>8. QED BY <1>3, <1>6, <1>7

\* flow_table_add: the lists, which do not depend on the count.
LEMMA AddStep ==
  ASSUME Shape, now \in Nat, NEW mod \in FlowMods, Add(mod)
  PROVE  Shape'
<1>1. {} \in SUBSET Live OBVIOUS
<1>2. CASE UNCHANGED <<flows, lists>>
  BY <1>2, SameLists DEF Shape, lists, Live
<1>3. ASSUME NEW id \in Ids \ Live, FindsSame({}, mod),
             NEW old \in StopEntries({}, mod), ReplaceFlow({}, old, id, mod)
      PROVE  Shape'
  BY <1>1, <1>3, ReplaceFlowStep
<1>4. ASSUME NEW id \in Ids \ Live, FindsPlace({}, mod), InsertFlow({}, id, mod)
      PROVE  Shape'
  BY <1>1, <1>4, InsertFlowStep
<1>5. QED BY <1>2, <1>3, <1>4 DEF Add

-----------------------------------------------------------------------------
(* The invariants of the table                                               *)

IInv == Shape /\ RestOK /\ active_count = Len(match_entries)

\* flow_table_create makes an empty table.
LEMMA InitIInv == Init => IInv /\ Len(match_entries) <= max_entries
<1> SUFFICES ASSUME Init PROVE IInv /\ Len(match_entries) <= max_entries OBVIOUS
<1>1. /\ flows = <<>> /\ match_entries = <<>> /\ hard_entries = <<>> /\ idle_entries = <<>>
      /\ active_count = 0 /\ max_entries = MaxEntries /\ installed = {} /\ flow_end = <<>>
      /\ now = 1 /\ crashed = FALSE
  BY DEF Init
<1>2. DOMAIN flows = {} /\ ToSet(<<>>) = {} /\ <<>> \in Seq({}) /\ Len(<<>>) = 0
  BY <1>1 DEF ToSet
<1>3. NoRepeats(<<>>) BY DEF NoRepeats
<1>4. MatchOK(flows, match_entries) BY <1>1, <1>2, <1>3 DEF MatchOK
<1>5. HardOK(flows, hard_entries) BY <1>1, <1>2, <1>3 DEF HardOK
<1>6. IdleOK(flows, idle_entries) BY <1>1, <1>2, <1>3 DEF IdleOK
<1>7. Shape BY <1>1, <1>2, <1>4, <1>5, <1>6 DEF Shape
<1>8. RestOK
  <2>1. DOMAIN flow_end = {} /\ flow_end \in [{} -> Nat] BY <1>1
  <2>2. QED BY <1>1, <2>1, MaxEntriesAssumption DEF RestOK
<1>9. QED BY <1>1, <1>7, <1>8, MaxEntriesAssumption DEF IInv

\* A step that changes neither the lists nor the count.
LEMMA QuietStep ==
  ASSUME IInv, UNCHANGED <<flows, lists, active_count, history>>,
         max_entries' \in Nat, now' \in Nat, crashed' \in BOOLEAN
  PROVE  IInv' /\ Len(match_entries') = Len(match_entries)
<1>1. Shape BY DEF IInv
<1>2. Shape' BY <1>1, SameLists DEF Shape, lists, Live
<1>3. RestOK' BY DEF IInv, RestOK, history
<1>4. QED BY <1>2, <1>3 DEF IInv, lists

\* Every step of the table in the ns-3 device keeps the invariant, and a table
\* within its capacity there.
LEMMA NextIInv ==
  ASSUME IInv, [Next]_vars
  PROVE  IInv' /\ (Len(match_entries) <= max_entries => Len(match_entries') <= max_entries')
<1>1. Shape /\ RestOK /\ active_count = Len(match_entries) /\ now \in Nat BY DEF IInv, RestOK
<1>2. Len(match_entries) \in Nat /\ max_entries \in Nat BY <1>1 DEF Shape, MatchOK, RestOK
<1>3. ASSUME NEW mod \in FlowMods, AddWithTimestamp(mod)
      PROVE  IInv' /\ (Len(match_entries) <= max_entries => Len(match_entries') <= max_entries')
  BY <1>1, <1>3, AddWithTimestampStep DEF IInv
<1>4. ASSUME NEW mod \in FlowMods, EvictNothing(mod)
      PROVE  IInv' /\ (Len(match_entries) <= max_entries => Len(match_entries') <= max_entries')
  BY <1>1, <1>4, QuietStep DEF EvictNothing, RestOK
<1>5. ASSUME NEW mod \in FlowMods, Modify(mod)
      PROVE  IInv' /\ (Len(match_entries) <= max_entries => Len(match_entries') <= max_entries')
  <2>1. Shape' /\ UNCHANGED match_entries BY <1>1, <1>5, ModifyStep
  <2>2. UNCHANGED <<active_count, max_entries, history, now, crashed>> BY <1>5 DEF Modify
  <2>3. QED BY <1>1, <2>1, <2>2 DEF IInv, RestOK, history
<1>6. ASSUME NEW mod \in FlowMods, Delete(mod)
      PROVE  IInv' /\ (Len(match_entries) <= max_entries => Len(match_entries') <= max_entries')
  <2>1. Shape' /\ active_count' = Len(match_entries') /\ Len(match_entries') <= Len(match_entries)
    BY <1>1, <1>6, DeleteStep
  <2>2. UNCHANGED <<max_entries, history, now, crashed>> BY <1>6 DEF Delete
  <2>3. Len(match_entries') \in Nat BY <2>1 DEF Shape, MatchOK
  <2>4. QED BY <1>1, <1>2, <2>1, <2>2, <2>3 DEF IInv, RestOK, history
<1>7. ASSUME Timeout
      PROVE  IInv' /\ (Len(match_entries) <= max_entries => Len(match_entries') <= max_entries')
  <2>1. Shape' /\ active_count' = Len(match_entries') /\ Len(match_entries') <= Len(match_entries)
    BY <1>1, <1>7, TimeoutStep
  <2>2. UNCHANGED <<max_entries, history, now, crashed>> BY <1>7 DEF Timeout
  <2>3. Len(match_entries') \in Nat BY <2>1 DEF Shape, MatchOK
  <2>4. QED BY <1>1, <1>2, <2>1, <2>2, <2>3 DEF IInv, RestOK, history
<1>8. ASSUME NEW p \in Packets, Lookup(p)
      PROVE  IInv' /\ (Len(match_entries) <= max_entries => Len(match_entries') <= max_entries')
  <2>1. Shape' /\ UNCHANGED match_entries BY <1>1, <1>8, LookupStep
  <2>2. UNCHANGED <<active_count, max_entries, history, now, crashed>> BY <1>8 DEF Lookup
  <2>3. QED BY <1>1, <2>1, <2>2 DEF IInv, RestOK, history
<1>9. ASSUME Tick
      PROVE  IInv' /\ (Len(match_entries) <= max_entries => Len(match_entries') <= max_entries')
  <2>1. now' \in Nat BY <1>1, <1>9 DEF Tick
  <2>2. UNCHANGED <<flows, lists, active_count, max_entries, history, crashed>> BY <1>9 DEF Tick
  <2>3. QED BY <1>1, <2>1, <2>2, QuietStep DEF RestOK
<1>10. ASSUME UNCHANGED vars
       PROVE  IInv' /\ (Len(match_entries) <= max_entries => Len(match_entries') <= max_entries')
  BY <1>1, <1>10, QuietStep DEF RestOK, vars
<1>11. QED BY <1>3, <1>4, <1>5, <1>6, <1>7, <1>8, <1>9, <1>10 DEF Next, Common

\* A table-features request leaves entries and lists alone.
LEMMA FeaturesNextIInv ==
  ASSUME IInv, [FeaturesNext]_vars
  PROVE  IInv'
<1>1. CASE [Next]_vars BY <1>1, NextIInv
<1>2. ASSUME NEW n \in FeatureSizes, SetFeatures(n) PROVE IInv'
  <2>1. n \in Nat /\ now \in Nat /\ crashed \in BOOLEAN
    BY BoundsAssumption DEF IInv, RestOK
  <2>2. QED BY <1>2, <2>1, QuietStep DEF SetFeatures
<1>3. QED BY <1>1, <1>2 DEF FeaturesNext

\* Whatever flow-mods, packets, timeouts and table-features requests come, the
\* lists of a table fed by the ns-3 device are right, in order and counted.
THEOREM FeaturesInvariant == FeaturesSpec => []IInv
<1>1. Init => IInv BY InitIInv
<1>2. IInv /\ [FeaturesNext]_vars => IInv' BY FeaturesNextIInv
<1>3. QED BY <1>1, <1>2, PTL DEF FeaturesSpec

\* What IInv says of the state, in the words of the properties.
LEMMA IInvImplies ==
  ASSUME IInv
  PROVE  /\ TypeOK /\ ListsAgree /\ ActiveCountExact
         /\ PriorityOrder /\ HardOrder /\ NoDuplicateFlows
<1>1. Shape /\ RestOK BY DEF IInv
<1>2. TypeOK BY <1>1 DEF TypeOK, Shape, RestOK, MatchOK, HardOK, IdleOK, Live
<1>3. ListsAgree BY <1>1 DEF ListsAgree, Shape, MatchOK, HardOK, IdleOK, Live
<1>4. ActiveCountExact BY DEF ActiveCountExact, IInv
<1>5. PriorityOrder BY <1>1 DEF PriorityOrder, Shape, MatchOK
<1>6. HardOrder BY <1>1 DEF HardOrder, Shape, HardOK
<1>7. NoDuplicateFlows BY <1>1 DEF NoDuplicateFlows, Shape, MatchOK, Live
<1>8. QED BY <1>2, <1>3, <1>4, <1>5, <1>6, <1>7

\* The lists of the table agree with its entries, also when a controller changes
\* max_entries.
THEOREM ListsAgreeHolds == FeaturesSpec => [](ListsAgree /\ ActiveCountExact)
<1>1. IInv => ListsAgree /\ ActiveCountExact BY IInvImplies
<1>2. QED BY <1>1, FeaturesInvariant, PTL

\* The invariants of the table in the ns-3 device with a fixed configuration.
THEOREM TableInvariant == Spec => [](IInv /\ WithinCapacity)
<1>1. Init => IInv /\ WithinCapacity BY InitIInv DEF WithinCapacity
<1>2. IInv /\ WithinCapacity /\ [Next]_vars => (IInv /\ WithinCapacity)'
  BY NextIInv DEF WithinCapacity
<1>3. QED BY <1>1, <1>2, PTL DEF Spec

\* Every variable keeps its type.
THEOREM TypeHolds == Spec => []TypeOK
<1>1. IInv => TypeOK BY IInvImplies
<1>2. QED BY <1>1, TableInvariant, PTL

\* The table never holds more than max_entries entries.
THEOREM CapacityHolds == Spec => []WithinCapacity
BY TableInvariant, PTL

\* The match list is in the order of the priorities and lists no flow twice.
THEOREM OrderHolds == Spec => [](PriorityOrder /\ HardOrder /\ NoDuplicateFlows)
<1>1. IInv => PriorityOrder /\ HardOrder /\ NoDuplicateFlows BY IInvImplies
<1>2. QED BY <1>1, TableInvariant, PTL

-----------------------------------------------------------------------------
(* The stand-alone switch, whose count drifts                                *)

SInv == Shape /\ now \in Nat

\* The drifting count never reaches the lists: they stay right and in order in
\* the stand-alone switch too.
THEOREM StandaloneListsHold ==
  StandaloneSpec => [](ListsAgree /\ PriorityOrder /\ HardOrder /\ NoDuplicateFlows)
<1>1. Init => SInv BY InitIInv DEF IInv, RestOK, SInv
<1>2. SInv /\ [StandaloneNext]_vars => SInv'
  <2> SUFFICES ASSUME Shape, now \in Nat, [StandaloneNext]_vars PROVE SInv'
    BY DEF SInv
  <2>1. ASSUME NEW mod \in FlowMods, Add(mod) PROVE SInv'
    BY <2>1, AddStep DEF SInv, Add
  <2>2. ASSUME NEW mod \in FlowMods, Modify(mod) PROVE SInv'
    BY <2>2, ModifyStep DEF SInv, Modify
  <2>3. ASSUME NEW mod \in FlowMods, Delete(mod) PROVE SInv'
    BY <2>3, DeleteStep DEF SInv, Delete
  <2>4. ASSUME Timeout PROVE SInv'
    BY <2>4, TimeoutStep DEF SInv, Timeout
  <2>5. ASSUME NEW p \in Packets, Lookup(p) PROVE SInv'
    BY <2>5, LookupStep DEF SInv, Lookup
  <2>6. ASSUME UNCHANGED <<flows, lists>> PROVE Shape'
    BY <2>6, SameLists DEF Shape, lists, Live
  <2>7. ASSUME Tick PROVE SInv'
    BY <2>6, <2>7 DEF Tick, SInv
  <2>8. ASSUME UNCHANGED vars PROVE SInv'
    BY <2>6, <2>8 DEF vars, SInv
  <2>9. QED BY <2>1, <2>2, <2>3, <2>4, <2>5, <2>7, <2>8 DEF StandaloneNext, Common
<1>3. SInv => ListsAgree /\ PriorityOrder /\ HardOrder /\ NoDuplicateFlows
  BY DEF SInv, Shape, MatchOK, HardOK, IdleOK, ListsAgree, PriorityOrder, HardOrder,
         NoDuplicateFlows, Live
<1>4. QED BY <1>1, <1>2, <1>3, PTL DEF StandaloneSpec

-----------------------------------------------------------------------------
(* Lookups and sweeps                                                        *)

\* flow_table_lookup stops at the first entry that matches; the order of the list
\* makes it one with the highest priority.
LEMMA LookupFindsBest ==
  ASSUME Shape, NEW p \in Packets, Lookup(p)
  PROVE  LookupIsBest'
<1> DEFINE P == {k \in 1..Len(match_entries) : p \in flows[match_entries[k]].match}
           n == FirstOf(match_entries, P)
           found == {match_entries[i] : i \in 1..Len(match_entries) \cap {n}}
           matching == {i \in Live : p \in flows[i].match}
<1>1. match_entries \in Seq(Live) /\ ToSet(match_entries) = Live
      /\ \A i, j \in 1..Len(match_entries) :
           i < j => flows[match_entries[i]].priority >= flows[match_entries[j]].priority
  BY DEF Shape, MatchOK, Live
<1>2. out'.hit = found /\ out'.packets = {p} BY DEF Lookup, Quiet
<1>3. P \in SUBSET (1..Len(match_entries)) OBVIOUS
<1>4. \A i \in Live : \E k \in 1..Len(match_entries) : match_entries[k] = i
  BY <1>1 DEF ToSet
<1>5. \A k \in 1..Len(match_entries) : k \in P <=> match_entries[k] \in matching BY <1>1
<1>6. /\ Live' = Live
      /\ \A i \in Live : flows'[i].match = flows[i].match /\ flows'[i].priority = flows[i].priority
  <2>1. flows \in [Live -> Flow] BY DEF Shape, Live
  <2>2. flows' = [i \in Live |-> IF i \in found THEN [flows[i] EXCEPT !.last_used = now]
                                 ELSE flows[i]]
    BY DEF Lookup
  <2> HIDE DEF found
  <2>3. ASSUME NEW i \in Live
        PROVE  flows'[i].match = flows[i].match /\ flows'[i].priority = flows[i].priority
    <3>1. flows[i] \in Flow BY <2>1
    <3>2. QED BY <2>2, <3>1 DEF Flow
  <2>4. QED BY <2>2, <2>3 DEF Live
<1>7. {i \in Live' : out'.packets \subseteq flows'[i].match} = matching BY <1>2, <1>6
<1> HIDE DEF P, n
<1>8. /\ n \in 1..(Len(match_entries) + 1) /\ n \in P \cup {Len(match_entries) + 1}
      /\ \A i \in P : n <= i
  BY <1>1, <1>3, FirstOfIsFirst DEF n
<1>9. Len(match_entries) \in Nat BY <1>1
<1>10. found \subseteq matching BY <1>5, <1>8, <1>9
<1>11. found = {} => matching = {}
  <2> SUFFICES ASSUME NEW i \in matching PROVE found # {} OBVIOUS
  <2>1. PICK k \in 1..Len(match_entries) : match_entries[k] = i BY <1>4
  <2>2. k \in P BY <1>5, <2>1
  <2>3. n \in 1..Len(match_entries) BY <1>8, <1>9, <2>2
  <2>4. QED BY <2>3
<1>12. \A h \in found : \A i \in matching : flows[i].priority <= flows[h].priority
  <2> SUFFICES ASSUME NEW h \in found, NEW i \in matching
               PROVE  flows[i].priority <= flows[h].priority
    OBVIOUS
  <2>1. n \in 1..Len(match_entries) /\ h = match_entries[n] OBVIOUS
  <2>2. PICK k \in 1..Len(match_entries) : match_entries[k] = i BY <1>4
  <2>3. k \in P BY <1>5, <2>2
  <2>4. n < k \/ n = k BY <1>8, <1>9, <2>1, <2>3
  <2>5. flows[h].priority \in Nat /\ flows[i].priority \in Nat
    <3>1. h \in Live /\ i \in Live BY <1>10
    <3>2. flows \in [Live -> Flow] BY DEF Shape, Live
    <3>3. QED BY <3>1, <3>2 DEF Flow
  <2>6. QED BY <1>1, <2>1, <2>2, <2>4, <2>5
<1> HIDE DEF found, matching
<1>13. \A h \in found : \A i \in matching : flows'[i].priority <= flows'[h].priority
  BY <1>6, <1>10, <1>12 DEF matching
<1>14. QED BY <1>2, <1>7, <1>10, <1>11, <1>13 DEF LookupIsBest

\* Each operation signs its record.
LEMMA OpOfStep ==
  ASSUME NEW mod
  PROVE  /\ AddWithTimestamp(mod) => out'.op = "add"
         /\ Modify(mod) => out'.op = "modify"
         /\ Delete(mod) => out'.op = "delete"
         /\ Timeout => out'.op = "timeout"
         /\ Tick => out'.op = "tick"
         /\ EvictNothing(mod) => out'.op = "add"
<1>1. ASSUME AddWithTimestamp(mod) PROVE out'.op = "add"
  <2>1. PICK R \in Evictions : \/ out' = [EvictedOut(R) EXCEPT !.error = "overlap"]
                               \/ out' = EvictedOut(R)
                               \/ out' = [EvictedOut(R) EXCEPT !.cap_miss = mod.match \in installed]
    BY <1>1 DEF AddWithTimestamp, CountInstall
  <2>2. QED BY <2>1 DEF EvictedOut, Quiet
<1>2. ASSUME Modify(mod) PROVE out'.op = "modify" BY <1>2 DEF Modify, Quiet
<1>3. ASSUME Delete(mod) PROVE out'.op = "delete" BY <1>3 DEF Delete, Quiet
<1>4. ASSUME Timeout PROVE out'.op = "timeout" BY <1>4 DEF Timeout, Quiet
<1>5. ASSUME Tick PROVE out'.op = "tick" BY <1>5 DEF Tick, Quiet
<1>6. ASSUME EvictNothing(mod) PROVE out'.op = "add" BY <1>6 DEF EvictNothing, Quiet
<1>7. QED BY <1>1, <1>2, <1>3, <1>4, <1>5, <1>6

\* A packet gets the matching entry with the highest priority.
THEOREM LookupHolds == Spec => []LookupIsBest
<1>1. Init => LookupIsBest BY DEF Init, LookupIsBest, Quiet
<1>2. IInv /\ LookupIsBest /\ [Next]_vars => LookupIsBest'
  <2> SUFFICES ASSUME Shape, LookupIsBest, [Next]_vars PROVE LookupIsBest'
    BY DEF IInv
  <2>1. ASSUME NEW p \in Packets, Lookup(p) PROVE LookupIsBest' BY <2>1, LookupFindsBest
  <2>2. ASSUME NEW mod \in FlowMods,
               AddWithTimestamp(mod) \/ EvictNothing(mod) \/ Modify(mod) \/ Delete(mod)
        PROVE  LookupIsBest'
    BY <2>2, OpOfStep DEF LookupIsBest
  <2>3. ASSUME Timeout \/ Tick PROVE LookupIsBest' BY <2>3, OpOfStep DEF LookupIsBest
  <2>4. ASSUME UNCHANGED vars PROVE LookupIsBest' BY <2>4 DEF vars, LookupIsBest, Live
  <2>5. QED BY <2>1, <2>2, <2>3, <2>4 DEF Next, Common
<1>3. QED BY <1>1, <1>2, TableInvariant, PTL DEF Spec

\* The hard list is in order, so the sweep may stop at the first entry that stays.
LEMMA TimeoutSweepsAll ==
  ASSUME Shape, now \in Nat, Timeout
  PROVE  SweepComplete'
<1> DEFINE R == HardSweep \cup (IdleSweep \ HardSweep)
<1>1. /\ flows \in [Live -> Flow]
      /\ hard_entries \in Seq(Live) /\ ToSet(hard_entries) = {i \in Live : flows[i].remove_at # 0}
      /\ \A i, j \in 1..Len(hard_entries) :
           i < j => flows[hard_entries[i]].remove_at <= flows[hard_entries[j]].remove_at
      /\ ToSet(idle_entries) = {i \in Live : flows[i].idle # 0}
      /\ idle_entries \in Seq(Live)
  BY DEF Shape, HardOK, IdleOK, Live
<1>2. /\ Live' = Live \ R /\ (\A i \in Live \ R : flows'[i] = flows[i])
      /\ now' = now
  BY DEF Timeout, RemoveFlows, Live
<1>3. \A i \in Live : HardExpired(flows[i]) => i \in HardSweep
  <2> SUFFICES ASSUME NEW i \in Live, HardExpired(flows[i]) PROVE i \in HardSweep OBVIOUS
  <2>1. i \in ToSet(hard_entries) BY <1>1 DEF HardExpired
  <2>2. PICK k \in 1..Len(hard_entries) : hard_entries[k] = i BY <1>1, <2>1 DEF ToSet
  <2>3. ASSUME NEW j \in 1..k PROVE HardExpired(flows[hard_entries[j]])
    <3>0. j \in 1..Len(hard_entries) /\ (j < k \/ j = k) BY <1>1, <2>2
    <3>1. hard_entries[j] \in ToSet(hard_entries) BY <1>1, <3>0 DEF ToSet
    <3>2. flows[hard_entries[j]].remove_at # 0 BY <1>1, <3>1
    <3>3. flows[hard_entries[j]].remove_at <= flows[i].remove_at
      <4>1. CASE j < k BY <1>1, <2>2, <3>0, <4>1
      <4>2. CASE j = k
        <5>1. flows[i].remove_at \in Nat BY <1>1 DEF Flow
        <5>2. QED BY <2>2, <4>2, <5>1
      <4>3. QED BY <3>0, <4>1, <4>2
    <3>4. flows[hard_entries[j]].remove_at \in Nat /\ flows[i].remove_at \in Nat
      BY <1>1, <3>1 DEF Flow
    <3>5. now > flows[hard_entries[j]].remove_at BY <3>3, <3>4 DEF HardExpired
    <3>6. QED BY <3>2, <3>5 DEF HardExpired
  <2>4. QED BY <2>2, <2>3 DEF HardSweep
<1>4. \A i \in Live : IdleExpired(flows[i]) => i \in IdleSweep
  <2> SUFFICES ASSUME NEW i \in Live, IdleExpired(flows[i]) PROVE i \in IdleSweep OBVIOUS
  <2>1. i \in ToSet(idle_entries) BY <1>1 DEF IdleExpired
  <2>2. PICK k \in 1..Len(idle_entries) : idle_entries[k] = i BY <1>1, <2>1 DEF ToSet
  <2>3. QED BY <2>2 DEF IdleSweep
<1> HIDE DEF R
<1>5. \A i \in Live \ R : ~HardExpired(flows[i]) /\ ~IdleExpired(flows[i])
  BY <1>3, <1>4 DEF R
<1>6. ASSUME NEW i \in Live' PROVE ~HardExpired(flows[i])' /\ ~IdleExpired(flows[i])'
  <2>1. i \in Live \ R /\ flows'[i] = flows[i] BY <1>2
  <2>2. QED BY <1>2, <1>5, <2>1 DEF HardExpired, IdleExpired
<1>7. QED BY <1>6 DEF SweepComplete

\* After a sweep no entry is left whose time is over.
THEOREM SweepHolds == Spec => []SweepComplete
<1>1. Init => SweepComplete BY DEF Init, SweepComplete, Quiet
<1>2. IInv /\ SweepComplete /\ [Next]_vars => SweepComplete'
  <2> SUFFICES ASSUME Shape, now \in Nat, SweepComplete, [Next]_vars PROVE SweepComplete'
    BY DEF IInv, RestOK
  <2>1. ASSUME Timeout PROVE SweepComplete' BY <2>1, TimeoutSweepsAll
  <2>2. ASSUME NEW mod \in FlowMods,
               AddWithTimestamp(mod) \/ EvictNothing(mod) \/ Modify(mod) \/ Delete(mod)
        PROVE  SweepComplete'
    BY <2>2, OpOfStep DEF SweepComplete
  <2>3. ASSUME Tick PROVE SweepComplete' BY <2>3, OpOfStep DEF SweepComplete
  <2>4. ASSUME NEW p \in Packets, Lookup(p) PROVE SweepComplete'
    BY <2>4 DEF Lookup, Quiet, SweepComplete
  <2>5. ASSUME UNCHANGED vars PROVE SweepComplete'
    BY <2>5 DEF vars, SweepComplete, Live, HardExpired, IdleExpired
  <2>6. QED BY <2>1, <2>2, <2>3, <2>4, <2>5 DEF Next, Common
<1>3. QED BY <1>1, <1>2, TableInvariant, PTL DEF Spec

-----------------------------------------------------------------------------
(* Evictions                                                                 *)

\* lru_evict finds an entry wherever there is one to find: of the entries least
\* recently used it takes the one that stands first.
LEMMA LeastRecentExists ==
  ASSUME Shape, NEW S \in SUBSET Live, S # {}
  PROVE  LeastRecent(S) # {}
<1> DEFINE used == {flows[i].last_used : i \in S}
<1>1. match_entries \in Seq(Live) /\ ToSet(match_entries) = Live /\ flows \in [Live -> Flow]
  BY DEF Shape, MatchOK, Live
<1>2. \A i \in S : flows[i].last_used \in Nat BY <1>1 DEF Flow
<1>3. PICK t \in used : \A u \in used : t <= u
  <2>1. used \in SUBSET Nat BY <1>2
  <2>2. PICK u \in used : TRUE OBVIOUS
  <2> HIDE DEF used
  <2>3. QED BY <2>1, <2>2, LeastExists
<1> DEFINE P == {n \in 1..Len(match_entries) : /\ match_entries[n] \in S
                                               /\ flows[match_entries[n]].last_used = t}
<1>4. PICK n \in P : \A k \in P : n <= k
  <2>1. PICK i \in S : flows[i].last_used = t OBVIOUS
  <2>2. PICK k \in 1..Len(match_entries) : match_entries[k] = i BY <1>1, <2>1 DEF ToSet
  <2>3. P \in SUBSET Nat /\ k \in P BY <2>1, <2>2
  <2> HIDE DEF P
  <2>4. QED BY <2>3, LeastExists
<1> DEFINE v == match_entries[n]
<1>5. ASSUME NEW j \in S
      PROVE  \/ flows[v].last_used < flows[j].last_used
             \/ flows[v].last_used = flows[j].last_used /\ (v = j \/ Precedes(match_entries, v, j))
  <2>1. flows[v].last_used = t /\ t <= flows[j].last_used /\ v \in S BY <1>3
  <2>2. CASE t = flows[j].last_used
    <3>1. PICK k \in 1..Len(match_entries) : match_entries[k] = j BY <1>1 DEF ToSet
    <3>2. k \in P BY <2>2, <3>1
    <3>3. n <= k BY <1>4, <3>2
    <3>4. n = k \/ n < k BY <3>3
    <3>5. QED BY <2>1, <2>2, <3>1, <3>4 DEF Precedes
  <2>3. CASE t # flows[j].last_used BY <1>2, <2>1, <2>3
  <2>4. QED BY <2>2, <2>3
<1>6. v \in S OBVIOUS
<1> HIDE DEF v
<1>7. v \in LeastRecent(S) BY <1>5, <1>6 DEF LeastRecent
<1>8. QED BY <1>7

\* ml_evict too: an active or an inactive entry is drawn, whatever the keys are.
LEMMA VictimExists ==
  ASSUME Shape, Evictable # {}
  PROVE  Victims # {}
<1>1. Evictable \in SUBSET Live BY DEF Evictable
<1>2. CASE UseLru BY <1>1, <1>2, LeastRecentExists DEF Victims
<1>3. CASE ~UseLru
  <2> DEFINE key == [i \in Evictable |-> CHOOSE k \in Keys : k \in KeysOf(flows[i].match)]
             S == {i \in Evictable : IsOver(key[i])}
  <2>1. \A m : \E k \in Keys : k \in KeysOf(m) BY FlowKeysAssumption DEF KeysOf
  <2>2. key \in [Evictable -> Keys] /\ \A i \in Evictable : key[i] \in KeysOf(flows[i].match)
    <3>1. \A i \in Evictable : key[i] \in Keys /\ key[i] \in KeysOf(flows[i].match) BY <2>1
    <3>2. QED BY <3>1
  <2>3. Drawn(S) \subseteq MlVictims
    <3> HIDE DEF key
    <3>1. QED BY <2>2 DEF MlVictims
  <2>4. Drawn(S) # {}
    <3>1. CASE Evictable \ S = {}
      <4>1. S \in SUBSET Live /\ S # {} BY <1>1, <3>1
      <4> HIDE DEF S
      <4>2. LeastRecent(S) # {} BY <4>1, LeastRecentExists
      <4>3. QED BY <3>1, <4>2 DEF Drawn
    <3>2. CASE Evictable \ S # {}
      <4> HIDE DEF S
      <4>1. QED BY <3>2 DEF Drawn
    <3>3. QED BY <3>1, <3>2
  <2>5. QED BY <1>3, <2>3, <2>4 DEF Victims
<1>4. QED BY <1>2, <1>3

\* An entry evicted is not all-match, and if its flow is over it is the one of those
\* that was idle for longest.
LEMMA VictimChosenWell ==
  ASSUME Shape, NEW v \in Victims
  PROVE  /\ ~IsAllMatch(flows[v])
         /\ v \in Inactive => \A i \in Inactive : flows[v].last_used <= flows[i].last_used
<1>1. \A i \in Live : flows[i].last_used \in Nat BY DEF Shape, Live, Flow
<1>2. Inactive \subseteq Evictable /\ Evictable \subseteq Live BY DEF Inactive, Evictable
<1>3. ASSUME NEW S \in SUBSET Evictable, v \in LeastRecent(S)
      PROVE  v \in S /\ \A i \in S : flows[v].last_used <= flows[i].last_used
  <2>1. v \in S /\ \A i \in S : \/ flows[v].last_used < flows[i].last_used
                                \/ flows[v].last_used = flows[i].last_used
    BY <1>3 DEF LeastRecent
  <2>2. \A i \in S : flows[i].last_used \in Nat BY <1>1, <1>2
  <2>3. QED BY <2>1, <2>2
<1>4. CASE UseLru
  <2>1. v \in LeastRecent(Evictable) BY <1>4 DEF Victims
  <2>2. v \in Evictable /\ \A i \in Evictable : flows[v].last_used <= flows[i].last_used
    BY <1>3, <2>1
  <2>3. QED BY <1>2, <2>2 DEF Evictable
<1>5. CASE ~UseLru
  <2>1. PICK key \in [Evictable -> Keys] :
          /\ \A i \in Evictable : key[i] \in KeysOf(flows[i].match)
          /\ v \in Drawn({i \in Evictable : IsOver(key[i])})
    BY <1>5 DEF Victims, MlVictims
  <2> DEFINE S == {i \in Evictable : IsOver(key[i])}
  <2>2. Inactive \subseteq S
    <3> SUFFICES ASSUME NEW i \in Inactive PROVE i \in S OBVIOUS
    <3>1. KeysOf(flows[i].match) = {FlowKeys[flows[i].match]} BY DEF Inactive, KeysOf
    <3>2. key[i] = FlowKeys[flows[i].match] /\ i \in Evictable BY <1>2, <2>1, <3>1
    <3>3. QED BY <3>2 DEF Inactive
  <2>3. S \in SUBSET Evictable /\ v \in Drawn(S) BY <2>1
  <2> HIDE DEF S
  <2>4. v \in Evictable \ S \/ v \in LeastRecent(S) BY <2>3 DEF Drawn
  <2>5. CASE v \in Evictable \ S BY <2>2, <2>5 DEF Evictable
  <2>6. CASE v \in LeastRecent(S)
    <3>1. v \in S /\ \A i \in S : flows[v].last_used <= flows[i].last_used BY <1>3, <2>3, <2>6
    <3>2. QED BY <2>2, <2>3, <3>1 DEF Evictable
  <2>7. QED BY <2>4, <2>5, <2>6
<1>6. QED BY <1>4, <1>5

\* What an ADD of the ns-3 device sends and evicts.
LEMMA AddOut ==
  ASSUME NEW mod, AddWithTimestamp(mod)
  PROVE  \E R \in Evictions :
           /\ out'.evicted = R /\ out'.removed = Notices(R, "EVICTION")
           /\ \/ RemoveFlows(R)
              \/ \E id \in Ids \ Live : \/ \E old \in StopEntries(R, mod) :
                                             FindsSame(R, mod) /\ ReplaceFlow(R, old, id, mod)
                                        \/ FindsPlace(R, mod) /\ InsertFlow(R, id, mod)
<1>1. PICK R \in Evictions :
       \/ /\ RemoveFlows(R)
          /\ out' = [EvictedOut(R) EXCEPT !.error = "overlap"]
       \/ \E id \in Ids \ Live :
            \/ /\ FindsSame(R, mod)
               /\ \E old \in StopEntries(R, mod) : ReplaceFlow(R, old, id, mod)
               /\ out' = EvictedOut(R)
            \/ /\ FindsPlace(R, mod)
               /\ InsertFlow(R, id, mod)
               /\ CountInstall(R, mod)
  BY DEF AddWithTimestamp
<1>2. out'.evicted = R /\ out'.removed = Notices(R, "EVICTION")
  BY <1>1 DEF CountInstall, EvictedOut, Quiet
<1>3. QED BY <1>1, <1>2

\* The other steps evict none.
LEMMA NoneEvicted ==
  ASSUME \/ \E mod \in FlowMods : EvictNothing(mod) \/ Modify(mod) \/ Delete(mod)
         \/ Timeout \/ Tick
         \/ \E p \in Packets : Lookup(p)
         \/ \E n \in FeatureSizes : SetFeatures(n)
  PROVE  out'.evicted = {}
<1>1. ASSUME NEW mod \in FlowMods, EvictNothing(mod) \/ Modify(mod) \/ Delete(mod)
      PROVE  out'.evicted = {}
  <2>1. ASSUME EvictNothing(mod) PROVE out'.evicted = {} BY <2>1 DEF EvictNothing, Quiet
  <2>2. ASSUME Modify(mod) PROVE out'.evicted = {} BY <2>2 DEF Modify, Quiet
  <2>3. ASSUME Delete(mod) PROVE out'.evicted = {} BY <2>3 DEF Delete, Quiet
  <2>4. QED BY <1>1, <2>1, <2>2, <2>3
<1>2. ASSUME Timeout PROVE out'.evicted = {} BY <1>2 DEF Timeout, Quiet
<1>3. ASSUME Tick PROVE out'.evicted = {} BY <1>3 DEF Tick, Quiet
<1>4. ASSUME NEW p \in Packets, Lookup(p) PROVE out'.evicted = {} BY <1>4 DEF Lookup, Quiet
<1>5. ASSUME NEW n \in FeatureSizes, SetFeatures(n) PROVE out'.evicted = {}
  BY <1>5 DEF SetFeatures, Quiet
<1>6. QED BY <1>1, <1>2, <1>3, <1>4, <1>5

\* ml_evict and lru_evict choose well in every step.
THEOREM EvictsWellHolds == FeaturesSpec => MlEvictsWell
<1>1. IInv /\ [FeaturesNext]_vars => [EvictedWell]_vars
  <2> SUFFICES ASSUME Shape, FeaturesNext PROVE EvictedWell BY DEF IInv
  <2>1. ASSUME NEW mod \in FlowMods, AddWithTimestamp(mod) PROVE EvictedWell
    <3>1. PICK R \in Evictions : out'.evicted = R BY <2>1, AddOut
    <3>2. R \subseteq Victims BY DEF Evictions
    <3>3. QED BY <3>1, <3>2, VictimChosenWell DEF EvictedWell
  <2>2. ASSUME out'.evicted = {} PROVE EvictedWell BY <2>2 DEF EvictedWell
  <2>3. QED BY <2>1, <2>2, NoneEvicted DEF FeaturesNext, Next, Common
<1>2. QED BY <1>1, FeaturesInvariant, PTL DEF FeaturesSpec, MlEvictsWell

-----------------------------------------------------------------------------
(* The crash                                                                 *)

\* The priorities of the all-match flows that controllers install.
AllMatchPriorities ==
  {mod.priority : mod \in {m \in FlowMods : m.command = "ADD" /\ m.match = Packets}}

\* Each entry has the match and the priority of an ADD.
Sourced == \A i \in Live : \E mod \in FlowMods : mod.command = "ADD" /\ SameFlow(flows[i], mod)

\* Entries get match and priority when they are made and keep them.
LEMMA SourcedStep ==
  ASSUME IInv, Sourced, [Next]_vars
  PROVE  Sourced'
<1>1. ASSUME \A i \in Live' : i \in Live /\ SameFlow(flows'[i], flows[i]) PROVE Sourced'
  <2> SUFFICES ASSUME NEW i \in Live'
               PROVE  \E mod \in FlowMods : mod.command = "ADD" /\ SameFlow(flows'[i], mod)
    BY DEF Sourced, SameFlow
  <2>1. PICK mod \in FlowMods : mod.command = "ADD" /\ SameFlow(flows[i], mod)
    BY <1>1 DEF Sourced
  <2>2. SameFlow(flows'[i], mod) BY <1>1, <2>1 DEF SameFlow
  <2>3. QED BY <2>1, <2>2
<1>2. flows \in [Live -> Flow] BY DEF IInv, Shape, Live
<1>3. ASSUME NEW R, RemoveFlows(R) PROVE Sourced'
  BY <1>1, <1>3 DEF RemoveFlows, Live, SameFlow
<1>4. ASSUME UNCHANGED flows PROVE Sourced' BY <1>1, <1>4 DEF Live, SameFlow
<1>5. ASSUME NEW mod \in FlowMods, AddWithTimestamp(mod) PROVE Sourced'
  <2>1. PICK R \in Evictions :
           \/ RemoveFlows(R)
           \/ \E id \in Ids \ Live : \/ \E old \in StopEntries(R, mod) : ReplaceFlow(R, old, id, mod)
                                     \/ InsertFlow(R, id, mod)
    BY <1>5, AddOut
  <2>2. ASSUME NEW id, NEW Q,
               flows' = [i \in (Live \ Q) \cup {id} |-> IF i = id THEN NewFlow(mod) ELSE flows[i]]
        PROVE  Sourced'
    <3> SUFFICES ASSUME NEW i \in Live'
                 PROVE  \E m \in FlowMods : m.command = "ADD" /\ SameFlow(flows'[i], m)
      BY DEF Sourced, SameFlow
    <3>1. i \in (Live \ Q) \cup {id} BY <2>2 DEF Live
    <3>2. CASE i = id
      <4>1. SameFlow(flows'[i], mod) BY <2>2, <3>1, <3>2 DEF NewFlow, SameFlow
      <4>2. mod.command = "ADD" BY <1>5 DEF AddWithTimestamp
      <4>3. QED BY <4>1, <4>2
    <3>3. CASE i # id
      <4>1. i \in Live /\ flows'[i] = flows[i] BY <2>2, <3>1, <3>3
      <4>2. QED BY <4>1 DEF Sourced
    <3>4. QED BY <3>2, <3>3
  <2>3. ASSUME NEW id, NEW old, ReplaceFlow(R, old, id, mod) PROVE Sourced'
    BY <2>2, <2>3 DEF ReplaceFlow
  <2>4. ASSUME NEW id, InsertFlow(R, id, mod) PROVE Sourced' BY <2>2, <2>4 DEF InsertFlow
  <2>5. QED BY <1>3, <2>1, <2>3, <2>4
<1>6. ASSUME NEW mod \in FlowMods, EvictNothing(mod) PROVE Sourced' BY <1>4, <1>6 DEF EvictNothing
<1>7. ASSUME NEW mod \in FlowMods, Modify(mod) PROVE Sourced'
  <2>1. flows' = [i \in Live |-> IF i \in Selected(mod) THEN [flows[i] EXCEPT !.insts = mod.insts]
                                 ELSE flows[i]]
    BY <1>7 DEF Modify
  <2>2. \A i \in Live : SameFlow(flows'[i], flows[i]) BY <1>2, <2>1 DEF Flow, SameFlow
  <2>3. QED BY <1>1, <2>1, <2>2 DEF Live
<1>8. ASSUME NEW mod \in FlowMods, Delete(mod) PROVE Sourced' BY <1>3, <1>8 DEF Delete
<1>9. ASSUME Timeout PROVE Sourced' BY <1>3, <1>9 DEF Timeout
<1>10. ASSUME NEW p \in Packets, Lookup(p) PROVE Sourced'
  <2>1. PICK found : flows' = [i \in Live |-> IF i \in found THEN [flows[i] EXCEPT !.last_used = now]
                                              ELSE flows[i]]
    BY <1>10 DEF Lookup
  <2>2. \A i \in Live : SameFlow(flows'[i], flows[i]) BY <1>2, <2>1 DEF Flow, SameFlow
  <2>3. QED BY <1>1, <2>1, <2>2 DEF Live
<1>11. ASSUME Tick PROVE Sourced' BY <1>4, <1>11 DEF Tick
<1>12. ASSUME UNCHANGED vars PROVE Sourced' BY <1>4, <1>12 DEF vars
<1>13. QED BY <1>5, <1>6, <1>7, <1>8, <1>9, <1>10, <1>11, <1>12 DEF Next, Common

\* A full table without an entry to evict holds one all-match entry per priority,
\* hence at most as many as controllers install.
LEMMA FullOfAllMatch ==
  ASSUME IInv, Sourced, IsFiniteSet(FlowMods), IsFull, Victims = {}
  PROVE  ~(Cardinality(AllMatchPriorities) < max_entries)
<1> DEFINE P == AllMatchPriorities
           prio == [i \in Live |-> flows[i].priority]
<1>1. Shape /\ active_count = Len(match_entries) BY DEF IInv
<1>2. /\ match_entries \in Seq(Live) /\ NoRepeats(match_entries) /\ ToSet(match_entries) = Live
      /\ \A i, j \in Live : SameFlow(flows[i], flows[j]) => i = j
  BY <1>1 DEF Shape, MatchOK, Live
<1>3. IsFiniteSet(Live) /\ Cardinality(Live) = max_entries
  BY <1>1, <1>2, LenIsCardinality DEF IsFull
<1>4. \A i \in Live : flows[i].match = Packets
  <2>1. Evictable = {} BY <1>1, VictimExists
  <2>2. QED BY <2>1 DEF Evictable, IsAllMatch
<1>5. IsFiniteSet(P)
  <2> DEFINE M == {m \in FlowMods : m.command = "ADD" /\ m.match = Packets}
             pick == [m \in M |-> m.priority]
  <2>1. IsFiniteSet(M) BY FS_Subset
  <2>2. P = {pick[m] : m \in M} BY DEF AllMatchPriorities
  <2> HIDE DEF M
  <2>3. pick \in Surjection(M, P) BY <2>2 DEF Surjection
  <2>4. QED BY <2>1, <2>3, FS_Surjection
<1>6. prio \in [Live -> P] /\ \A i, j \in Live : prio[i] = prio[j] => i = j
  <2>1. ASSUME NEW i \in Live PROVE flows[i].priority \in P
    BY <1>4 DEF Sourced, SameFlow, AllMatchPriorities
  <2>2. \A i, j \in Live : prio[i] = prio[j] => SameFlow(flows[i], flows[j])
    BY <1>4 DEF SameFlow
  <2>3. QED BY <1>2, <2>1, <2>2
<1> HIDE DEF P, prio
<1>7. prio \in Injection(Live, P) BY <1>6 DEF Injection, IsInjective
<1>8. Cardinality(Live) <= Cardinality(P) BY <1>5, <1>7, FS_Injection
<1>9. Cardinality(P) \in Nat /\ max_entries \in Nat
  BY <1>5, FS_CardinalityType DEF IInv, RestOK
<1>10. QED BY <1>3, <1>8, <1>9 DEF P

\* The switch never evicts from a table where nothing can be evicted, when controllers
\* install fewer all-match flows than a table has room for.
THEOREM FewAllMatchesHold ==
  ASSUME IsFiniteSet(FlowMods)
  PROVE  Spec => []FewAllMatchesAreSafe
<1>1. Init => Sourced /\ FewAllMatchesAreSafe BY DEF Init, Sourced, Live, FewAllMatchesAreSafe
<1>2. /\ IInv /\ Sourced /\ FewAllMatchesAreSafe /\ [Next]_vars
      => Sourced' /\ FewAllMatchesAreSafe'
  <2> SUFFICES ASSUME IInv, Sourced, FewAllMatchesAreSafe, [Next]_vars
               PROVE  FewAllMatchesAreSafe'
    BY SourcedStep
  <2>1. FewAllMatchesAreSafe <=> (Cardinality(AllMatchPriorities) < max_entries => ~crashed)
    BY DEF FewAllMatchesAreSafe, AllMatchPriorities
  <2>2. FewAllMatchesAreSafe' <=> (Cardinality(AllMatchPriorities) < max_entries' => ~crashed')
    BY DEF FewAllMatchesAreSafe, AllMatchPriorities
  <2>3. ASSUME NEW mod \in FlowMods, EvictNothing(mod) PROVE FewAllMatchesAreSafe'
    <3>1. IsFull /\ Victims = {} /\ max_entries' = max_entries BY <2>3 DEF EvictNothing
    <3>2. QED BY <2>2, <3>1, FullOfAllMatch
  <2>4. ASSUME UNCHANGED <<max_entries, crashed>> PROVE FewAllMatchesAreSafe'
    BY <2>1, <2>2, <2>4
  <2>5. UNCHANGED <<max_entries, crashed>> \/ \E mod \in FlowMods : EvictNothing(mod)
    BY DEF Next, Common, AddWithTimestamp, Modify, Delete, Timeout, Lookup, Tick, vars
  <2>6. QED BY <2>3, <2>4, <2>5
<1>3. QED BY <1>1, <1>2, TableInvariant, PTL DEF Spec

-----------------------------------------------------------------------------
(* The messages for entries that leave                                       *)

\* One message for each entry that left for one reason, if it was to be announced.
LEMMA NoticesAreSingle ==
  ASSUME NEW T, IsFiniteSet(T), NEW why
  PROVE  LET N == {[id |-> i, reason |-> why[i]] : i \in T}
         IN  {n.id : n \in N} = T /\ Cardinality({n.id : n \in N}) = Cardinality(N)
<1> DEFINE N == {[id |-> i, reason |-> why[i]] : i \in T}
           f == [i \in T |-> [id |-> i, reason |-> why[i]]]
<1>1. \A i, j \in T : f[i] = f[j] => i = j
  <2>1. \A i \in T : f[i].id = i OBVIOUS
  <2> HIDE DEF f
  <2>2. QED BY <2>1
<1>2. N = {f[i] : i \in T} OBVIOUS
<1>3. {n.id : n \in N} = T
  <2>1. \A i \in T : [id |-> i, reason |-> why[i]].id = i OBVIOUS
  <2>2. QED BY <2>1
<1> HIDE DEF f, N
<1>4. Cardinality({f[i] : i \in T}) = Cardinality(T) BY <1>1, SameSize
<1>5. QED BY <1>2, <1>3, <1>4 DEF N

\* The entries R leave, perhaps with others that their ADD replaced.
LEMMA LeavingStep ==
  ASSUME NEW R \in SUBSET Live, IsFiniteSet(R), R \subseteq Live \ Live',
         (Live \ Live') \ R \subseteq ReplacedNow, NEW why,
         out'.removed = {[id |-> i, reason |-> why[i]] : i \in {r \in R : flows[r].send_removed}}
  PROVE  Announced
<1> DEFINE T == {r \in R : flows[r].send_removed}
           N == {[id |-> i, reason |-> why[i]] : i \in T}
<1>1. IsFiniteSet(T) BY FS_Subset
<1>2. out'.removed = N OBVIOUS
<1> HIDE DEF T
<1>3. {n.id : n \in N} = T /\ Cardinality({n.id : n \in N}) = Cardinality(N)
  BY <1>1, NoticesAreSingle
<1> HIDE DEF N
<1>4. QED BY <1>2, <1>3 DEF T, Announced

\* The messages for one reason.
LEMMA NoticesOf ==
  ASSUME NEW R, NEW reason
  PROVE  Notices(R, reason) =
           {[id |-> i, reason |-> [r \in R |-> reason][i]] : i \in {r \in R : flows[r].send_removed}}
BY DEF Notices

LEMMA AnnouncedStep ==
  ASSUME IInv, FeaturesNext
  PROVE  Announced
<1>1. Shape BY DEF IInv
<1>2. IsFiniteSet(Live)
  <2>1. match_entries \in Seq(Live) /\ NoRepeats(match_entries) /\ ToSet(match_entries) = Live
    BY <1>1 DEF Shape, MatchOK, Live
  <2>2. QED BY <2>1, LenIsCardinality
<1>3. ASSUME Live' = Live, out'.removed = {} PROVE Announced
  <2>1. \A r : r \in {n.id : n \in {}} <=> FALSE OBVIOUS
  <2>2. {n.id : n \in out'.removed} = {} BY <1>3
  <2>3. QED BY <1>3, <2>2 DEF Announced
<1>4. ASSUME NEW R \in SUBSET Live, NEW reason, out'.removed = Notices(R, reason),
             R \subseteq Live \ Live', (Live \ Live') \ R \subseteq ReplacedNow
      PROVE  Announced
  <2>1. IsFiniteSet(R) BY <1>2, FS_Subset
  <2>2. QED BY <1>4, <2>1, NoticesOf, LeavingStep
<1>5. ASSUME NEW R \in SUBSET Live, RemoveFlows(R)
      PROVE  Live \ Live' = R
  BY <1>5 DEF RemoveFlows, Live
<1>6. ASSUME NEW mod \in FlowMods, AddWithTimestamp(mod) PROVE Announced
  <2>1. PICK R \in Evictions :
           /\ out'.removed = Notices(R, "EVICTION")
           /\ \/ RemoveFlows(R)
              \/ \E id \in Ids \ Live : \/ \E old \in StopEntries(R, mod) :
                                             FindsSame(R, mod) /\ ReplaceFlow(R, old, id, mod)
                                        \/ InsertFlow(R, id, mod)
    BY <1>6, AddOut
  <2>2. R \in SUBSET Live BY EvictionsAreLive
  <2>3. CASE RemoveFlows(R) BY <1>4, <1>5, <2>1, <2>2, <2>3
  <2>4. ASSUME NEW id \in Ids \ Live, InsertFlow(R, id, mod) PROVE Announced
    <3>1. Live \ Live' = R BY <2>2, <2>4 DEF InsertFlow, Live
    <3>2. QED BY <1>4, <2>1, <2>2, <3>1
  <2>5. ASSUME NEW id \in Ids \ Live, NEW old \in StopEntries(R, mod), FindsSame(R, mod),
               ReplaceFlow(R, old, id, mod)
        PROVE  Announced
    <3>1. old \in Live \ R /\ SameFlow(flows[old], mod)
      <4>1. now \in Nat BY DEF IInv, RestOK
      <4>2. QED BY <1>1, <2>2, <2>5, <4>1, ReplaceFlowStep
    <3>2. Live \ Live' = R \cup {old} /\ id \in Live' \ Live /\ flows'[id] = NewFlow(mod)
      BY <2>2, <2>5, <3>1 DEF ReplaceFlow, Live
    <3>3. SameFlow(flows[old], flows'[id]) BY <3>1, <3>2 DEF SameFlow, NewFlow
    <3>4. old \in ReplacedNow BY <3>1, <3>2, <3>3 DEF ReplacedNow
    <3>5. QED BY <1>4, <2>1, <2>2, <3>2, <3>4
  <2>6. QED BY <2>1, <2>3, <2>4, <2>5
<1>7. ASSUME NEW mod \in FlowMods, Delete(mod) PROVE Announced
  <2>1. PICK R \in SUBSET Live : RemoveFlows(R) /\ out' = [Quiet("delete") EXCEPT !.removed = Notices(R, "DELETE")]
    BY <1>7 DEF Delete, Selected
  <2>2. out'.removed = Notices(R, "DELETE") BY <2>1 DEF Quiet
  <2>3. QED BY <1>4, <1>5, <2>1, <2>2
<1>8. ASSUME Timeout PROVE Announced
  <2> DEFINE H == HardSweep
             D == IdleSweep \ HardSweep
             R == H \cup D
             why == [i \in R |-> IF i \in H THEN "HARD_TIMEOUT" ELSE "IDLE_TIMEOUT"]
             N == {[id |-> i, reason |-> why[i]] : i \in {r \in R : flows[r].send_removed}}
  <2>1. RemoveFlows(R) /\ out' = [Quiet("timeout") EXCEPT
               !.removed = Notices(H, "HARD_TIMEOUT") \cup Notices(D, "IDLE_TIMEOUT")]
    BY <1>8 DEF Timeout
  <2>2. R \in SUBSET Live BY <1>1, SweepsAreLive
  <2>3. out'.removed = Notices(H, "HARD_TIMEOUT") \cup Notices(D, "IDLE_TIMEOUT")
    BY <2>1 DEF Quiet
  <2>4. H \cap D = {} OBVIOUS
  <2> HIDE DEF H, D
  <2>5. out'.removed = N
    <3>1. \A i \in H : why[i] = "HARD_TIMEOUT" OBVIOUS
    <3>2. \A i \in D : why[i] = "IDLE_TIMEOUT" BY <2>4
    <3> HIDE DEF why
    <3>3. \A n \in N : n \in out'.removed BY <2>3, <3>1, <3>2 DEF Notices
    <3>4. \A n \in out'.removed : n \in N
      <4> SUFFICES ASSUME NEW n \in out'.removed PROVE n \in N OBVIOUS
      <4>1. CASE n \in Notices(H, "HARD_TIMEOUT")
        <5>1. PICK i \in H : flows[i].send_removed /\ n = [id |-> i, reason |-> "HARD_TIMEOUT"]
          BY <4>1 DEF Notices
        <5>2. QED BY <3>1, <5>1
      <4>2. CASE n \in Notices(D, "IDLE_TIMEOUT")
        <5>1. PICK i \in D : flows[i].send_removed /\ n = [id |-> i, reason |-> "IDLE_TIMEOUT"]
          BY <4>2 DEF Notices
        <5>2. QED BY <3>2, <5>1
      <4>3. QED BY <2>3, <4>1, <4>2
    <3>5. QED BY <3>3, <3>4
  <2>6. IsFiniteSet(R) BY <1>2, <2>2, FS_Subset
  <2> HIDE DEF R, why
  <2>7. Live \ Live' = R BY <1>5, <2>1, <2>2
  <2>8. QED BY <2>2, <2>5, <2>6, <2>7, LeavingStep
<1>9. ASSUME NEW mod \in FlowMods, EvictNothing(mod) \/ Modify(mod) PROVE Announced
  <2>1. Live' = Live BY <1>9 DEF EvictNothing, Modify, Live
  <2>2. out'.removed = {}
    <3>1. out' = Quiet("add") \/ out' = Quiet("modify") BY <1>9 DEF EvictNothing, Modify
    <3>2. QED BY <3>1 DEF Quiet
  <2>3. QED BY <1>3, <2>1, <2>2
<1>10. ASSUME NEW p \in Packets, Lookup(p) PROVE Announced
  <2>1. Live' = Live BY <1>10 DEF Lookup, Live
  <2>2. out'.removed = {} BY <1>10 DEF Lookup, Quiet
  <2>3. QED BY <1>3, <2>1, <2>2
<1>11. ASSUME Tick \/ \E n \in FeatureSizes : SetFeatures(n) PROVE Announced
  <2>1. Live' = Live BY <1>11 DEF Tick, SetFeatures, Live
  <2>2. out'.removed = {}
    <3>1. out' = Quiet("tick") \/ out' = Quiet("features") BY <1>11 DEF Tick, SetFeatures
    <3>2. QED BY <3>1 DEF Quiet
  <2>3. QED BY <1>3, <2>1, <2>2
<1>12. QED BY <1>6, <1>7, <1>8, <1>9, <1>10, <1>11 DEF FeaturesNext, Next, Common

\* Every entry that leaves is announced once, if that was asked for, unless its own
\* ADD replaced it; whatever controllers do to the size of the table.
THEOREM LeavingHolds == FeaturesSpec => LeavingIsAnnounced
<1>1. IInv /\ [FeaturesNext]_vars => [Announced]_vars BY AnnouncedStep
<1>2. QED BY <1>1, FeaturesInvariant, PTL DEF FeaturesSpec, LeavingIsAnnounced

-----------------------------------------------------------------------------
(* Insertion order                                                           *)

\* Unlinking entries changes no order.
LEMMA RemoveKeepsOrder ==
  ASSUME Shape, NEW R, match_entries' = Without(match_entries, R), Live' = Live \ R
  PROVE  OrderKept
<1>1. match_entries \in Seq(Live) /\ NoRepeats(match_entries) BY DEF Shape, MatchOK, Live
<1>2. ASSUME NEW a \in Live \cap Live', NEW b \in Live \cap Live', Precedes(match_entries, a, b)
      PROVE  Precedes(match_entries', a, b)
  <2>1. a \notin R /\ b \notin R OBVIOUS
  <2>2. QED BY <1>1, <1>2, <2>1, WithoutPrecedes
<1>3. QED BY <1>2 DEF OrderKept

\* A new entry stands behind those of its priority.
LEMMA InsertKeepsOrder ==
  ASSUME Shape, now \in Nat, NEW R \in SUBSET Live, NEW mod \in FlowMods, FindsPlace(R, mod),
         NEW id \in Ids \ Live, InsertFlow(R, id, mod)
  PROVE  OrderKept
<1> DEFINE s == Without(match_entries, R)
           k == Stop(R, mod)
           E == (Live \ R) \cup {id}
<1>1. match_entries \in Seq(Live) /\ NoRepeats(match_entries) /\ ToSet(match_entries) = Live
  BY DEF Shape, MatchOK, Live
<1>2. s \in Seq(Live \ R) /\ k \in 1..(Len(s) + 1) BY StopPosition
<1>3. ToSet(s) = Live \ R BY <1>1, WithoutShape
<1>4. match_entries' = InsertAt(s, k, id) BY DEF InsertFlow
<1>5. Live' = E /\ flows'[id].priority = mod.priority /\ \A a \in Live \ R : flows'[a] = flows[a]
  BY DEF InsertFlow, Live, NewFlow
<1>6. flows \in [Live -> Flow] /\ mod.priority \in Nat
  BY FlowModsAssumption DEF Shape, Live, FlowMod
<1>7. \A i \in 1..Len(s) : i >= k => mod.priority > flows[s[i]].priority BY PlaceFound
<1>8. \A a, b : a \notin R /\ b \notin R /\ Precedes(match_entries, a, b) => Precedes(s, a, b)
  BY <1>1, WithoutPrecedes
<1>9. s \in Seq(E) /\ id \in E BY <1>2, SeqMonotonic
<1> HIDE DEF s, k, E
<1>10. /\ \A a, b : Precedes(s, a, b) => Precedes(match_entries', a, b)
       /\ \A i \in 1..Len(s) : i < k => Precedes(match_entries', s[i], id)
  BY <1>2, <1>4, <1>9, InsertAtPrecedes
<1>11. ASSUME NEW a \in Live \cap Live', flows'[a].priority = mod.priority
       PROVE  Precedes(match_entries', a, id)
  <2>1. a \in Live \ R BY <1>5 DEF E
  <2>2. PICK i \in 1..Len(s) : s[i] = a BY <1>3, <2>1 DEF ToSet
  <2>3. ~(mod.priority > flows[a].priority) BY <1>5, <1>6, <1>11, <2>1
  <2>4. i < k BY <1>2, <1>7, <2>2, <2>3
  <2>5. QED BY <1>10, <2>2, <2>4
<1>12. QED BY <1>5, <1>8, <1>10, <1>11 DEF OrderKept, E

\* An entry that took the place of another changes no order.
LEMMA ReplaceKeepsOrder ==
  ASSUME Shape, now \in Nat, NEW R \in SUBSET Live, NEW mod \in FlowMods, FindsSame(R, mod),
         NEW old \in StopEntries(R, mod), NEW id \in Ids \ Live, ReplaceFlow(R, old, id, mod)
  PROVE  OrderKept
<1> DEFINE s == Without(match_entries, R)
<1>1. match_entries \in Seq(Live) /\ NoRepeats(match_entries) /\ ToSet(match_entries) = Live
  BY DEF Shape, MatchOK, Live
<1>2. old \in Live \ R /\ SameFlow(flows[old], mod) BY ReplaceFlowStep
<1>3. s \in Seq(Live \ R) /\ ToSet(s) = Live \ R BY <1>1, WithoutShape
<1>4. NoRepeats(s) BY <1>1, WithoutNoRepeats
<1>5. match_entries' = ReplaceAll(s, old, id) BY DEF ReplaceFlow
<1>6. Live' = (Live \ (R \cup {old})) \cup {id} /\ flows'[id] = NewFlow(mod)
  BY DEF ReplaceFlow, Live
<1>7. \A a, b : a \notin R /\ b \notin R /\ Precedes(match_entries, a, b) => Precedes(s, a, b)
  BY <1>1, WithoutPrecedes
<1> HIDE DEF s
<1>8. Replaced(match_entries', s, old, id)
  <2>1. old \in ToSet(s) /\ id \notin ToSet(s) BY <1>2, <1>3
  <2>2. QED BY <1>3, <1>4, <1>5, <2>1, ReplaceAllElements
<1>9. \A a, b : a # old /\ b # old /\ Precedes(s, a, b) => Precedes(match_entries', a, b)
  BY <1>3, <1>8, ReplacedPrecedes
<1>10. SameFlow(flows[old], flows'[id]) BY <1>2, <1>6 DEF SameFlow, NewFlow
<1>11. QED BY <1>2, <1>6, <1>7, <1>9, <1>10 DEF OrderKept

LEMMA OrderStep ==
  ASSUME IInv, FeaturesNext
  PROVE  OrderKept
<1>1. Shape /\ now \in Nat BY DEF IInv, RestOK
<1>2. ASSUME Live' = Live, UNCHANGED match_entries PROVE OrderKept BY <1>2 DEF OrderKept
<1>3. ASSUME NEW R, RemoveFlows(R) PROVE OrderKept
  <2>1. match_entries' = Without(match_entries, R) /\ Live' = Live \ R
    BY <1>3 DEF RemoveFlows, Live
  <2>2. QED BY <1>1, <2>1, RemoveKeepsOrder
<1>4. ASSUME NEW mod \in FlowMods, AddWithTimestamp(mod) PROVE OrderKept
  <2>1. PICK R \in Evictions :
           \/ RemoveFlows(R)
           \/ \E id \in Ids \ Live : \/ \E old \in StopEntries(R, mod) :
                                          FindsSame(R, mod) /\ ReplaceFlow(R, old, id, mod)
                                     \/ FindsPlace(R, mod) /\ InsertFlow(R, id, mod)
    BY <1>4, AddOut
  <2>2. R \in SUBSET Live BY EvictionsAreLive
  <2>3. ASSUME NEW id \in Ids \ Live, FindsPlace(R, mod), InsertFlow(R, id, mod) PROVE OrderKept
    BY <1>1, <2>2, <2>3, InsertKeepsOrder
  <2>4. ASSUME NEW id \in Ids \ Live, NEW old \in StopEntries(R, mod), FindsSame(R, mod),
               ReplaceFlow(R, old, id, mod)
        PROVE  OrderKept
    BY <1>1, <2>2, <2>4, ReplaceKeepsOrder
  <2>5. QED BY <1>3, <2>1, <2>3, <2>4
<1>5. ASSUME NEW mod \in FlowMods, Delete(mod) PROVE OrderKept BY <1>3, <1>5 DEF Delete
<1>6. ASSUME Timeout PROVE OrderKept BY <1>3, <1>6 DEF Timeout
<1>7. ASSUME NEW mod \in FlowMods, EvictNothing(mod) \/ Modify(mod) PROVE OrderKept
  BY <1>2, <1>7 DEF EvictNothing, Modify, Live, lists
<1>8. ASSUME NEW p \in Packets, Lookup(p) PROVE OrderKept
  BY <1>2, <1>8 DEF Lookup, Live, lists
<1>9. ASSUME Tick \/ \E n \in FeatureSizes : SetFeatures(n) PROVE OrderKept
  BY <1>2, <1>9 DEF Tick, SetFeatures, Live, lists
<1>10. QED BY <1>4, <1>5, <1>6, <1>7, <1>8, <1>9 DEF FeaturesNext, Next, Common

\* The match list is in priority and then in insertion order, step by step.
THEOREM InsertionOrderHolds == FeaturesSpec => InsertionOrder
<1>1. IInv /\ [FeaturesNext]_vars => [OrderKept]_vars BY OrderStep
<1>2. QED BY <1>1, FeaturesInvariant, PTL DEF FeaturesSpec, InsertionOrder

-----------------------------------------------------------------------------
(* The table implements FlowMap                                              *)

\* The flows of the entries S.
FlowsOf(S) == {flows[i] : i \in S}

\* What the refinement needs of a state.
MapInv == IInv /\ max_entries = MaxEntries

\* Entries are flows: no two of them the same, as many as the table counts.
LEMMA EntriesAreFlows ==
  ASSUME Shape
  PROVE  /\ \A i, j \in Live : flows[i] = flows[j] => i = j
         /\ Cardinality(FlowsOf(Live)) = Len(match_entries)
<1>1. match_entries \in Seq(Live) /\ NoRepeats(match_entries) /\ ToSet(match_entries) = Live
  BY DEF Shape, MatchOK, Live
<1>2. \A i, j \in Live : flows[i] = flows[j] => i = j BY DEF Shape, MatchOK, Live, SameFlow
<1>3. IsFiniteSet(Live) /\ Cardinality(Live) = Len(match_entries) BY <1>1, LenIsCardinality
<1>4. QED BY <1>2, <1>3, SameSize DEF FlowsOf

\* Removing entries removes their flows.
LEMMA RemoveFlowsOf ==
  ASSUME Shape, NEW R \in SUBSET Live
  PROVE  /\ FlowsOf(Live \ R) = FlowsOf(Live) \ FlowsOf(R)
         /\ RemoveFlows(R) => FlowsOf(Live)' = FlowsOf(Live \ R)
<1>1. \A i, j \in Live : flows[i] = flows[j] => i = j BY EntriesAreFlows
<1>2. FlowsOf(Live \ R) = FlowsOf(Live) \ FlowsOf(R) BY <1>1 DEF FlowsOf
<1>3. ASSUME RemoveFlows(R) PROVE FlowsOf(Live)' = FlowsOf(Live \ R)
  <2>1. flows' = [i \in Live \ R |-> flows[i]] BY <1>3 DEF RemoveFlows
  <2>2. Live' = Live \ R BY <2>1 DEF Live
  <2>3. QED BY <2>1, <2>2 DEF FlowsOf
<1>4. QED BY <1>2, <1>3

\* lru_evict makes room at the cost the abstract table allows.
LEMMA EvictionGivesWay ==
  ASSUME MapInv, UseLru, NEW R \in Evictions
  PROVE  R \in SUBSET Live /\ FlowsOf(R) \in Map!GivesWay
<1>1. Shape /\ active_count = Len(match_entries) /\ max_entries = MaxEntries BY DEF MapInv, IInv
<1>2. R \in SUBSET Live BY EvictionsAreLive
<1>3. IsFull <=> Cardinality(FlowsOf(Live)) = MaxEntries BY <1>1, EntriesAreFlows DEF IsFull
<1>4. Map!GivesWay = IF Cardinality(FlowsOf(Live)) = MaxEntries
                     THEN {{f} : f \in Map!Stalest} ELSE {{}}
  <2>1. Map!Cardinality(FlowsOf(Live)) = Cardinality(FlowsOf(Live))
    BY DEF Map!Cardinality, Cardinality
  <2>2. QED BY <2>1 DEF Map!GivesWay, FlowsOf
<1>5. CASE ~IsFull
  <2>1. R = {} BY <1>5 DEF Evictions
  <2>2. FlowsOf(R) = {} BY <2>1 DEF FlowsOf
  <2>3. QED BY <1>2, <1>3, <1>4, <1>5, <2>2
<1>6. CASE IsFull
  <2>1. PICK v \in LeastRecent(Evictable) : R = {v} BY <1>6 DEF Evictions, Victims
  <2>2. v \in Evictable /\ \A j \in Evictable : \/ flows[v].last_used < flows[j].last_used
                                                \/ flows[v].last_used = flows[j].last_used
    BY DEF LeastRecent
  <2>3. \A i \in Live : flows[i].last_used \in Nat BY <1>1 DEF Shape, Live, Flow
  <2>4. \A j \in Live : flows[j].match = Packets \/ flows[v].last_used <= flows[j].last_used
    BY <2>2, <2>3 DEF Evictable, IsAllMatch
  <2>5. v \in Live /\ flows[v].match # Packets BY <2>2 DEF Evictable, IsAllMatch
  <2>6. flows[v] \in Map!Stalest BY <2>4, <2>5 DEF Map!Stalest
  <2>7. FlowsOf(R) = {flows[v]} BY <2>1 DEF FlowsOf
  <2>8. QED BY <1>2, <1>3, <1>4, <1>6, <2>6, <2>7
<1>7. QED BY <1>5, <1>6

\* An ADD is an Install: an overlap, a replacement or a new entry.
LEMMA AddInstalls ==
  ASSUME MapInv, UseLru, NEW mod \in FlowMods, AddWithTimestamp(mod)
  PROVE  Map!Install(mod)
<1>1. Shape /\ now \in Nat BY DEF MapInv, IInv, RestOK
<1>2. mod.command = "ADD" /\ now' = now BY DEF AddWithTimestamp
<1>3. PICK R \in Evictions :
       \/ FindsOverlap(R, mod) /\ RemoveFlows(R)
       \/ \E id \in Ids \ Live : \/ \E old \in StopEntries(R, mod) :
                                      FindsSame(R, mod) /\ ReplaceFlow(R, old, id, mod)
                                 \/ FindsPlace(R, mod) /\ InsertFlow(R, id, mod)
  BY DEF AddWithTimestamp
<1>4. R \in SUBSET Live /\ FlowsOf(R) \in Map!GivesWay BY EvictionGivesWay
<1> DEFINE rest == FlowsOf(Live \ R)
<1>5. rest = FlowsOf(Live) \ FlowsOf(R) BY <1>1, <1>4, RemoveFlowsOf
<1>6. ASSUME \/ /\ mod.check_overlap
                /\ \E f \in rest : Map!Conflict(f, mod)
                /\ FlowsOf(Live)' = rest
             \/ /\ \/ \E f \in rest : Map!Same(f, mod)
                   \/ ~mod.check_overlap
                   \/ \A f \in rest : ~Map!Conflict(f, mod)
                /\ FlowsOf(Live)' = {f \in rest : ~Map!Same(f, mod)} \cup {Map!Fresh(mod)}
      PROVE  Map!Install(mod)
  <2> HIDE DEF rest
  <2>1. QED BY <1>2, <1>4, <1>5, <1>6 DEF Map!Install, FlowsOf
<1>7. \A i \in Live : Map!Same(flows[i], mod) <=> SameFlow(flows[i], mod)
  BY DEF Map!Same, SameFlow
<1>8. \A i \in Live : Map!Conflict(flows[i], mod) <=> Overlaps(flows[i], mod)
  BY DEF Map!Conflict, Overlaps, HasOut
<1>9. NewFlow(mod) = Map!Fresh(mod) BY DEF NewFlow, Map!Fresh
<1>10. CASE FindsOverlap(R, mod) /\ RemoveFlows(R)
  <2>1. FlowsOf(Live)' = rest BY <1>1, <1>4, <1>10, RemoveFlowsOf
  <2>2. PICK old \in StopEntries(R, mod) : mod.check_overlap /\ Overlaps(flows[old], mod)
    BY <1>10 DEF FindsOverlap
  <2>3. old \in Live \ R
    <3> DEFINE s == Without(match_entries, R)
    <3>1. s \in Seq(Live \ R) /\ StopEntries(R, mod) = {s[i] : i \in {Stop(R, mod)} \cap 1..Len(s)}
      BY <1>1, <1>4, StopPosition
    <3> HIDE DEF s
    <3>2. QED BY <3>1
  <2>4. QED BY <1>6, <1>8, <2>1, <2>2, <2>3 DEF FlowsOf
<1>11. ASSUME NEW id \in Ids \ Live, NEW old \in StopEntries(R, mod), FindsSame(R, mod),
              ReplaceFlow(R, old, id, mod)
       PROVE  Map!Install(mod)
  <2>1. old \in Live \ R /\ SameFlow(flows[old], mod) BY <1>1, <1>4, <1>11, ReplaceFlowStep
  <2>2. \A i \in Live \ R : SameFlow(flows[i], mod) <=> i = old
    BY <1>1, <2>1 DEF Shape, MatchOK, Live, SameFlow
  <2>3. flows' = [i \in (Live \ (R \cup {old})) \cup {id} |->
                    IF i = id THEN NewFlow(mod) ELSE flows[i]]
    BY <1>11 DEF ReplaceFlow
  <2>4. FlowsOf(Live)' = FlowsOf((Live \ R) \ {old}) \cup {NewFlow(mod)}
    <3>1. Live' = ((Live \ R) \ {old}) \cup {id} BY <2>3 DEF Live
    <3>2. QED BY <2>3, <3>1 DEF FlowsOf
  <2>5. FlowsOf((Live \ R) \ {old}) = {f \in rest : ~Map!Same(f, mod)}
    BY <1>7, <2>2 DEF FlowsOf
  <2>6. \E f \in rest : Map!Same(f, mod) BY <1>7, <2>1 DEF FlowsOf
  <2> HIDE DEF rest
  <2>7. QED BY <1>6, <1>9, <2>4, <2>5, <2>6
<1>12. ASSUME NEW id \in Ids \ Live, FindsPlace(R, mod), InsertFlow(R, id, mod)
       PROVE  Map!Install(mod)
  <2> DEFINE s == Without(match_entries, R)
  <2>1. \A i \in 1..Len(s) : /\ ~SameFlow(flows[s[i]], mod)
                             /\ ~(mod.check_overlap /\ Overlaps(flows[s[i]], mod))
    BY <1>1, <1>4, <1>12, PlaceFound
  <2>2. ToSet(s) = Live \ R
    <3>1. match_entries \in Seq(Live) /\ ToSet(match_entries) = Live
      BY <1>1 DEF Shape, MatchOK, Live
    <3>2. QED BY <3>1, WithoutShape
  <2> HIDE DEF s
  <2>3. \A i \in Live \ R : /\ ~SameFlow(flows[i], mod)
                            /\ ~(mod.check_overlap /\ Overlaps(flows[i], mod))
    BY <2>1, <2>2 DEF ToSet
  <2>4. flows' = [i \in (Live \ R) \cup {id} |-> IF i = id THEN NewFlow(mod) ELSE flows[i]]
    BY <1>12 DEF InsertFlow
  <2>5. FlowsOf(Live)' = rest \cup {NewFlow(mod)}
    <3>1. Live' = (Live \ R) \cup {id} BY <2>4 DEF Live
    <3>2. QED BY <2>4, <3>1 DEF FlowsOf
  <2>6. rest = {f \in rest : ~Map!Same(f, mod)} BY <1>7, <2>3 DEF FlowsOf
  <2>7. ~mod.check_overlap \/ \A f \in rest : ~Map!Conflict(f, mod) BY <1>8, <2>3 DEF FlowsOf
  <2> HIDE DEF rest
  <2>8. QED BY <1>6, <1>9, <2>5, <2>6, <2>7
<1>13. QED BY <1>3, <1>10, <1>11, <1>12

\* A MODIFY rewrites the flows it selects.
LEMMA ModifyRewrites ==
  ASSUME NEW mod \in FlowMods, Modify(mod)
  PROVE  Map!Rewrite(mod)
<1>1. /\ mod.command \in {"MODIFY", "MODIFY_STRICT"} /\ now' = now
      /\ flows' = [i \in Live |-> IF i \in Selected(mod) THEN [flows[i] EXCEPT !.insts = mod.insts]
                                  ELSE flows[i]]
  BY DEF Modify
<1>2. Live' = Live BY <1>1 DEF Live
<1>3. \A i \in Live : i \in Selected(mod) <=> flows[i] \in Map!Chosen(mod)
  BY DEF Selected, Map!Chosen, CookieMatches, Map!CookieFits, SameFlow, Map!Same
<1>4. Map!Chosen(mod) \subseteq FlowsOf(Live) BY DEF Map!Chosen, FlowsOf
<1> DEFINE C == Map!Chosen(mod)
           new == {[f EXCEPT !.insts = mod.insts] : f \in C}
<1> HIDE DEF C
<1>5. FlowsOf(Live)' = (FlowsOf(Live) \ C) \cup new
  <2>1. FlowsOf(Live)' = {flows'[i] : i \in Live} BY <1>2 DEF FlowsOf
  <2>2. ASSUME NEW i \in Live PROVE flows'[i] \in (FlowsOf(Live) \ C) \cup new
    <3>1. CASE i \in Selected(mod)
      <4>1. flows[i] \in C /\ flows'[i] = [flows[i] EXCEPT !.insts = mod.insts]
        BY <1>1, <1>3, <3>1 DEF C
      <4>2. QED BY <4>1
    <3>2. CASE i \notin Selected(mod)
      <4>1. flows[i] \notin C /\ flows'[i] = flows[i] BY <1>1, <1>3, <3>2 DEF C
      <4>2. QED BY <4>1 DEF FlowsOf
    <3>3. QED BY <3>1, <3>2
  <2>3. ASSUME NEW f \in FlowsOf(Live) \ C PROVE \E i \in Live : flows'[i] = f
    <3>1. PICK i \in Live : flows[i] = f BY DEF FlowsOf
    <3>2. i \notin Selected(mod) BY <1>3, <3>1 DEF C
    <3>3. QED BY <1>1, <3>1, <3>2
  <2>4. ASSUME NEW g \in new PROVE \E i \in Live : flows'[i] = g
    <3>1. PICK f \in C : g = [f EXCEPT !.insts = mod.insts] OBVIOUS
    <3>2. PICK i \in Live : flows[i] = f BY <1>4 DEF FlowsOf, C
    <3>3. i \in Selected(mod) BY <1>3, <3>2 DEF C
    <3>4. QED BY <1>1, <3>1, <3>2, <3>3
  <2> HIDE DEF new
  <2>5. QED BY <2>1, <2>2, <2>3, <2>4
<1>6. QED BY <1>1, <1>5 DEF Map!Rewrite, FlowsOf, C

\* A DELETE removes exactly the flows it selects.
LEMMA DeleteRemoves ==
  ASSUME Shape, NEW mod \in FlowMods, Delete(mod)
  PROVE  Map!Remove(mod)
<1> DEFINE R == {i \in Selected(mod) : HasOut(flows[i], mod)}
<1>1. /\ mod.command \in {"DELETE", "DELETE_STRICT"} /\ now' = now
      /\ RemoveFlows(R) /\ R \in SUBSET Live
  BY DEF Delete, Selected
<1>2. FlowsOf(Live)' = FlowsOf(Live \ R)
  <2> HIDE DEF R
  <2>1. QED BY <1>1, RemoveFlowsOf
<1>3. \A i \in Live : i \in R <=> flows[i] \in Map!Chosen(mod) /\ mod.out \subseteq flows[i].insts
  BY DEF Selected, Map!Chosen, CookieMatches, Map!CookieFits, SameFlow, Map!Same, HasOut
<1> DEFINE C == Map!Chosen(mod)
<1> HIDE DEF R, C
<1>4. FlowsOf(Live \ R) = {f \in FlowsOf(Live) : f \notin C \/ ~(mod.out \subseteq f.insts)}
  BY <1>3 DEF FlowsOf, C
<1>5. QED BY <1>1, <1>2, <1>4 DEF Map!Remove, FlowsOf, C

\* A sweep removes exactly the flows whose time is over.
LEMMA TimeoutExpires ==
  ASSUME Shape, now \in Nat, Timeout
  PROVE  Map!Expire
<1> DEFINE R == HardSweep \cup (IdleSweep \ HardSweep)
<1>1. RemoveFlows(R) /\ R \in SUBSET Live /\ now' = now BY SweepsAreLive DEF Timeout
<1>2. \A i \in R : HardExpired(flows[i]) \/ IdleExpired(flows[i])
  <2>1. hard_entries \in Seq(Live) BY DEF Shape, HardOK, Live
  <2>2. \A i \in HardSweep : HardExpired(flows[i]) BY <2>1 DEF HardSweep
  <2>3. \A i \in IdleSweep : IdleExpired(flows[i]) BY DEF IdleSweep
  <2>4. QED BY <2>2, <2>3
<1>3. \A i \in Live \ R : ~HardExpired(flows[i]) /\ ~IdleExpired(flows[i])
  <2>1. SweepComplete' /\ out'.op = "timeout" BY TimeoutSweepsAll, OpOfStep
  <2>2. Live' = Live \ R /\ \A i \in Live \ R : flows'[i] = flows[i]
    BY <1>1 DEF RemoveFlows, Live
  <2>3. \A i \in Live' : ~HardExpired(flows[i])' /\ ~IdleExpired(flows[i])'
    BY <2>1 DEF SweepComplete
  <2> HIDE DEF R
  <2>4. QED BY <1>1, <2>2, <2>3 DEF HardExpired, IdleExpired
<1> HIDE DEF R
<1>4. FlowsOf(Live)' = FlowsOf(Live \ R) BY <1>1, RemoveFlowsOf
<1> DEFINE stays(f) == /\ f.remove_at = 0 \/ now <= f.remove_at
                       /\ f.idle = 0 \/ now <= f.last_used + f.idle
<1>5. \A i \in Live : i \in Live \ R <=> stays(flows[i])
  <2>1. \A i \in Live : flows[i].remove_at \in Nat /\ flows[i].idle \in Nat
                        /\ flows[i].last_used \in Nat
    BY DEF Shape, Live, Flow
  <2>2. \A i \in Live : stays(flows[i]) <=> ~HardExpired(flows[i]) /\ ~IdleExpired(flows[i])
    BY <2>1 DEF HardExpired, IdleExpired
  <2> HIDE DEF stays
  <2>3. QED BY <1>2, <1>3, <2>2
<1>6. FlowsOf(Live \ R) = {f \in FlowsOf(Live) : stays(f)}
  <2> HIDE DEF stays
  <2>1. QED BY <1>5 DEF FlowsOf
<1>7. QED BY <1>1, <1>4, <1>6 DEF Map!Expire, FlowsOf

\* A packet uses one flow of the highest priority, or none.
LEMMA LookupUses ==
  ASSUME Shape, NEW p \in Packets, Lookup(p)
  PROVE  Map!Use(p) \/ UNCHANGED Map!vars
<1> DEFINE P == {k \in 1..Len(match_entries) : p \in flows[match_entries[k]].match}
           n == FirstOf(match_entries, P)
           found == {match_entries[i] : i \in 1..Len(match_entries) \cap {n}}
<1>1. /\ flows' = [i \in Live |-> IF i \in found THEN [flows[i] EXCEPT !.last_used = now]
                                  ELSE flows[i]]
      /\ out'.hit = found /\ out'.packets = {p} /\ out'.op = "lookup" /\ now' = now
  BY DEF Lookup, Quiet
<1>2. Live' = Live BY <1>1 DEF Live
<1>3. FlowsOf(Live)' = {flows'[i] : i \in Live} BY <1>2 DEF FlowsOf
<1>4. found = {} \/ found = {match_entries[n]} OBVIOUS
<1>5. LookupIsBest' BY LookupFindsBest
<1>6. \A i \in Live : flows'[i].match = flows[i].match /\ flows'[i].priority = flows[i].priority
  <2> HIDE DEF found
  <2>1. \A i \in Live : flows[i] \in Flow BY DEF Shape, Live
  <2>2. QED BY <1>1, <2>1 DEF Flow
<1> HIDE DEF found, n, P
<1>7. CASE found = {}
  <2>1. \A i \in Live : flows'[i] = flows[i] BY <1>1, <1>7
  <2>2. FlowsOf(Live)' = FlowsOf(Live) BY <1>3, <2>1 DEF FlowsOf
  <2>3. QED BY <1>1, <2>2 DEF Map!vars, FlowsOf
<1>8. CASE found # {}
  <2> DEFINE h == match_entries[n]
             f == flows[h]
             g == [f EXCEPT !.last_used = now]
  <2>1. found = {h} BY <1>4, <1>8
  <2> HIDE DEF h
  <2>2. /\ h \in Live' /\ p \in flows'[h].match
        /\ \A i \in Live' : p \in flows'[i].match => flows'[i].priority <= flows'[h].priority
    BY <1>1, <1>5, <2>1 DEF LookupIsBest
  <2>3. h \in Live /\ p \in f.match
        /\ \A i \in Live : p \in flows[i].match => flows[i].priority <= f.priority
    BY <1>2, <1>6, <2>2
  <2>4. \A i \in Live : flows[i] = f => i = h BY <2>3, EntriesAreFlows
  <2>5. flows'[h] = g /\ \A i \in Live \ {h} : flows'[i] = flows[i] BY <1>1, <2>1, <2>3
  <2> HIDE DEF g
  <2>6. FlowsOf(Live)' = (FlowsOf(Live) \ {f}) \cup {g} BY <1>3, <2>3, <2>4, <2>5 DEF FlowsOf
  <2>7. f \in FlowsOf(Live) /\ \A e \in FlowsOf(Live) : p \in e.match => e.priority <= f.priority
    BY <2>3 DEF FlowsOf
  <2> HIDE DEF f
  <2>8. QED BY <1>1, <2>3, <2>6, <2>7 DEF Map!Use, FlowsOf, g
<1>9. QED BY <1>7, <1>8

\* With LRU eviction the table is the set of flows that flow_table.h promises: every
\* step of the lists is a step of the set, or leaves it alone.
THEOREM MapHolds ==
  ASSUME UseLru
  PROVE  Spec => ImplementsFlowMap
<1>1. Init => Map!Init
  <2> SUFFICES ASSUME Init PROVE Map!Init OBVIOUS
  <2>1. Live = {} /\ now = 1 BY DEF Init, Live
  <2>2. QED BY <2>1 DEF Map!Init
<1>2. Init => max_entries = MaxEntries BY DEF Init
<1>3. max_entries = MaxEntries /\ [Next]_vars => (max_entries = MaxEntries)'
  BY DEF Next, Common, AddWithTimestamp, EvictNothing, Modify, Delete, Timeout, Lookup, Tick, vars
<1>4. MapInv /\ [Next]_vars => [Map!Next]_(Map!vars)
  <2> SUFFICES ASSUME MapInv, [Next]_vars PROVE Map!Next \/ UNCHANGED Map!vars OBVIOUS
  <2>1. Shape /\ now \in Nat BY DEF MapInv, IInv, RestOK
  <2>2. ASSUME UNCHANGED <<flows, now>> PROVE UNCHANGED Map!vars
    BY <2>2 DEF Map!vars, Live
  <2>3. ASSUME NEW mod \in FlowMods, AddWithTimestamp(mod) PROVE Map!Next
    BY <2>3, AddInstalls DEF Map!Next
  <2>4. ASSUME NEW mod \in FlowMods, EvictNothing(mod) PROVE UNCHANGED Map!vars
    BY <2>2, <2>4 DEF EvictNothing
  <2>5. ASSUME NEW mod \in FlowMods, Modify(mod) PROVE Map!Next
    BY <2>5, ModifyRewrites DEF Map!Next
  <2>6. ASSUME NEW mod \in FlowMods, Delete(mod) PROVE Map!Next
    BY <2>1, <2>6, DeleteRemoves DEF Map!Next
  <2>7. ASSUME Timeout PROVE Map!Next BY <2>1, <2>7, TimeoutExpires DEF Map!Next
  <2>8. ASSUME NEW p \in Packets, Lookup(p) PROVE Map!Next \/ UNCHANGED Map!vars
    BY <2>1, <2>8, LookupUses DEF Map!Next
  <2>9. ASSUME Tick PROVE Map!Next
    <3>1. now' = now + 1 /\ flows' = flows BY <2>9 DEF Tick
    <3>2. Map!Pass BY <3>1 DEF Map!Pass, Live
    <3>3. QED BY <3>2 DEF Map!Next
  <2>10. ASSUME UNCHANGED vars PROVE UNCHANGED Map!vars BY <2>2, <2>10 DEF vars
  <2>11. QED BY <2>3, <2>4, <2>5, <2>6, <2>7, <2>8, <2>9, <2>10 DEF Next, Common
<1>5. MapInv <=> IInv /\ max_entries = MaxEntries BY DEF MapInv
<1>6. QED BY <1>1, <1>2, <1>3, <1>4, <1>5, TableInvariant, PTL DEF Spec, ImplementsFlowMap, Map!Spec

-----------------------------------------------------------------------------
(***************************************************************************)
(* The table compares matches as sets of packets.  That the comparisons of *)
(* match_std.c (StandardMatch) are those of the sets is proved here for    *)
(* any fields, however many bits they have, and all the packets there are: *)
(* packets that have chosen fields only, with chosen values, tell two      *)
(* matches apart.                                                          *)
(***************************************************************************)
FM(h, t, k) == Std!FieldMatches(h, t, k)

\* How one field is compared, case by case.
LEMMA FieldCases ==
  ASSUME VlanVid # Exthdr, NEW h, NEW t, NEW k
  PROVE  /\ h[1] \notin DOMAIN k => (FM(h, t, k) <=> h[1] = VlanVid /\ ~h[2] /\ t.value = {})
         /\ h[1] \in DOMAIN k /\ h[1] = VlanVid =>
              (FM(h, t, k) <=> /\ t.value # {}
                               /\ \/ t.value = {Present}
                                  \/ Std!Differ(t.value \ {Present}, k[h[1]]) \cap t.mask = {})
         /\ h[1] \in DOMAIN k /\ h[1] = Exthdr => (FM(h, t, k) <=> t.value \subseteq k[h[1]])
         /\ h[1] \in DOMAIN k /\ h[1] # VlanVid /\ h[1] # Exthdr =>
              (FM(h, t, k) <=> Std!Differ(t.value, k[h[1]]) \cap t.mask = {})
BY DEF FM, Std!FieldMatches, Std!FieldOf, Std!HasMask

\* It depends on that field of the packet alone.
LEMMA FieldAlone ==
  ASSUME VlanVid # Exthdr, NEW h, NEW t, NEW k, NEW l,
         h[1] \in DOMAIN k <=> h[1] \in DOMAIN l, h[1] \in DOMAIN k => k[h[1]] = l[h[1]]
  PROVE  FM(h, t, k) <=> FM(h, t, l)
<1> DEFINE f == h[1]
<1> HIDE DEF f
<1>1. CASE f \notin DOMAIN k
  <2>1. f \notin DOMAIN l BY <1>1 DEF f
  <2>2. QED BY <1>1, <2>1, FieldCases DEF f
<1>2. CASE f \in DOMAIN k
  <2>1. f \in DOMAIN l /\ k[f] = l[f] BY <1>2 DEF f
  <2>2. CASE f = VlanVid BY <1>2, <2>1, <2>2, FieldCases DEF f
  <2>3. CASE f = Exthdr BY <1>2, <2>1, <2>3, FieldCases DEF f
  <2>4. CASE f # VlanVid /\ f # Exthdr BY <1>2, <2>1, <2>4, FieldCases DEF f
  <2>5. QED BY <2>2, <2>3, <2>4
<1>3. QED BY <1>1, <1>2

NoHeaders == [f \in {} |-> {}]
JustOne(f, x) == [g \in {f} |-> x]

LEMMA SmallPackets ==
  /\ NoHeaders \in Std!AllPackets /\ DOMAIN NoHeaders = {}
  /\ \A f \in DOMAIN Bits : \A x \in Std!Contents(f) :
       JustOne(f, x) \in Std!AllPackets /\ DOMAIN JustOne(f, x) = {f} /\ JustOne(f, x)[f] = x
<1>1. NoHeaders \in [{} -> SUBSET Std!AllBits] /\ DOMAIN NoHeaders = {} BY DEF NoHeaders
<1>2. NoHeaders \in Std!AllPackets BY <1>1 DEF Std!AllPackets
<1>3. ASSUME NEW f \in DOMAIN Bits, NEW x \in Std!Contents(f) PROVE JustOne(f, x) \in Std!AllPackets
  <2>1. x \subseteq Std!AllBits BY DEF Std!AllBits, Std!Contents
  <2>2. JustOne(f, x) \in [{f} -> SUBSET Std!AllBits] /\ \A g \in {f} : JustOne(f, x)[g] \in Std!Contents(g)
    BY <2>1 DEF JustOne
  <2>3. {f} \in SUBSET DOMAIN Bits OBVIOUS
  <2>4. QED BY <2>2, <2>3 DEF Std!AllPackets
<1>4. QED BY <1>1, <1>2, <1>3 DEF JustOne

\* How one field is compared with a packet that has only that field.
LEMMA OneField ==
  ASSUME VlanVid # Exthdr, NEW h, h[1] \in DOMAIN Bits, NEW t, NEW x \in Std!Contents(h[1])
  PROVE  /\ JustOne(h[1], x) \in Std!AllPackets
         /\ h[1] = VlanVid =>
              (FM(h, t, JustOne(h[1], x)) <=>
                 t.value # {} /\ (t.value = {Present} \/ Std!Differ(t.value \ {Present}, x) \cap t.mask = {}))
         /\ h[1] = Exthdr => (FM(h, t, JustOne(h[1], x)) <=> t.value \subseteq x)
         /\ h[1] # VlanVid /\ h[1] # Exthdr =>
              (FM(h, t, JustOne(h[1], x)) <=> Std!Differ(t.value, x) \cap t.mask = {})
<1> DEFINE k == JustOne(h[1], x)
<1>1. k \in Std!AllPackets /\ DOMAIN k = {h[1]} /\ k[h[1]] = x BY SmallPackets
<1> HIDE DEF k
<1>2. h[1] \in DOMAIN k BY <1>1
<1>3. h[1] = VlanVid =>
        (FM(h, t, k) <=> t.value # {} /\ (t.value = {Present} \/ Std!Differ(t.value \ {Present}, x) \cap t.mask = {}))
  BY <1>1, <1>2, FieldCases
<1>4. h[1] = Exthdr => (FM(h, t, k) <=> t.value \subseteq x) BY <1>1, <1>2, FieldCases
<1>5. h[1] # VlanVid /\ h[1] # Exthdr => (FM(h, t, k) <=> Std!Differ(t.value, x) \cap t.mask = {})
  BY <1>1, <1>2, FieldCases
<1>6. QED BY <1>1, <1>3, <1>4, <1>5 DEF k

\* The content that a value asks for.
Wanted(h, t) == IF h[1] = VlanVid THEN t.value \ {Present} ELSE t.value

LEMMA WantedMatches ==
  ASSUME VlanVid # Exthdr, NEW h \in (DOMAIN Bits) \X BOOLEAN, NEW t, Std!IsTlv(h, t)
  PROVE  /\ Wanted(h, t) \in Std!Contents(h[1])
         /\ \A k : h[1] \in DOMAIN k /\ k[h[1]] = Wanted(h, t) /\ ~(h[1] = VlanVid /\ t.value = {}) => FM(h, t, k)
         /\ \A k : h[1] \notin DOMAIN k /\ h[1] = VlanVid /\ t.value = {} => FM(h, t, k)
<1>1. Wanted(h, t) \in Std!Contents(h[1]) BY DEF Wanted, Std!Contents, Std!IsTlv, Std!FieldOf, Std!HasMask
<1>2. \A x : Std!Differ(x, x) = {} BY DEF Std!Differ
<1>3. ASSUME NEW k, h[1] \in DOMAIN k, k[h[1]] = Wanted(h, t), ~(h[1] = VlanVid /\ t.value = {}) PROVE FM(h, t, k)
  <2>1. CASE h[1] = VlanVid
    <3>1. Std!Differ(t.value \ {Present}, k[h[1]]) = {} BY <1>2, <1>3, <2>1 DEF Wanted
    <3>2. Std!Differ(t.value \ {Present}, k[h[1]]) \cap t.mask = {} /\ t.value # {} BY <1>3, <2>1, <3>1
    <3>3. QED BY <1>3, <2>1, <3>2, FieldCases
  <2>2. CASE h[1] = Exthdr
    <3>1. t.value \subseteq k[h[1]] BY <1>3, <2>2 DEF Wanted
    <3>2. QED BY <1>3, <2>2, <3>1, FieldCases
  <2>3. CASE h[1] # VlanVid /\ h[1] # Exthdr
    <3>1. Std!Differ(t.value, k[h[1]]) = {} BY <1>2, <1>3, <2>3 DEF Wanted
    <3>2. Std!Differ(t.value, k[h[1]]) \cap t.mask = {} BY <3>1
    <3>3. QED BY <1>3, <2>3, <3>2, FieldCases
  <2>4. QED BY <2>1, <2>2, <2>3
<1>4. ASSUME NEW k, h[1] \notin DOMAIN k, h[1] = VlanVid, t.value = {} PROVE FM(h, t, k)
  <2>1. ~h[2] BY <1>4 DEF Std!IsTlv, Std!FieldOf, Std!HasMask
  <2>2. QED BY <1>4, <2>1, FieldCases
<1>5. QED BY <1>1, <1>3, <1>4

\* Some packet is refused.
LEMMA Refused ==
  ASSUME VlanVid # Exthdr, NEW h \in (DOMAIN Bits) \X BOOLEAN, NEW t, Std!IsTlv(h, t)
  PROVE  \E k \in Std!AllPackets : ~FM(h, t, k)
<1>1. h[1] \in DOMAIN Bits OBVIOUS
<1>2. CASE h[1] = VlanVid /\ t.value = {}
  <2>1. {} \in Std!Contents(h[1]) BY DEF Std!Contents
  <2> DEFINE x == {}
  <2>5. x \in Std!Contents(h[1]) BY <2>1
  <2> HIDE DEF x
  <2>2. JustOne(h[1], x) \in Std!AllPackets BY <1>1, <2>5, OneField
  <2>3. ~FM(h, t, JustOne(h[1], x)) BY <1>1, <1>2, <2>5, OneField
  <2>4. QED BY <2>2, <2>3
<1>3. CASE ~(h[1] = VlanVid /\ t.value = {})
  <2>1. NoHeaders \in Std!AllPackets /\ h[1] \notin DOMAIN NoHeaders BY SmallPackets
  <2>2. ~FM(h, t, NoHeaders) BY <1>3, <2>1, FieldCases
  <2>3. QED BY <2>1, <2>2
<1>4. QED BY <1>2, <1>3

\* Two values under one mask are told apart by some packet.
LEMMA ToldApart ==
  ASSUME VlanVid # Exthdr, NEW h \in (DOMAIN Bits) \X BOOLEAN, NEW t, NEW u, Std!IsTlv(h, t), Std!IsTlv(h, u),
         t.mask = u.mask, t.value # u.value
  PROVE  \E k \in Std!AllPackets : ~(FM(h, t, k) <=> FM(h, u, k))
<1> DEFINE f == h[1]
           one(x) == JustOne(f, x)
<1>1. f \in DOMAIN Bits OBVIOUS
<1>2. /\ t.value \subseteq t.mask /\ u.value \subseteq t.mask /\ t.mask \subseteq Bits[f]
      /\ f = VlanVid => ~h[2] /\ (t.value = {} \/ Present \in t.value) /\ (u.value = {} \/ Present \in u.value)
  BY DEF Std!IsTlv, Std!FieldOf, Std!HasMask
<1> HIDE DEF f
<1>3. \A x \in Std!Contents(f) : one(x) \in Std!AllPackets BY <1>1, OneField DEF f
<1>4. \A a, b, m : a \subseteq m /\ b \subseteq m /\ a # b => Std!Differ(a, b) \cap m # {} BY DEF Std!Differ
<1>5. CASE f = VlanVid
  <2>1. CASE t.value = {} \/ u.value = {}
    <3>1. NoHeaders \in Std!AllPackets /\ h[1] \notin DOMAIN NoHeaders BY SmallPackets
    <3>2. FM(h, t, NoHeaders) <=> t.value = {} BY <1>2, <1>5, <3>1, FieldCases DEF f
    <3>3. FM(h, u, NoHeaders) <=> u.value = {} BY <1>2, <1>5, <3>1, FieldCases DEF f
    <3>4. QED BY <2>1, <3>1, <3>2, <3>3
  <2>2. CASE t.value # {} /\ u.value # {}
    <3>1. Present \in t.value /\ Present \in u.value BY <1>2, <1>5, <2>2
    <3> DEFINE T == t.value \ {Present}
               U == u.value \ {Present}
    <3>2. T # U /\ T \subseteq t.mask /\ U \subseteq t.mask /\ T \in Std!Contents(f) /\ U \in Std!Contents(f)
      BY <1>2, <3>1 DEF Std!Contents
    <3>3. Std!Differ(U, T) \cap t.mask # {} /\ Std!Differ(T, U) \cap t.mask # {} BY <1>4, <3>2
    <3>4. t.value = {Present} <=> T = {} BY <3>1
    <3>5. u.value = {Present} <=> U = {} BY <3>1
    <3>6. \A x \in Std!Contents(f) : FM(h, t, one(x)) <=> T = {} \/ Std!Differ(T, x) \cap t.mask = {}
      BY <1>1, <1>5, <2>2, <3>4, OneField DEF f
    <3>7. \A x \in Std!Contents(f) : FM(h, u, one(x)) <=> U = {} \/ Std!Differ(U, x) \cap t.mask = {}
      BY <1>1, <1>5, <2>2, <3>5, OneField DEF f
    <3> HIDE DEF T, U, one
    <3>8. CASE U = {}
      <4>1. T # {} BY <3>2, <3>8
      <4>2. FM(h, u, one(U)) /\ ~FM(h, t, one(U)) BY <3>2, <3>3, <3>6, <3>7, <3>8, <4>1
      <4>3. QED BY <1>3, <3>2, <4>2
    <3>9. CASE U # {}
      <4>1. Std!Differ(T, T) = {} BY DEF Std!Differ
      <4>2. FM(h, t, one(T)) /\ ~FM(h, u, one(T)) BY <3>2, <3>3, <3>6, <3>7, <3>9, <4>1
      <4>3. QED BY <1>3, <3>2, <4>2
    <3>10. QED BY <3>8, <3>9
  <2>3. QED BY <2>1, <2>2
<1>6. CASE f # VlanVid
  <2>1. t.value \in Std!Contents(f) /\ u.value \in Std!Contents(f) BY <1>2, <1>6 DEF Std!Contents
  <2>2. CASE f = Exthdr
    <3>1. \A x \in Std!Contents(f) : (FM(h, t, one(x)) <=> t.value \subseteq x) /\ (FM(h, u, one(x)) <=> u.value \subseteq x)
      BY <1>1, <2>2, OneField DEF f
    <3>2. t.value \subseteq t.value /\ u.value \subseteq u.value /\ (~(t.value \subseteq u.value) \/ ~(u.value \subseteq t.value))
      OBVIOUS
    <3> HIDE DEF one
    <3>3. QED BY <1>3, <2>1, <3>1, <3>2
  <2>3. CASE f # Exthdr
    <3>1. \A x \in Std!Contents(f) : FM(h, t, one(x)) <=> Std!Differ(t.value, x) \cap t.mask = {}
      BY <1>1, <1>6, <2>3, OneField DEF f
    <3>4. \A x \in Std!Contents(f) : FM(h, u, one(x)) <=> Std!Differ(u.value, x) \cap u.mask = {}
      BY <1>1, <1>6, <2>3, OneField DEF f
    <3>2. Std!Differ(t.value, t.value) = {} /\ Std!Differ(u.value, t.value) \cap t.mask # {} BY <1>2, <1>4 DEF Std!Differ
    <3> HIDE DEF one
    <3>3. QED BY <1>3, <2>1, <3>1, <3>2, <3>4
  <2>4. QED BY <2>2, <2>3
<1>7. QED BY <1>5, <1>6

\* A packet that agrees with q in the field f and is accepted in every other.
Elsewhere(m, f, q, k) ==
  /\ f \in DOMAIN k <=> f \in DOMAIN q
  /\ f \in DOMAIN k => k[f] = q[f]
  /\ \A h \in DOMAIN m : h[1] # f => FM(h, m[h], k)

\* There is one for every match.
LEMMA AcceptedElsewhere ==
  ASSUME VlanVid # Exthdr, NEW m, Std!IsMatch(m), NEW f0, NEW q \in Std!AllPackets
  PROVE  \E k \in Std!AllPackets : Elsewhere(m, f0, q, k)
<1> DEFINE H(f) == CHOOSE h \in DOMAIN m : h[1] = f
           A == {h[1] : h \in {g \in DOMAIN m : ~(g[1] = VlanVid /\ m[g].value = {})}}
           D == (A \ {f0}) \cup ({f0} \cap DOMAIN q)
           k == [f \in D |-> IF f = f0 THEN q[f] ELSE Wanted(H(f), m[H(f)])]
<1>1. \A h \in DOMAIN m : h \in (DOMAIN Bits) \X BOOLEAN /\ h[1] \in DOMAIN Bits /\ Std!IsTlv(h, m[h]) BY DEF Std!IsMatch, Std!FieldOf
<1>2. \A h \in DOMAIN m : H(h[1]) = h
  <2>1. SUFFICES ASSUME NEW h \in DOMAIN m PROVE H(h[1]) = h OBVIOUS
  <2>2. H(h[1]) \in DOMAIN m /\ H(h[1])[1] = h[1] OBVIOUS
  <2>3. QED BY <2>2 DEF Std!IsMatch, Std!FieldOf
<1>3. DOMAIN q \subseteq DOMAIN Bits /\ \A f \in DOMAIN q : q[f] \in Std!Contents(f) BY DEF Std!AllPackets
<1> HIDE DEF H
<1>4. \A f \in A : \E h \in DOMAIN m : h[1] = f /\ ~(h[1] = VlanVid /\ m[h].value = {}) OBVIOUS
<1>5. A \subseteq DOMAIN Bits BY <1>1, <1>4
<1>6. \A f \in A : Wanted(H(f), m[H(f)]) \in Std!Contents(f)
  <2>1. SUFFICES ASSUME NEW f \in A PROVE Wanted(H(f), m[H(f)]) \in Std!Contents(f) OBVIOUS
  <2>2. PICK h \in DOMAIN m : h[1] = f BY <1>4
  <2>3. H(f) = h BY <1>2, <2>2
  <2>4. QED BY <1>1, <2>2, <2>3, WantedMatches
<1> HIDE DEF A
<1>7. D \subseteq DOMAIN Bits /\ DOMAIN k = D BY <1>3, <1>5
<1>8. \A f \in D : k[f] \in Std!Contents(f)
  <2>1. SUFFICES ASSUME NEW f \in D PROVE k[f] \in Std!Contents(f) OBVIOUS
  <2>2. CASE f = f0 BY <1>3, <2>2
  <2>3. CASE f # f0 BY <1>6, <2>3
  <2>4. QED BY <2>2, <2>3
<1>9. k \in Std!AllPackets
  <2>1. \A f \in D : k[f] \subseteq Std!AllBits BY <1>7, <1>8 DEF Std!AllBits, Std!Contents
  <2>2. k \in [D -> SUBSET Std!AllBits] BY <2>1
  <2> HIDE DEF k, D
  <2>3. QED BY <1>7, <1>8, <2>2 DEF Std!AllPackets
<1>10. (f0 \in DOMAIN k <=> f0 \in DOMAIN q) /\ (f0 \in DOMAIN k => k[f0] = q[f0]) BY <1>7
<1>11. ASSUME NEW h \in DOMAIN m, h[1] # f0 PROVE FM(h, m[h], k)
  <2>1. h \in (DOMAIN Bits) \X BOOLEAN /\ Std!IsTlv(h, m[h]) BY <1>1
  <2>2. CASE h[1] = VlanVid /\ m[h].value = {}
    <3>1. h[1] \notin A
      <4>1. SUFFICES ASSUME h[1] \in A PROVE FALSE OBVIOUS
      <4>2. PICK g \in DOMAIN m : g[1] = h[1] /\ ~(g[1] = VlanVid /\ m[g].value = {}) BY <1>4, <4>1
      <4>3. g = h BY <4>2 DEF Std!IsMatch, Std!FieldOf
      <4>4. QED BY <2>2, <4>2, <4>3
    <3>2. h[1] \notin DOMAIN k BY <1>7, <1>11, <3>1
    <3> HIDE DEF k, D
    <3>3. QED BY <2>1, <2>2, <3>2, WantedMatches
  <2>3. CASE ~(h[1] = VlanVid /\ m[h].value = {})
    <3>1. h[1] \in A BY <2>3 DEF A
    <3>2. h[1] \in D BY <1>11, <3>1
    <3>3. k[h[1]] = Wanted(h, m[h]) BY <1>2, <1>11, <3>2
    <3>4. h[1] \in DOMAIN k BY <1>7, <3>2
    <3> HIDE DEF k, D
    <3>5. QED BY <2>1, <2>3, <3>3, <3>4, WantedMatches
  <2>4. QED BY <2>2, <2>3
<1>12. QED
  <2> HIDE DEF k
  <2>1. QED BY <1>9, <1>10, <1>11 DEF Elsewhere

Accepts(m, k) == \A h \in DOMAIN m : FM(h, m[h], k)

LEMMA CoversIs ==
  ASSUME NEW m \in Matches
  PROVE  Std!Covers[m] = {k \in Std!AllPackets : Accepts(m, k)}
BY MatchesAssumption DEF Std!Covers, Std!packet_match, Accepts, FM, Std!MatchesAssumption

\* Two matches that cover the same packets and mask the same bits have the same
\* headers and values.
LEMMA SameHeaders ==
  ASSUME VlanVid # Exthdr, NEW a, NEW b, Std!IsMatch(a), Std!IsMatch(b), Std!SameMasks(a, b),
         \A k \in Std!AllPackets : Accepts(b, k) => Accepts(a, k)
  PROVE  DOMAIN a \subseteq DOMAIN b
<1> SUFFICES ASSUME NEW h \in DOMAIN a, h \notin DOMAIN b PROVE FALSE OBVIOUS
<1>1. h \in (DOMAIN Bits) \X BOOLEAN /\ Std!IsTlv(h, a[h]) BY DEF Std!IsMatch, Std!FieldOf
<1>2. \A g \in DOMAIN b : g[1] # h[1] BY DEF Std!SameMasks, Std!FieldOf
<1>3. PICK q \in Std!AllPackets : ~FM(h, a[h], q) BY <1>1, Refused
<1>4. PICK k \in Std!AllPackets : Elsewhere(b, h[1], q, k) BY AcceptedElsewhere
<1>5. Accepts(b, k) BY <1>2, <1>4 DEF Accepts, Elsewhere
<1>6. ~FM(h, a[h], k) BY <1>3, <1>4, FieldAlone DEF Elsewhere
<1>7. QED BY <1>5, <1>6 DEF Accepts

LEMMA SameValues ==
  ASSUME VlanVid # Exthdr, NEW a, NEW b, Std!IsMatch(a), Std!IsMatch(b), NEW h \in DOMAIN a, h \in DOMAIN b,
         a[h].mask = b[h].mask,
         \A k \in Std!AllPackets : Accepts(b, k) <=> Accepts(a, k)
  PROVE  a[h].value = b[h].value
<1> SUFFICES ASSUME a[h].value # b[h].value PROVE FALSE OBVIOUS
<1>1. h \in (DOMAIN Bits) \X BOOLEAN /\ Std!IsTlv(h, a[h]) /\ Std!IsTlv(h, b[h]) BY DEF Std!IsMatch, Std!FieldOf
<1>2. PICK q \in Std!AllPackets : ~(FM(h, a[h], q) <=> FM(h, b[h], q)) BY <1>1, ToldApart
<1>3. \A g \in DOMAIN a : g[1] = h[1] => g = h BY DEF Std!IsMatch, Std!FieldOf
<1>4. \A g \in DOMAIN b : g[1] = h[1] => g = h BY DEF Std!IsMatch, Std!FieldOf
<1>5. CASE FM(h, a[h], q)
  <2>1. PICK k \in Std!AllPackets : Elsewhere(a, h[1], q, k) BY AcceptedElsewhere
  <2>2. FM(h, a[h], k) /\ ~FM(h, b[h], k) BY <1>2, <1>5, <2>1, FieldAlone DEF Elsewhere
  <2>3. Accepts(a, k) /\ ~Accepts(b, k) BY <1>3, <2>1, <2>2 DEF Accepts, Elsewhere
  <2>4. QED BY <2>3
<1>6. CASE ~FM(h, a[h], q)
  <2>1. PICK k \in Std!AllPackets : Elsewhere(b, h[1], q, k) BY AcceptedElsewhere
  <2>2. FM(h, b[h], k) /\ ~FM(h, a[h], k) BY <1>2, <1>6, <2>1, FieldAlone DEF Elsewhere
  <2>3. Accepts(b, k) /\ ~Accepts(a, k) BY <1>4, <2>1, <2>2 DEF Accepts, Elsewhere
  <2>4. QED BY <2>3
<1>7. QED BY <1>5, <1>6

LEMMA SameField ==
  ASSUME VlanVid # Exthdr, NEW h, NEW t, NEW u, t.value = u.value, t.mask = u.mask, NEW k
  PROVE  FM(h, t, k) <=> FM(h, u, k)
BY DEF FM, Std!FieldMatches

\* Under one mask the words tell all values apart.
LEMMA StrictIsEqual ==
  ASSUME NEW f, UNION Words[f] = Bits[f], NEW t, NEW u, t.mask = u.mask,
         t.value \subseteq t.mask, u.value \subseteq t.mask, t.mask \subseteq Bits[f]
  PROVE  Std!StrictMasked(f, t, u) <=> t.value = u.value
<1>1. ASSUME Std!StrictMasked(f, t, u) PROVE t.value = u.value
  <2>1. SUFFICES ASSUME NEW x \in Std!Differ(t.value, u.value) PROVE FALSE BY DEF Std!Differ
  <2>2. x \in t.mask BY DEF Std!Differ
  <2>3. PICK w \in Words[f] : x \in w BY <2>2
  <2>4. x \in Std!Differ(t.value, u.value) \cap t.mask \cap w BY <2>2, <2>3
  <2>5. QED BY <1>1, <2>3, <2>4 DEF Std!StrictMasked
<1>2. ASSUME t.value = u.value PROVE Std!StrictMasked(f, t, u) BY <1>2 DEF Std!StrictMasked, Std!Differ
<1>3. QED BY <1>1, <1>2

LEMMA StrictPart ==
  ASSUME VlanVid # Exthdr, \A f \in DOMAIN Bits : UNION Words[f] = Bits[f],
         NEW a, NEW b, Std!IsMatch(a), Std!IsMatch(b), Std!SameMasks(a, b)
  PROVE  Std!match_std_strict(a, b) <=> \A k \in Std!AllPackets : Accepts(a, k) <=> Accepts(b, k)
<1> DEFINE Equal == DOMAIN a = DOMAIN b /\ \A h \in DOMAIN a : a[h].value = b[h].value
<1>1. \A h \in DOMAIN a : h \in DOMAIN b => a[h].mask = b[h].mask BY DEF Std!SameMasks, Std!FieldOf
<1>2. Std!match_std_strict(a, b) <=> Equal
  <2>1. ASSUME DOMAIN a = DOMAIN b, NEW h \in DOMAIN a
        PROVE  (IF Std!HasMask(h) THEN Std!StrictMasked(Std!FieldOf(h), a[h], b[h]) ELSE a[h].value = b[h].value)
                 <=> a[h].value = b[h].value
    <3>1. h[1] \in DOMAIN Bits /\ Std!IsTlv(h, a[h]) /\ Std!IsTlv(h, b[h]) /\ a[h].mask = b[h].mask BY <1>1, <2>1 DEF Std!IsMatch, Std!FieldOf
    <3> DEFINE f == h[1]
               t == a[h]
               u == b[h]
    <3>2. /\ UNION Words[f] = Bits[f] /\ t.mask = u.mask
          /\ t.value \subseteq t.mask /\ u.value \subseteq t.mask /\ t.mask \subseteq Bits[f]
      BY <3>1 DEF Std!IsTlv, Std!FieldOf, Std!HasMask
    <3> HIDE DEF f, t, u
    <3>3. Std!StrictMasked(f, t, u) <=> t.value = u.value BY <3>2, StrictIsEqual
    <3>4. QED BY <3>3 DEF Std!FieldOf, f, t, u
  <2>2. QED BY <2>1 DEF Std!match_std_strict
<1>3. ASSUME Equal, NEW k PROVE Accepts(a, k) <=> Accepts(b, k)
  <2>1. \A h \in DOMAIN a : FM(h, a[h], k) <=> FM(h, b[h], k) BY <1>1, <1>3, SameField
  <2>2. QED BY <1>3, <2>1 DEF Accepts
<1>4. ASSUME \A k \in Std!AllPackets : Accepts(a, k) <=> Accepts(b, k) PROVE Equal
  <2>1. DOMAIN a \subseteq DOMAIN b BY <1>4, SameHeaders
  <2>2. Std!SameMasks(b, a)
    <3>1. SUFFICES ASSUME NEW h \in DOMAIN b, NEW g \in DOMAIN a, Std!FieldOf(h) = Std!FieldOf(g)
                   PROVE  h = g /\ b[h].mask = a[g].mask
      BY DEF Std!SameMasks
    <3>2. g = h /\ a[g].mask = b[h].mask BY <3>1 DEF Std!SameMasks
    <3>3. QED BY <3>2
  <2>3. DOMAIN b \subseteq DOMAIN a BY <1>4, <2>2, SameHeaders
  <2>4. ASSUME NEW h \in DOMAIN a PROVE a[h].value = b[h].value BY <1>1, <1>4, <2>1, SameValues
  <2>5. QED BY <2>1, <2>3, <2>4
<1> HIDE DEF Equal
<1>5. QED BY <1>2, <1>3, <1>4

\* Without masks: what is claimed to be included is.
LEMMA InclusionHolds ==
  ASSUME VlanVid # Exthdr, NEW a, NEW b, Std!IsMatch(a), Std!IsMatch(b), Std!IsPlain(a),
         Std!match_std_nonstrict(a, b), NEW k, Accepts(b, k)
  PROVE  Accepts(a, k)
<1> SUFFICES ASSUME NEW h \in DOMAIN a PROVE FM(h, a[h], k) BY DEF Accepts
<1>1. ~h[2] /\ ~Std!HasMask(h) BY DEF Std!IsPlain, Std!HasMask
<1>2. h \in DOMAIN b /\ a[h].value = b[h].value BY <1>1 DEF Std!match_std_nonstrict
<1>3. a[h].mask = b[h].mask BY <1>1, <1>2 DEF Std!IsMatch, Std!IsTlv, Std!FieldOf, Std!HasMask
<1>4. QED BY <1>2, <1>3, SameField DEF Accepts

\* And what is included is claimed to be.
LEMMA InclusionFound ==
  ASSUME VlanVid # Exthdr, NEW a, NEW b, Std!IsMatch(a), Std!IsMatch(b), Std!IsPlain(a), Std!IsPlain(b), Std!IsOrdinary(a),
         \A k \in Std!AllPackets : Accepts(b, k) => Accepts(a, k)
  PROVE  Std!match_std_nonstrict(a, b)
<1> SUFFICES ASSUME NEW h \in DOMAIN a PROVE h \in DOMAIN b /\ ~Std!HasMask(h) /\ a[h].value = b[h].value
  BY DEF Std!match_std_nonstrict
<1>1. ~h[2] /\ ~Std!HasMask(h) BY DEF Std!IsPlain, Std!HasMask
<1>2. h \in (DOMAIN Bits) \X BOOLEAN /\ h[1] \in DOMAIN Bits /\ Std!IsTlv(h, a[h]) BY DEF Std!IsMatch, Std!FieldOf
<1>3. h[1] # VlanVid /\ h[1] # Exthdr BY DEF Std!IsOrdinary, Std!FieldsOf, Std!FieldOf
<1>4. h \in DOMAIN b
  <2>1. SUFFICES ASSUME h \notin DOMAIN b PROVE FALSE OBVIOUS
  <2>2. ASSUME NEW g \in DOMAIN b, g[1] = h[1] PROVE FALSE
    <3>1. ~g[2] /\ g \in (DOMAIN Bits) \X BOOLEAN BY DEF Std!IsPlain, Std!HasMask, Std!IsMatch, Std!FieldOf
    <3>2. g[2] = FALSE /\ h[2] = FALSE BY <1>1, <1>2, <3>1
    <3>3. g = h BY <1>2, <2>2, <3>1, <3>2
    <3>4. QED BY <2>1, <3>3
  <2>3. PICK q \in Std!AllPackets : ~FM(h, a[h], q) BY <1>2, Refused
  <2>4. PICK k \in Std!AllPackets : Elsewhere(b, h[1], q, k) BY AcceptedElsewhere
  <2>5. Accepts(b, k) BY <2>2, <2>4 DEF Accepts, Elsewhere
  <2>6. ~FM(h, a[h], k) BY <2>3, <2>4, FieldAlone DEF Elsewhere
  <2>7. QED BY <2>5, <2>6 DEF Accepts
<1>5. a[h].value = b[h].value
  <2>1. SUFFICES ASSUME a[h].value # b[h].value PROVE FALSE OBVIOUS
  <2> DEFINE t == a[h]
             u == b[h]
             x == u.value
  <2>2. Std!IsTlv(h, t) /\ Std!IsTlv(h, u) /\ t.mask = u.mask BY <1>1, <1>2, <1>4 DEF Std!IsMatch, Std!IsTlv, Std!FieldOf, Std!HasMask
  <2>3. x \in Std!Contents(h[1]) BY <1>3, <2>2 DEF Std!Contents, Std!IsTlv, Std!FieldOf, Std!HasMask
  <2> HIDE DEF x
  <2>4. JustOne(h[1], x) \in Std!AllPackets BY <1>2, <2>3, OneField
  <2>5. Std!Differ(x, x) = {} /\ Std!Differ(t.value, x) \cap t.mask # {} BY <2>1, <2>2 DEF Std!Differ, Std!IsTlv, x, Std!FieldOf, Std!HasMask
  <2>6. FM(h, u, JustOne(h[1], x))
    <3>1. FM(h, u, JustOne(h[1], x)) <=> Std!Differ(u.value, x) \cap u.mask = {} BY <1>2, <1>3, <2>3, OneField
    <3>2. QED BY <2>5, <3>1 DEF x
  <2>7. ~FM(h, t, JustOne(h[1], x))
    <3>1. FM(h, t, JustOne(h[1], x)) <=> Std!Differ(t.value, x) \cap t.mask = {} BY <1>2, <1>3, <2>3, OneField
    <3>2. QED BY <2>5, <3>1
  <2> DEFINE q == JustOne(h[1], x)
  <2> HIDE DEF q
  <2>8. q \in Std!AllPackets /\ FM(h, u, q) /\ ~FM(h, t, q) BY <2>4, <2>6, <2>7 DEF q
  <2>9. PICK k \in Std!AllPackets : Elsewhere(b, h[1], q, k) BY <2>8, AcceptedElsewhere
  <2>10. \A g \in DOMAIN b : g[1] = h[1] => g = h BY <1>4 DEF Std!IsMatch, Std!FieldOf
  <2>11. FM(h, u, k) /\ ~FM(h, t, k) BY <2>8, <2>9, FieldAlone DEF Elsewhere
  <2>12. Accepts(b, k) /\ ~Accepts(a, k) BY <2>9, <2>10, <2>11 DEF Accepts, Elsewhere
  <2>13. QED BY <2>12
<1>6. QED BY <1>1, <1>4, <1>5

\* The header that match_std_overlap finds in b.
Found(b, f) ==
  IF <<f, FALSE>> \in {g \in DOMAIN b : g[1] = f} THEN <<f, FALSE>> ELSE <<f, TRUE>>

LEMMA FoundIs ==
  ASSUME NEW b, Std!IsMatch(b), NEW g \in DOMAIN b
  PROVE  Found(b, g[1]) = g
<1>1. g \in (DOMAIN Bits) \X BOOLEAN BY DEF Std!IsMatch, Std!FieldOf
<1>2. g = <<g[1], g[2]>> /\ g[2] \in BOOLEAN BY <1>1
<1>3. CASE g[2] = FALSE
  <2>1. g = <<g[1], FALSE>> BY <1>2, <1>3
  <2>2. QED BY <2>1 DEF Found
<1>4. CASE g[2] = TRUE
  <2>1. g = <<g[1], TRUE>> BY <1>2, <1>4
  <2>2. <<g[1], FALSE>> \notin DOMAIN b
    <3>1. SUFFICES ASSUME <<g[1], FALSE>> \in DOMAIN b PROVE FALSE OBVIOUS
    <3>2. <<g[1], FALSE>> = g BY <3>1 DEF Std!IsMatch, Std!FieldOf
    <3>3. <<g[1], FALSE>>[2] = FALSE OBVIOUS
    <3>4. g[2] = FALSE BY <3>2, <3>3
    <3>5. QED BY <1>4, <3>4
  <2>3. QED BY <2>1, <2>2 DEF Found
<1>5. QED BY <1>2, <1>3, <1>4

LEMMA OverlapIs ==
  ASSUME NEW a, NEW b, Std!IsMatch(b)
  PROVE  Std!match_std_overlap(a, b) <=>
           \A h \in DOMAIN a, g \in DOMAIN b : g[1] = h[1] => ~Std!Incompatible(h[1], a[h], b[g])
<1>1. Std!match_std_overlap(a, b) <=>
        \A h \in DOMAIN a : {g \in DOMAIN b : g[1] = h[1]} = {} \/ ~Std!Incompatible(h[1], a[h], b[Found(b, h[1])])
  BY DEF Std!match_std_overlap, Std!FieldOf, Found
<1>2. \A g \in DOMAIN b : Found(b, g[1]) = g BY FoundIs
<1>3. QED BY <1>1, <1>2

\* An ordinary field.
LEMMA Ordinary ==
  ASSUME VlanVid # Exthdr, NEW m, Std!IsOrdinary(m), NEW h \in DOMAIN m, NEW t, NEW k
  PROVE  /\ h[1] # VlanVid /\ h[1] # Exthdr /\ h[1] \notin ThreeOctets
         /\ FM(h, t, k) <=> h[1] \in DOMAIN k /\ Std!Differ(t.value, k[h[1]]) \cap t.mask = {}
<1>1. h[1] # VlanVid /\ h[1] # Exthdr /\ h[1] \notin ThreeOctets BY DEF Std!IsOrdinary, Std!FieldsOf, Std!FieldOf
<1>2. QED BY <1>1, FieldCases

\* A packet is shared when every common field has one value.
LEMMA Joint ==
  ASSUME VlanVid # Exthdr, NEW a, NEW b, Std!IsMatch(a), Std!IsMatch(b), Std!IsOrdinary(a), Std!IsOrdinary(b),
         \A h \in DOMAIN a, g \in DOMAIN b : g[1] = h[1] => a[h].value = b[g].value
  PROVE  \E k \in Std!AllPackets : Accepts(a, k) /\ Accepts(b, k)
<1> DEFINE F == {h[1] : h \in DOMAIN a} \cup {g[1] : g \in DOMAIN b}
           Has(f, x) == (\E h \in DOMAIN a : h[1] = f /\ x = a[h].value) \/ (\E g \in DOMAIN b : g[1] = f /\ x = b[g].value)
           V(f) == CHOOSE x : Has(f, x)
           k == [f \in F |-> V(f)]
<1>1. \A f \in F : \E x : Has(f, x) OBVIOUS
<1>2. \A f \in F : Has(f, V(f))
  <2> HIDE DEF F, Has
  <2>1. QED BY <1>1
<1>3. \A h \in DOMAIN a : h[1] \in F /\ h[1] \in DOMAIN Bits /\ h[1] # VlanVid /\ a[h].value \in Std!Contents(h[1])
  <2>1. SUFFICES ASSUME NEW h \in DOMAIN a
                 PROVE  h[1] \in F /\ h[1] \in DOMAIN Bits /\ h[1] # VlanVid /\ a[h].value \in Std!Contents(h[1])
    OBVIOUS
  <2>2. h \in (DOMAIN Bits) \X BOOLEAN /\ Std!IsTlv(h, a[h]) BY DEF Std!IsMatch, Std!FieldOf
  <2>3. h[1] # VlanVid BY Ordinary
  <2>4. QED BY <2>2, <2>3 DEF Std!IsTlv, Std!Contents, Std!FieldOf, Std!HasMask
<1>4. \A h \in DOMAIN b : h[1] \in F /\ h[1] \in DOMAIN Bits /\ h[1] # VlanVid /\ b[h].value \in Std!Contents(h[1])
  <2>1. SUFFICES ASSUME NEW h \in DOMAIN b
                 PROVE  h[1] \in F /\ h[1] \in DOMAIN Bits /\ h[1] # VlanVid /\ b[h].value \in Std!Contents(h[1])
    OBVIOUS
  <2>2. h \in (DOMAIN Bits) \X BOOLEAN /\ Std!IsTlv(h, b[h]) BY DEF Std!IsMatch, Std!FieldOf
  <2>3. h[1] # VlanVid BY Ordinary
  <2>4. QED BY <2>2, <2>3 DEF Std!IsTlv, Std!Contents, Std!FieldOf, Std!HasMask
<1>5. F \subseteq DOMAIN Bits BY <1>3, <1>4
<1>6. \A f \in F : V(f) \in Std!Contents(f)
  <2> HIDE DEF V
  <2>1. QED BY <1>2, <1>3, <1>4
<1>7. \A h \in DOMAIN a : V(h[1]) = a[h].value
  <2> HIDE DEF V
  <2>1. SUFFICES ASSUME NEW h \in DOMAIN a PROVE V(h[1]) = a[h].value OBVIOUS
  <2>2. Has(h[1], V(h[1])) BY <1>2, <1>3
  <2>3. \A i \in DOMAIN a : i[1] = h[1] => i = h BY DEF Std!IsMatch, Std!FieldOf
  <2>4. QED BY <2>2, <2>3
<1>8. \A g \in DOMAIN b : V(g[1]) = b[g].value
  <2> HIDE DEF V
  <2>1. SUFFICES ASSUME NEW g \in DOMAIN b PROVE V(g[1]) = b[g].value OBVIOUS
  <2>2. Has(g[1], V(g[1])) BY <1>2, <1>4
  <2>3. \A i \in DOMAIN b : i[1] = g[1] => i = g BY DEF Std!IsMatch, Std!FieldOf
  <2>4. QED BY <2>2, <2>3
<1> HIDE DEF F, Has, V
<1>9. DOMAIN k = F /\ \A f \in F : k[f] = V(f) OBVIOUS
<1>10. k \in Std!AllPackets
  <2>1. \A f \in F : V(f) \subseteq Std!AllBits BY <1>5, <1>6 DEF Std!AllBits, Std!Contents
  <2>2. k \in [F -> SUBSET Std!AllBits] BY <2>1
  <2> HIDE DEF k
  <2>3. QED BY <1>5, <1>6, <1>9, <2>2 DEF Std!AllPackets
<1> HIDE DEF k
<1>11. \A x : Std!Differ(x, x) = {} BY DEF Std!Differ
<1>12. ASSUME NEW h \in DOMAIN a PROVE FM(h, a[h], k)
  <2>1. h[1] \in DOMAIN k /\ k[h[1]] = a[h].value BY <1>3, <1>7, <1>9
  <2>2. Std!Differ(a[h].value, k[h[1]]) \cap a[h].mask = {} BY <1>11, <2>1
  <2>3. QED BY <2>1, <2>2, Ordinary
<1>13. ASSUME NEW h \in DOMAIN b PROVE FM(h, b[h], k)
  <2>1. h[1] \in DOMAIN k /\ k[h[1]] = b[h].value BY <1>4, <1>8, <1>9
  <2>2. Std!Differ(b[h].value, k[h[1]]) \cap b[h].mask = {} BY <1>11, <2>1
  <2>3. QED BY <2>1, <2>2, Ordinary
<1>14. QED BY <1>10, <1>12, <1>13 DEF Accepts

\* An overlap that is reported is real.
LEMMA OverlapReal ==
  ASSUME VlanVid # Exthdr, NEW a, NEW b, Std!IsMatch(a), Std!IsMatch(b), Std!IsOrdinary(a), Std!IsOrdinary(b),
         Std!match_std_overlap(a, b)
  PROVE  \E k \in Std!AllPackets : Accepts(a, k) /\ Accepts(b, k)
<1>1. ASSUME NEW h \in DOMAIN a, NEW g \in DOMAIN b, g[1] = h[1] PROVE a[h].value = b[g].value
  <2>1. h[1] \notin ThreeOctets BY Ordinary
  <2>2. ~Std!Incompatible(h[1], a[h], b[g]) BY <1>1, OverlapIs
  <2>3. a[h].mask \cap a[h].value = b[g].mask \cap b[g].value BY <2>1, <2>2 DEF Std!Incompatible
  <2>4. Std!IsTlv(h, a[h]) /\ Std!IsTlv(g, b[g]) BY DEF Std!IsMatch, Std!FieldOf
  <2>5. a[h].value \subseteq a[h].mask /\ b[g].value \subseteq b[g].mask BY <2>4 DEF Std!IsTlv, Std!FieldOf, Std!HasMask
  <2>6. QED BY <2>3, <2>5
<1>2. QED BY <1>1, Joint

\* Without masks none is missed.
LEMMA OverlapFound ==
  ASSUME VlanVid # Exthdr, NEW a, NEW b, Std!IsMatch(a), Std!IsMatch(b), Std!IsPlain(a), Std!IsPlain(b), Std!IsOrdinary(a),
         NEW k, Accepts(a, k), Accepts(b, k)
  PROVE  Std!match_std_overlap(a, b)
<1>1. SUFFICES ASSUME NEW h \in DOMAIN a, NEW g \in DOMAIN b, g[1] = h[1] PROVE ~Std!Incompatible(h[1], a[h], b[g])
  BY OverlapIs
<1>2. h[1] \in DOMAIN k /\ Std!Differ(a[h].value, k[h[1]]) \cap a[h].mask = {} BY Ordinary DEF Accepts
<1>3. h[1] # VlanVid /\ h[1] # Exthdr BY Ordinary
<1>4. Std!Differ(b[g].value, k[h[1]]) \cap b[g].mask = {} BY <1>1, <1>2, <1>3, FieldCases DEF Accepts
<1>5. a[h].mask = Bits[h[1]] /\ b[g].mask = Bits[h[1]] BY <1>1 DEF Std!IsMatch, Std!IsTlv, Std!IsPlain, Std!HasMask, Std!FieldOf
<1>6. a[h].mask \cap a[h].value = b[g].mask \cap b[g].value BY <1>2, <1>4, <1>5 DEF Std!Differ
<1>7. QED BY <1>6 DEF Std!Incompatible

\* The comparisons are those of the sets.
LEMMA MatchesAreCompared == Std!MatchesAreSets
<1>1. SUFFICES ASSUME NEW a \in Matches, NEW b \in Matches
      PROVE
        /\ Std!SameMasks(a, b) => (Std!match_std_strict(a, b) <=> Std!Covers[a] = Std!Covers[b])
        /\ Std!IsPlain(a) /\ Std!IsPlain(b) /\ Std!match_std_nonstrict(a, b) => Std!Covers[b] \subseteq Std!Covers[a]
        /\ Std!IsPlain(a) /\ Std!IsPlain(b) /\ Std!IsOrdinary(a) /\ Std!Covers[b] \subseteq Std!Covers[a] =>
              Std!match_std_nonstrict(a, b)
        /\ Std!IsOrdinary(a) /\ Std!IsOrdinary(b) /\ Std!match_std_overlap(a, b) =>
              Std!Covers[a] \cap Std!Covers[b] # {}
        /\ Std!IsPlain(a) /\ Std!IsPlain(b) /\ Std!IsOrdinary(a) /\ Std!Covers[a] \cap Std!Covers[b] # {} =>
              Std!match_std_overlap(a, b)
  BY DEF Std!MatchesAreSets
<1>2. /\ VlanVid # Exthdr /\ \A f \in DOMAIN Bits : UNION Words[f] = Bits[f]
      /\ Std!IsMatch(a) /\ Std!IsMatch(b)
  BY MatchesAssumption DEF Std!MatchesAssumption
<1> DEFINE A == Std!Covers[a]
           B == Std!Covers[b]
<1>3. A = {k \in Std!AllPackets : Accepts(a, k)} /\ B = {k \in Std!AllPackets : Accepts(b, k)} BY CoversIs
<1> HIDE DEF A, B
<1>4. Std!SameMasks(a, b) => (Std!match_std_strict(a, b) <=> A = B)
  <2>1. A = B <=> \A k \in Std!AllPackets : Accepts(a, k) <=> Accepts(b, k) BY <1>3
  <2>2. QED BY <1>2, <2>1, StrictPart
<1>5. Std!IsPlain(a) /\ Std!IsPlain(b) /\ Std!match_std_nonstrict(a, b) => B \subseteq A
  BY <1>2, <1>3, InclusionHolds
<1>6. Std!IsPlain(a) /\ Std!IsPlain(b) /\ Std!IsOrdinary(a) /\ B \subseteq A => Std!match_std_nonstrict(a, b)
  <2>1. B \subseteq A => \A k \in Std!AllPackets : Accepts(b, k) => Accepts(a, k) BY <1>3
  <2>2. QED BY <1>2, <2>1, InclusionFound
<1>7. Std!IsOrdinary(a) /\ Std!IsOrdinary(b) /\ Std!match_std_overlap(a, b) => A \cap B # {}
  <2>1. (\E k \in Std!AllPackets : Accepts(a, k) /\ Accepts(b, k)) => A \cap B # {} BY <1>3
  <2>2. QED BY <1>2, <2>1, OverlapReal
<1>8. Std!IsPlain(a) /\ Std!IsPlain(b) /\ Std!IsOrdinary(a) /\ A \cap B # {} => Std!match_std_overlap(a, b)
  <2>1. A \cap B # {} => \E k \in Std!AllPackets : Accepts(a, k) /\ Accepts(b, k) BY <1>3
  <2>2. QED BY <1>2, <2>1, OverlapFound
<1>9. QED BY <1>4, <1>5, <1>6, <1>7, <1>8 DEF A, B

\* The flow table may treat a match as the set of the packets that it covers,
\* whatever the fields and however many bits they have: match_std.c compares
\* matches as those sets, within the limits of MatchesAreSets.
THEOREM MatchesAreSetsHolds == Spec => MatchesAreSets
<1>1. [Next]_vars => [Std!MatchesAreSets]_vars BY MatchesAreCompared
<1>2. QED BY <1>1, PTL DEF Spec, MatchesAreSets
=============================================================================
