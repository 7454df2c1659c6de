----------------------------- MODULE ListLemmas -----------------------------
(***************************************************************************)
(* Facts about the lists of module Lists, for every list: what unlinking,  *)
(* inserting and replacing an element do to the elements, their order and  *)
(* their number; and about loops and sums, written as recursive functions. *)
(***************************************************************************)
EXTENDS Lists, FiniteSetTheorems, SequenceTheorems, TLAPS

\* Every rank below its size is the rank of exactly one element of a finite set
\* of naturals, so Nth is defined: the rank is an injection into 0..m-1, hence onto.
LEMMA NthExists ==
  ASSUME NEW K \in SUBSET Nat, IsFiniteSet(K), NEW n \in 1..Cardinality(K)
  PROVE  /\ Nth(K, n) \in K
         /\ Cardinality({j \in K : j < Nth(K, n)}) = n - 1
<1> DEFINE rank(i) == Cardinality({j \in K : j < i})
           m == Cardinality(K)
           f == [i \in K |-> rank(i)]
<1>0. m \in Nat BY FS_CardinalityType
<1>1. ASSUME NEW i \in K PROVE rank(i) \in 0..(m-1)
  <2>1. {j \in K : j < i} \in SUBSET K OBVIOUS
  <2>2. i \notin {j \in K : j < i} BY i \in Nat
  <2>3. QED BY <2>1, <2>2, <1>0, FS_Subset, FS_CardinalityType
<1>2. ASSUME NEW i \in K, NEW k \in K, i < k PROVE rank(i) < rank(k)
  <2> DEFINE A == {j \in K : j < i}
             B == {j \in K : j < k}
  <2>1. A \cup {i} \in SUBSET B
    <3>1. \A j \in K : j < i => j < k BY <1>2
    <3>2. QED BY <3>1, <1>2
  <2>2. IsFiniteSet(B) /\ IsFiniteSet(A) BY FS_Subset, B \in SUBSET K, A \in SUBSET K
  <2>3. i \notin A BY i \in Nat
  <2>4. Cardinality(A \cup {i}) = Cardinality(A) + 1 BY <2>2, <2>3, FS_AddElement
  <2>5. Cardinality(A \cup {i}) <= Cardinality(B) BY <2>1, <2>2, FS_Subset
  <2>6. Cardinality(A) \in Nat /\ Cardinality(B) \in Nat BY <2>2, FS_CardinalityType
  <2>7. QED BY <2>4, <2>5, <2>6
<1>3. f \in Injection(K, 0..(m-1))
  <2>1. f \in [K -> 0..(m-1)] BY <1>1
  <2>2. ASSUME NEW i \in K, NEW k \in K, f[i] = f[k] PROVE i = k
    <3>1. i < k \/ k < i \/ i = k BY i \in Nat, k \in Nat
    <3>2. rank(i) \in Nat /\ rank(k) \in Nat BY <1>1, <1>0
    <3>3. QED BY <3>1, <3>2, <2>2, <1>2
  <2>3. QED BY <2>1, <2>2 DEF Injection, IsInjective
<1>4. Cardinality(0..(m-1)) = m /\ IsFiniteSet(0..(m-1))
  <2> HIDE DEF m
  <2>1. 0 \in Int /\ m - 1 \in Int /\ (IF 0 > m - 1 THEN 0 ELSE m - 1 - 0 + 1) = m BY <1>0
  <2>2. QED BY <2>1, FS_Interval
<1>5. f \in Surjection(K, 0..(m-1)) BY <1>3, <1>4, FS_Injection
<1>6. \E i \in K : f[i] = n - 1
  <2>1. n - 1 \in 0..(m-1) BY <1>0
  <2>2. QED BY <1>5, <2>1, Zenon DEF Surjection
<1>7. \E i \in K : rank(i) = n - 1 BY <1>6
<1>8. QED BY <1>7 DEF Nth

\* The positions that AtPositions reads grow.
LEMMA NthMonotonic ==
  ASSUME NEW K \in SUBSET Nat, IsFiniteSet(K),
         NEW a \in 1..Cardinality(K), NEW b \in 1..Cardinality(K), a < b
  PROVE  Nth(K, a) < Nth(K, b)
<1> DEFINE A == {j \in K : j < Nth(K, a)}
           B == {j \in K : j < Nth(K, b)}
<1>1. /\ Nth(K, a) \in K /\ Cardinality(A) = a - 1
      /\ Nth(K, b) \in K /\ Cardinality(B) = b - 1
  BY NthExists
<1>0. Nth(K, a) \in Nat /\ Nth(K, b) \in Nat BY <1>1
<1>2. SUFFICES ASSUME Nth(K, b) <= Nth(K, a) PROVE FALSE
  BY <1>0
<1>3. B \in SUBSET A
  <2>1. \A j \in K : j < Nth(K, b) => j < Nth(K, a)
    <3> SUFFICES ASSUME NEW j \in K, j < Nth(K, b) PROVE j < Nth(K, a) OBVIOUS
    <3>1. j \in Nat /\ Nth(K, a) \in Nat /\ Nth(K, b) \in Nat BY <1>1
    <3>2. QED BY <3>1, <1>2
  <2>2. QED BY <2>1
<1>4. IsFiniteSet(A) BY FS_Subset, A \in SUBSET K
<1>5. Cardinality(B) <= Cardinality(A) BY <1>3, <1>4, FS_Subset
<1>6. Cardinality(K) \in Nat BY FS_CardinalityType
<1>7. QED BY <1>1, <1>5, <1>6

\* Every element of K is some Nth(K, n).
LEMMA NthOnto ==
  ASSUME NEW K \in SUBSET Nat, IsFiniteSet(K), NEW k \in K
  PROVE  \E n \in 1..Cardinality(K) : Nth(K, n) = k
<1> DEFINE A == {j \in K : j < k}
           n == Cardinality(A) + 1
<1>1. A \in SUBSET K /\ k \notin A BY k \in Nat
<1>2. IsFiniteSet(A) /\ Cardinality(A) <= Cardinality(K) BY <1>1, FS_Subset
<1>3. Cardinality(A) # Cardinality(K) BY <1>1, FS_Subset
<1>4. Cardinality(A) \in Nat /\ Cardinality(K) \in Nat BY <1>2, FS_CardinalityType
<1>5. n \in 1..Cardinality(K) BY <1>2, <1>3, <1>4
<1> DEFINE i == Nth(K, n)
           B == {j \in K : j < i}
<1>6. i \in K /\ Cardinality(B) = Cardinality(A)
  <2>1. i \in K /\ Cardinality(B) = n - 1 BY <1>5, NthExists
  <2>2. QED BY <2>1, <1>4
<1>7. i \in Nat /\ k \in Nat BY <1>6
<1>8. ~(i < k)
  <2> SUFFICES ASSUME i < k PROVE FALSE OBVIOUS
  <2>1. B \in SUBSET A
    <3>1. \A j \in K : j < i => j < k BY <1>7
    <3>2. QED BY <3>1
  <2>2. B = A BY <2>1, <1>2, <1>6, FS_Subset
  <2>3. i \in A BY <1>6
  <2>4. i \notin B BY <1>7
  <2>5. QED BY <2>2, <2>3, <2>4
<1>9. ~(k < i)
  <2> SUFFICES ASSUME k < i PROVE FALSE OBVIOUS
  <2>1. A \in SUBSET B
    <3>1. \A j \in K : j < k => j < i BY <1>7
    <3>2. QED BY <3>1
  <2>2. IsFiniteSet(B) BY FS_Subset, B \in SUBSET K
  <2>3. B = A BY <2>1, <2>2, <1>6, FS_Subset
  <2>4. k \in B OBVIOUS
  <2>5. QED BY <2>3, <2>4, <1>1
<1>10. QED BY <1>5, <1>7, <1>8, <1>9

-----------------------------------------------------------------------------
\* A set of naturals with an element has a least one: that of rank 0 among those
\* not above the element.
LEMMA LeastExists ==
  ASSUME NEW K \in SUBSET Nat, NEW x \in K
  PROVE  \E m \in K : \A k \in K : m <= k
<1> DEFINE A == {k \in K : k <= x}
           m == Nth(A, 1)
<1>1. x \in Nat /\ A \in SUBSET (0..x)
  <2>1. x \in Nat OBVIOUS
  <2>2. \A k \in A : k \in Nat /\ k <= x OBVIOUS
  <2> HIDE DEF A
  <2>3. \A k \in A : k \in 0..x BY <2>1, <2>2
  <2>4. QED BY <2>1, <2>3
<1>2. IsFiniteSet(A)
  <2>1. IsFiniteSet(0..x) BY <1>1, FS_Interval
  <2>2. QED BY <2>1, <1>1, FS_Subset
<1>3. Cardinality(A) \in Nat /\ Cardinality(A) # 0 BY <1>2, FS_CardinalityType, FS_EmptySet
<1>4. m \in A /\ Cardinality({j \in A : j < m}) = 0
  <2>1. A \in SUBSET Nat /\ 1 \in 1..Cardinality(A) BY <1>1, <1>3
  <2>2. QED BY <2>1, <1>2, NthExists
<1>5. {j \in A : j < m} = {}
  <2>1. {j \in A : j < m} \in SUBSET A OBVIOUS
  <2>2. IsFiniteSet({j \in A : j < m}) BY <2>1, <1>2, FS_Subset
  <2>3. QED BY <2>2, <1>4, FS_EmptySet
<1> HIDE DEF m
<1>6. ASSUME NEW k \in K PROVE m <= k
  <2>1. CASE k <= x BY <1>4, <1>5, <1>6, <2>1
  <2>2. CASE ~(k <= x) BY <1>4, <2>2
  <2>3. QED BY <2>1, <2>2
<1>7. QED BY <1>4, <1>6

\* The image of a finite set under a one-to-one function has as many elements.
LEMMA SameSize ==
  ASSUME NEW S, IsFiniteSet(S), NEW f, \A i, j \in S : f[i] = f[j] => i = j
  PROVE  /\ IsFiniteSet({f[i] : i \in S})
         /\ Cardinality({f[i] : i \in S}) = Cardinality(S)
<1> DEFINE T == {f[i] : i \in S}
           g == [i \in S |-> f[i]]
<1>1. g \in [S -> T] /\ (\A i, j \in S : g[i] = g[j] => i = j) /\ (\A t \in T : \E i \in S : g[i] = t)
  OBVIOUS
<1> HIDE DEF T, g
<1>2. g \in Bijection(S, T) BY <1>1 DEF Bijection, Injection, Surjection, IsInjective
<1>3. ExistsBijection(S, T) BY <1>2 DEF ExistsBijection
<1>4. QED BY <1>3, FS_Bijection DEF T

-----------------------------------------------------------------------------
\* LIST_FOR_EACH leaves its loop at the first of the positions P, or at the head.
LEMMA FirstOfIsFirst ==
  ASSUME NEW S, NEW s \in Seq(S), NEW P \in SUBSET (1..Len(s))
  PROVE  /\ FirstOf(s, P) \in 1..(Len(s) + 1)
         /\ FirstOf(s, P) \in P \cup {Len(s) + 1}
         /\ \A i \in P : FirstOf(s, P) <= i
<1> DEFINE K == P \cup {Len(s) + 1}
           k == Nth(K, 1)
<1>1. Len(s) \in Nat OBVIOUS
<1>2. K \in SUBSET (1..(Len(s) + 1))
  <2>1. \A x \in 1..Len(s) : x \in 1..(Len(s) + 1) BY <1>1
  <2>2. Len(s) + 1 \in 1..(Len(s) + 1) BY <1>1
  <2>3. QED BY <2>1, <2>2
<1>3. IsFiniteSet(1..(Len(s) + 1)) BY <1>1, FS_Interval
<1>4. IsFiniteSet(K) BY <1>2, <1>3, FS_Subset
<1>5. Cardinality(K) \in Nat /\ Cardinality(K) # 0 BY <1>4, FS_CardinalityType, FS_EmptySet
<1>6. k \in K /\ Cardinality({j \in K : j < k}) = 0
  <2>1. K \in SUBSET Nat /\ 1 \in 1..Cardinality(K) BY <1>2, <1>5
  <2>2. QED BY <2>1, <1>4, NthExists
<1>7. {j \in K : j < k} = {}
  <2>1. {j \in K : j < k} \in SUBSET K OBVIOUS
  <2>2. IsFiniteSet({j \in K : j < k}) BY <2>1, <1>4, FS_Subset
  <2>3. QED BY <2>2, <1>6, FS_EmptySet
<1>8. \A j \in K : k <= j
  <2>1. \A j \in K : ~(j < k) BY <1>7
  <2>2. k \in Nat /\ \A j \in K : j \in Nat BY <1>2, <1>6
  <2> HIDE DEF K, k
  <2>3. QED BY <2>1, <2>2
<1>9. \E x \in K : \A y \in K : x =< y BY <1>6, <1>8
<1>10. Min(K) \in K /\ \A y \in K : Min(K) =< y BY <1>9 DEF Min
<1>11. FirstOf(s, P) = Min(K) BY DEF FirstOf
<1>12. QED BY <1>2, <1>10, <1>11

\* Elements of t come from elements of s in the same order.
KeepsOrder(t, s) == \A a, b \in 1..Len(t) : a < b =>
                      \E i, j \in 1..Len(s) : i < j /\ t[a] = s[i] /\ t[b] = s[j]

\* Unlinking the elements of R leaves the others, in their order.
LEMMA WithoutShape ==
  ASSUME NEW S, NEW s \in Seq(S), NEW R
  PROVE  /\ Without(s, R) \in Seq(S \ R)
         /\ KeepsOrder(Without(s, R), s)
         /\ ToSet(Without(s, R)) = ToSet(s) \ R
<1> DEFINE K == {i \in 1..Len(s) : s[i] \notin R}
           m == Cardinality(K)
           t == Without(s, R)
<1>1. Len(s) \in Nat /\ K \in SUBSET (1..Len(s)) OBVIOUS
<1>2. IsFiniteSet(K)
  <2>1. IsFiniteSet(1..Len(s)) BY <1>1, FS_Interval
  <2>2. QED BY <1>1, <2>1, FS_Subset
<1>3. m \in Nat BY <1>2, FS_CardinalityType
<1>4. K \in SUBSET Nat BY <1>1
<1>5. t = [n \in 1..m |-> s[Nth(K, n)]] BY DEF Without, AtPositions
<1>6. \A n \in 1..m : Nth(K, n) \in K BY <1>2, <1>4, NthExists
<1>7. t \in Seq(S \ R)
  <2>1. \A n \in 1..m : s[Nth(K, n)] \in S \ R BY <1>6
  <2> HIDE DEF m, t
  <2>2. QED BY <1>3, <1>5, <2>1
<1>8. Len(t) = m BY <1>5, <1>3, <1>7
<1>9. ASSUME NEW a \in 1..Len(t), NEW b \in 1..Len(t), a < b
      PROVE  \E i, j \in 1..Len(s) : i < j /\ t[a] = s[i] /\ t[b] = s[j]
  <2>1. Nth(K, a) < Nth(K, b) BY <1>2, <1>4, <1>8, <1>9, NthMonotonic
  <2>2. Nth(K, a) \in 1..Len(s) /\ Nth(K, b) \in 1..Len(s) BY <1>6, <1>8
  <2>3. t[a] = s[Nth(K, a)] /\ t[b] = s[Nth(K, b)] BY <1>5, <1>8
  <2>4. QED BY <2>1, <2>2, <2>3
<1>10. ToSet(t) = ToSet(s) \ R
  <2>1. DOMAIN t = 1..m /\ DOMAIN s = 1..Len(s) BY <1>5
  <2>2. ASSUME NEW x \in ToSet(t) PROVE x \in ToSet(s) \ R
    <3>1. PICK n \in 1..m : x = t[n] BY <2>1 DEF ToSet
    <3>2. x = s[Nth(K, n)] /\ Nth(K, n) \in K BY <3>1, <1>5, <1>6
    <3>3. QED BY <3>2, <2>1 DEF ToSet
  <2>3. ASSUME NEW x \in ToSet(s) \ R PROVE x \in ToSet(t)
    <3>1. PICK i \in 1..Len(s) : x = s[i] BY <2>1 DEF ToSet
    <3>2. i \in K BY <3>1, <2>3
    <3>3. PICK n \in 1..m : Nth(K, n) = i BY <3>2, <1>2, <1>4, NthOnto
    <3>4. t[n] = x BY <3>1, <3>3, <1>5
    <3>5. QED BY <3>4, <2>1 DEF ToSet
  <2>4. QED BY <2>2, <2>3
<1>11. QED BY <1>7, <1>9, <1>10 DEF KeepsOrder

\* Unlinking keeps a list without repetitions that way.
LEMMA WithoutNoRepeats ==
  ASSUME NEW S, NEW s \in Seq(S), NoRepeats(s), NEW R
  PROVE  NoRepeats(Without(s, R))
<1> DEFINE t == Without(s, R)
<1>1. t \in Seq(S \ R) /\ KeepsOrder(t, s) BY WithoutShape
<1> HIDE DEF t
<1>2. \A a, b \in 1..Len(t) : a < b => t[a] # t[b]
  BY <1>1 DEF NoRepeats, KeepsOrder
<1>3. \A a, b \in 1..Len(t) : t[a] = t[b] => a = b
  <2> SUFFICES ASSUME NEW a \in 1..Len(t), NEW b \in 1..Len(t), t[a] = t[b]
               PROVE  a = b
    OBVIOUS
  <2>1. a < b \/ b < a \/ a = b OBVIOUS
  <2>2. QED BY <2>1, <1>2
<1>4. QED BY <1>3 DEF NoRepeats, t

\* A list without repetitions is as long as the set of its elements is large.
LEMMA LenIsCardinality ==
  ASSUME NEW S, NEW s \in Seq(S), NoRepeats(s)
  PROVE  IsFiniteSet(ToSet(s)) /\ Cardinality(ToSet(s)) = Len(s)
<1>1. Len(s) \in Nat /\ DOMAIN s = 1..Len(s) OBVIOUS
<1>2. s \in Surjection(1..Len(s), ToSet(s))
  <2>1. s \in [1..Len(s) -> ToSet(s)] BY <1>1 DEF ToSet
  <2>2. \A x \in ToSet(s) : \E i \in 1..Len(s) : s[i] = x BY <1>1 DEF ToSet
  <2>3. QED BY <2>1, <2>2 DEF Surjection
<1>3. s \in Injection(1..Len(s), ToSet(s))
  BY <1>2 DEF Surjection, Injection, IsInjective, NoRepeats
<1>4. IsFiniteSet(1..Len(s)) /\ Cardinality(1..Len(s)) = Len(s) BY <1>1, FS_Interval
<1>5. QED BY <1>2, <1>3, <1>4, FS_Surjection

\* Unlinking some elements keeps the order of the others.
LEMMA WithoutPrecedes ==
  ASSUME NEW S, NEW s \in Seq(S), NoRepeats(s), NEW R, NEW a, NEW b,
         a \notin R, b \notin R, Precedes(s, a, b)
  PROVE  Precedes(Without(s, R), a, b)
<1> DEFINE t == Without(s, R)
<1>1. t \in Seq(S \ R) /\ KeepsOrder(t, s) /\ ToSet(t) = ToSet(s) \ R BY WithoutShape
<1> HIDE DEF t
<1>2. PICK i \in 1..Len(s), j \in 1..Len(s) : i < j /\ s[i] = a /\ s[j] = b BY DEF Precedes
<1>3. a \in ToSet(t) /\ b \in ToSet(t)
  <2>1. a \in ToSet(s) /\ b \in ToSet(s) BY <1>2 DEF ToSet
  <2>2. QED BY <1>1, <2>1
<1>4. PICK x \in 1..Len(t), y \in 1..Len(t) : t[x] = a /\ t[y] = b BY <1>3 DEF ToSet
<1>5. CASE x < y BY <1>4, <1>5 DEF Precedes, t
<1>6. CASE x = y
  <2>1. i = j BY <1>2, <1>4, <1>6 DEF NoRepeats
  <2>2. QED BY <2>1, <1>2
<1>7. CASE y < x
  <2>1. PICK k \in 1..Len(s), l \in 1..Len(s) : k < l /\ b = s[k] /\ a = s[l]
    BY <1>1, <1>4, <1>7 DEF KeepsOrder
  <2>2. k = j /\ l = i BY <1>2, <2>1 DEF NoRepeats
  <2>3. QED BY <1>2, <2>1, <2>2
<1>8. QED BY <1>1, <1>5, <1>6, <1>7

-----------------------------------------------------------------------------
\* t is s with e at the position k and what was there behind it.
Inserted(t, s, k, e) ==
  /\ Len(t) = Len(s) + 1
  /\ \A i \in 1..(Len(s) + 1) : t[i] = IF i < k THEN s[i] ELSE IF i = k THEN e ELSE s[i - 1]

\* list_insert before the element at position k.
LEMMA InsertAtShape ==
  ASSUME NEW S, NEW s \in Seq(S), NEW e \in S, NEW k \in 1..(Len(s) + 1)
  PROVE  InsertAt(s, k, e) \in Seq(S) /\ Inserted(InsertAt(s, k, e), s, k, e)
<1> DEFINE a == SubSeq(s, 1, k - 1)
           c == SubSeq(s, k, Len(s))
           ab == a \o <<e>>
<1>0. Len(s) \in Nat /\ k \in Nat /\ k >= 1 OBVIOUS
<1>1. /\ a \in Seq(S) /\ Len(a) = k - 1
      /\ \A i \in 1..(k - 1) : a[i] = s[i]
  <2>1. \A i \in 1..(k - 1) : s[i] \in S BY <1>0
  <2>2. QED BY <2>1, <1>0, SubSeqProperties
<1>2. /\ c \in Seq(S) /\ Len(c) = Len(s) - k + 1
      /\ \A i \in 1..(Len(s) - k + 1) : c[i] = s[k + i - 1]
  <2>1. \A i \in k..Len(s) : s[i] \in S BY <1>0
  <2>2. QED BY <2>1, <1>0, SubSeqProperties
<1>3. <<e>> \in Seq(S) /\ Len(<<e>>) = 1 /\ <<e>>[1] = e OBVIOUS
<1>4. /\ ab \in Seq(S) /\ Len(ab) = k
      /\ \A i \in 1..k : ab[i] = IF i <= k - 1 THEN a[i] ELSE <<e>>[i - (k - 1)]
  BY <1>0, <1>1, <1>3, ConcatProperties
<1>5. InsertAt(s, k, e) = ab \o c BY DEF InsertAt
<1> HIDE DEF a, c, ab
<1> DEFINE t == ab \o c
<1>6. /\ t \in Seq(S) /\ Len(t) = k + (Len(s) - k + 1)
      /\ \A i \in 1..(k + (Len(s) - k + 1)) : t[i] = IF i <= k THEN ab[i] ELSE c[i - k]
  <2>1. /\ t \in Seq(S) /\ Len(t) = Len(ab) + Len(c)
        /\ \A i \in 1..(Len(ab) + Len(c)) : t[i] = IF i <= Len(ab) THEN ab[i] ELSE c[i - Len(ab)]
    BY <1>2, <1>4, ConcatProperties
  <2>2. QED BY <2>1, <1>2, <1>4
<1> HIDE DEF t
<1>7. ASSUME NEW i \in 1..(Len(s) + 1)
      PROVE  t[i] = IF i < k THEN s[i] ELSE IF i = k THEN e ELSE s[i - 1]
  <2>0. i \in 1..(k + (Len(s) - k + 1)) BY <1>0
  <2>1. CASE i < k
    <3>1. t[i] = ab[i] /\ ab[i] = a[i] /\ a[i] = s[i] BY <2>0, <2>1, <1>0, <1>1, <1>4, <1>6
    <3>2. QED BY <2>1, <3>1
  <2>2. CASE i = k
    <3>1. t[k] = ab[k] BY <2>0, <2>2, <1>6
    <3>2. ab[k] = <<e>>[1] BY <1>0, <1>4
    <3>3. QED BY <2>2, <3>1, <3>2, <1>3
  <2>3. CASE i > k
    <3>1. t[i] = c[i - k] BY <2>0, <2>3, <1>0, <1>6
    <3>2. i - k \in 1..(Len(s) - k + 1) BY <2>3, <1>0
    <3>3. c[i - k] = s[k + (i - k) - 1] BY <3>2, <1>2
    <3>4. k + (i - k) - 1 = i - 1 BY <1>0
    <3>5. ~(i < k) /\ i # k BY <2>3, <1>0
    <3>6. QED BY <3>5, <3>1, <3>3, <3>4
  <2>4. QED BY <1>0, <2>1, <2>2, <2>3
<1>8. Len(t) = Len(s) + 1 BY <1>0, <1>6
<1>9. Inserted(t, s, k, e) BY <1>7, <1>8 DEF Inserted
<1>10. QED BY <1>5, <1>6, <1>9 DEF t

\* Inserting a new element: the elements, and no repetitions.
LEMMA InsertAtElements ==
  ASSUME NEW S, NEW s \in Seq(S), NEW e \in S, NEW k \in 1..(Len(s) + 1)
  PROVE  /\ ToSet(InsertAt(s, k, e)) = ToSet(s) \cup {e}
         /\ NoRepeats(s) /\ e \notin ToSet(s) => NoRepeats(InsertAt(s, k, e))
<1> DEFINE t == InsertAt(s, k, e)
<1>0. t \in Seq(S) /\ Inserted(t, s, k, e) BY InsertAtShape
<1> HIDE DEF t
<1>1. /\ t \in Seq(S) /\ Len(t) = Len(s) + 1
      /\ \A i \in 1..(Len(s) + 1) :
           t[i] = IF i < k THEN s[i] ELSE IF i = k THEN e ELSE s[i - 1]
  BY <1>0 DEF Inserted
<1>2. Len(s) \in Nat /\ DOMAIN s = 1..Len(s) /\ DOMAIN t = 1..(Len(s) + 1) BY <1>1
<1>3. ToSet(t) = ToSet(s) \cup {e}
  <2>1. ASSUME NEW i \in 1..(Len(s) + 1) PROVE t[i] \in ToSet(s) \cup {e}
    <3>1. CASE i < k BY <3>1, <1>1, <1>2 DEF ToSet
    <3>2. CASE i = k BY <3>2, <1>1
    <3>3. CASE i > k
      <4>1. t[i] = s[i - 1] /\ i - 1 \in 1..Len(s) BY <3>3, <1>1, <1>2
      <4>2. QED BY <4>1, <1>2 DEF ToSet
    <3>4. QED BY <3>1, <3>2, <3>3
  <2>2. ASSUME NEW i \in 1..Len(s) PROVE s[i] \in ToSet(t)
    <3>1. CASE i < k
      <4>1. t[i] = s[i] /\ i \in DOMAIN t BY <3>1, <1>1, <1>2
      <4>2. QED BY <4>1 DEF ToSet
    <3>2. CASE i >= k
      <4>1. t[i + 1] = s[(i + 1) - 1] /\ i + 1 \in DOMAIN t BY <3>2, <1>1, <1>2
      <4>2. (i + 1) - 1 = i OBVIOUS
      <4>3. QED BY <4>1, <4>2 DEF ToSet
    <3>3. QED BY <3>1, <3>2
  <2>3. e \in ToSet(t)
    <3>1. t[k] = e /\ k \in DOMAIN t BY <1>1, <1>2
    <3>2. QED BY <3>1 DEF ToSet
  <2>4. QED BY <2>1, <2>2, <2>3, <1>2 DEF ToSet
<1>4. ASSUME NoRepeats(s), e \notin ToSet(s) PROVE NoRepeats(t)
  <2>1. \A i \in 1..Len(s) : s[i] # e BY <1>2, <1>4 DEF ToSet
  <2>2. SUFFICES ASSUME NEW i \in 1..(Len(s) + 1), NEW j \in 1..(Len(s) + 1), t[i] = t[j]
                 PROVE  i = j
    BY <1>1 DEF NoRepeats
  <2>3. i < k => t[i] = s[i] /\ i \in 1..Len(s) BY <1>1, <1>2
  <2>4. j < k => t[j] = s[j] /\ j \in 1..Len(s) BY <1>1, <1>2
  <2>5. i > k => t[i] = s[i - 1] /\ i - 1 \in 1..Len(s) BY <1>1, <1>2
  <2>6. j > k => t[j] = s[j - 1] /\ j - 1 \in 1..Len(s) BY <1>1, <1>2
  <2>7. (i = k => t[i] = e) /\ (j = k => t[j] = e) BY <1>1
  <2>8. QED BY <2>1, <2>2, <2>3, <2>4, <2>5, <2>6, <2>7, <1>2, <1>4 DEF NoRepeats
<1>5. QED BY <1>3, <1>4 DEF t

\* Inserting an element keeps the order of the others and puts it between them.
LEMMA InsertAtPrecedes ==
  ASSUME NEW S, NEW s \in Seq(S), NEW e \in S, NEW k \in 1..(Len(s) + 1)
  PROVE  /\ \A a, b : Precedes(s, a, b) => Precedes(InsertAt(s, k, e), a, b)
         /\ \A i \in 1..Len(s) : i < k => Precedes(InsertAt(s, k, e), s[i], e)
<1> DEFINE t == InsertAt(s, k, e)
<1>1. t \in Seq(S) /\ Inserted(t, s, k, e) BY InsertAtShape
<1> HIDE DEF t
<1>2. /\ Len(t) = Len(s) + 1 /\ Len(s) \in Nat
      /\ \A i \in 1..(Len(s) + 1) :
           t[i] = IF i < k THEN s[i] ELSE IF i = k THEN e ELSE s[i - 1]
  BY <1>1 DEF Inserted
\* Where the element at position i is afterwards.
<1> DEFINE pos(i) == IF i < k THEN i ELSE i + 1
<1>3. \A i \in 1..Len(s) : pos(i) \in 1..Len(t) /\ t[pos(i)] = s[i]
  <2> SUFFICES ASSUME NEW i \in 1..Len(s) PROVE pos(i) \in 1..Len(t) /\ t[pos(i)] = s[i] OBVIOUS
  <2>1. CASE i < k BY <1>2, <2>1
  <2>2. CASE ~(i < k)
    <3>1. i + 1 \in 1..(Len(s) + 1) /\ ~(i + 1 < k) /\ i + 1 # k /\ (i + 1) - 1 = i BY <1>2, <2>2
    <3>2. t[i + 1] = s[i] BY <1>2, <3>1
    <3>3. QED BY <1>2, <2>2, <3>1, <3>2
  <2>3. QED BY <2>1, <2>2
<1>4. \A i, j \in 1..Len(s) : i < j => pos(i) < pos(j) BY <1>2
<1>5. k \in 1..Len(t) /\ t[k] = e BY <1>2
<1>6. \A i \in 1..Len(s) : i < k => pos(i) < k BY <1>2
<1> HIDE DEF pos
<1>7. ASSUME NEW a, NEW b, Precedes(s, a, b) PROVE Precedes(t, a, b)
  <2>1. PICK i \in 1..Len(s), j \in 1..Len(s) : i < j /\ s[i] = a /\ s[j] = b
    BY <1>7 DEF Precedes
  <2>2. QED BY <1>3, <1>4, <2>1 DEF Precedes
<1>8. \A i \in 1..Len(s) : i < k => Precedes(t, s[i], e)
  BY <1>3, <1>5, <1>6 DEF Precedes
<1>9. QED BY <1>7, <1>8 DEF t

\* t is s with new wherever old was.
Replaced(t, s, old, new) ==
  /\ Len(t) = Len(s)
  /\ \A i \in 1..Len(s) : t[i] = IF s[i] = old THEN new ELSE s[i]

\* The set of the elements of t is that of s, new instead of old.
Swapped(t, s, old, new) == ToSet(t) = (ToSet(s) \ {old}) \cup {new}

\* list_replace of the element old by a new one.
LEMMA ReplaceAllElements ==
  ASSUME NEW S, NEW s \in Seq(S), NEW old \in ToSet(s), NEW new, new \notin ToSet(s),
         NoRepeats(s)
  PROVE  /\ ReplaceAll(s, old, new) \in Seq((S \ {old}) \cup {new})
         /\ Replaced(ReplaceAll(s, old, new), s, old, new)
         /\ Swapped(ReplaceAll(s, old, new), s, old, new)
         /\ NoRepeats(ReplaceAll(s, old, new))
<1> DEFINE t == ReplaceAll(s, old, new)
<1>1. Len(s) \in Nat /\ DOMAIN s = 1..Len(s) OBVIOUS
<1>2. t = [i \in 1..Len(s) |-> IF s[i] = old THEN new ELSE s[i]] BY DEF ReplaceAll
<1>3. t \in [1..Len(s) -> (S \ {old}) \cup {new}] BY <1>1, <1>2
<1>4. t \in Seq((S \ {old}) \cup {new}) /\ Len(t) = Len(s) BY <1>1, <1>2, <1>3
<1>5. \A i \in 1..Len(s) : t[i] = IF s[i] = old THEN new ELSE s[i] BY <1>2
<1> HIDE DEF t
<1>6. DOMAIN t = 1..Len(s) BY <1>4
<1>7. ToSet(t) = (ToSet(s) \ {old}) \cup {new}
  <2>1. \A i \in 1..Len(s) : t[i] \in (ToSet(s) \ {old}) \cup {new} BY <1>1, <1>5 DEF ToSet
  <2>2. \A i \in 1..Len(s) : s[i] # old => s[i] \in ToSet(t) BY <1>5, <1>6 DEF ToSet
  <2>3. new \in ToSet(t) BY <1>1, <1>5, <1>6 DEF ToSet
  <2>4. QED BY <2>1, <2>2, <2>3, <1>1, <1>6 DEF ToSet
<1>8. NoRepeats(t)
  <2>1. \A i \in 1..Len(s) : s[i] # new BY <1>1 DEF ToSet
  <2>2. QED BY <2>1, <1>4, <1>5 DEF NoRepeats
<1>9. QED BY <1>4, <1>5, <1>7, <1>8 DEF t, Replaced, Swapped

\* Replacing an element keeps the order of the others.
LEMMA ReplacedPrecedes ==
  ASSUME NEW S, NEW s \in Seq(S), NEW t, NEW old, NEW new, Replaced(t, s, old, new),
         NEW a, NEW b, a # old, b # old, Precedes(s, a, b)
  PROVE  Precedes(t, a, b)
<1>1. PICK i \in 1..Len(s), j \in 1..Len(s) : i < j /\ s[i] = a /\ s[j] = b BY DEF Precedes
<1>2. t[i] = a /\ t[j] = b /\ Len(t) = Len(s) BY <1>1 DEF Replaced
<1>3. QED BY <1>1, <1>2 DEF Precedes

\* list_insert before the list head.
LEMMA AppendElements ==
  ASSUME NEW S, NEW s \in Seq(S), NEW e \in S, e \notin ToSet(s), NoRepeats(s)
  PROVE  /\ Append(s, e) \in Seq(S)
         /\ ToSet(Append(s, e)) = ToSet(s) \cup {e}
         /\ NoRepeats(Append(s, e))
<1> DEFINE t == Append(s, e)
<1>1. Len(s) \in Nat /\ DOMAIN s = 1..Len(s) OBVIOUS
<1>2. /\ t \in Seq(S) /\ Len(t) = Len(s) + 1 /\ DOMAIN t = 1..(Len(s) + 1)
      /\ t[Len(s) + 1] = e
      /\ \A i \in 1..Len(s) : t[i] = s[i]
  OBVIOUS
<1> HIDE DEF t
<1>3. \A i \in 1..Len(s) : s[i] # e BY <1>1 DEF ToSet
<1>4. \A i \in 1..(Len(s) + 1) : i \in 1..Len(s) \/ i = Len(s) + 1 BY <1>1
<1>5. 1..Len(s) \subseteq 1..(Len(s) + 1) /\ Len(s) + 1 \in 1..(Len(s) + 1) BY <1>1
<1>6. ToSet(t) = ToSet(s) \cup {e}
  <2>1. \A i \in 1..(Len(s) + 1) : t[i] \in ToSet(s) \cup {e} BY <1>1, <1>2, <1>4 DEF ToSet
  <2>2. \A i \in 1..Len(s) : s[i] \in ToSet(t) BY <1>2, <1>5 DEF ToSet
  <2>3. e \in ToSet(t) BY <1>2, <1>5 DEF ToSet
  <2>4. QED BY <2>1, <2>2, <2>3, <1>1, <1>2 DEF ToSet
<1>7. NoRepeats(t)
  <2>1. SUFFICES ASSUME NEW i \in 1..(Len(s) + 1), NEW j \in 1..(Len(s) + 1), t[i] = t[j]
                 PROVE  i = j
    BY <1>2 DEF NoRepeats
  <2>2. QED BY <2>1, <1>2, <1>3, <1>4 DEF NoRepeats
<1>8. QED BY <1>2, <1>6, <1>7 DEF t

\* What holds before a loop and is kept by each of its turns holds after it.
LEMMA LoopStays ==
  ASSUME NEW N \in Nat, NEW S, NEW t, t[0] \in S, \A n \in 1..N : t[n - 1] \in S => t[n] \in S
  PROVE  \A n \in 0..N : t[n] \in S
<1> DEFINE K == {n \in 0..N : t[n] \notin S}
<1>1. SUFFICES ASSUME NEW x \in K PROVE FALSE OBVIOUS
<1>2. K \in SUBSET Nat OBVIOUS
<1>3. PICK m \in K : \A k \in K : m <= k
  <2> HIDE DEF K
  <2>1. QED BY <1>1, <1>2, LeastExists
<1>4. m \in 1..N /\ m - 1 \in 0..N /\ m - 1 \notin K BY <1>3
<1>5. QED BY <1>3, <1>4

\* The states of a loop of N turns F that begins with x.
IsLoop(a, N, S, x, F) == a \in [0..N -> S] /\ a[0] = x /\ \A k \in 1..N : a[k] = F[a[k - 1]]

LEMMA LoopExists ==
  ASSUME NEW N \in Nat, NEW S, NEW x \in S, NEW F \in [S -> S]
  PROVE  \E a : IsLoop(a, N, S, x, F)
<1> SUFFICES \E a \in [0..N -> S] : a[0] = x /\ \A k \in 1..N : a[k] = F[a[k - 1]]
  BY DEF IsLoop
<1> DEFINE Good(n) == \E a \in [0..n -> S] : a[0] = x /\ \A k \in 1..n : a[k] = F[a[k - 1]]
           K == {n \in 0..N : ~Good(n)}
<1>1. SUFFICES ASSUME N \in K PROVE FALSE OBVIOUS
<1>2. K \in SUBSET Nat OBVIOUS
<1>3. PICK m \in K : \A k \in K : m <= k
  <2> HIDE DEF K
  <2>1. QED BY <1>1, <1>2, LeastExists
<1>4. m # 0
  <2> DEFINE a == [k \in 0..0 |-> x]
  <2>1. a \in [0..0 -> S] /\ a[0] = x /\ \A k \in 1..0 : a[k] = F[a[k - 1]] OBVIOUS
  <2>2. Good(0) BY <2>1
  <2>3. QED BY <1>3, <2>2
<1>5. m \in 1..N /\ m - 1 \in 0..N /\ m - 1 \notin K
  <2> HIDE DEF Good
  <2>1. m \in 0..N BY <1>3
  <2>2. m - 1 \notin K
    <3> HIDE DEF K
    <3>1. QED BY <1>3, <2>1
  <2>3. QED BY <1>4, <2>1, <2>2
<1>6. PICK a \in [0..(m - 1) -> S] : a[0] = x /\ \A k \in 1..(m - 1) : a[k] = F[a[k - 1]] BY <1>5
<1> DEFINE b == [k \in 0..m |-> IF k = m THEN F[a[m - 1]] ELSE a[k]]
<1>7. b \in [0..m -> S] /\ b[0] = x /\ b[m] = F[b[m - 1]] /\ \A k \in 0..(m - 1) : b[k] = a[k]
  BY <1>5, <1>6
<1> HIDE DEF b
<1>8. \A k \in 1..m : b[k] = F[b[k - 1]]
  <2>1. SUFFICES ASSUME NEW k \in 1..m PROVE b[k] = F[b[k - 1]] OBVIOUS
  <2>2. CASE k = m BY <1>7, <2>2
  <2>3. CASE k # m
    <3>1. k \in 1..(m - 1) /\ k - 1 \in 0..(m - 1) BY <1>5, <2>3
    <3>2. b[k] = a[k] /\ b[k - 1] = a[k - 1] BY <1>5, <1>7, <3>1
    <3>3. QED BY <1>6, <3>1, <3>2
  <2>4. QED BY <2>2, <2>3
<1>9. Good(m) BY <1>7, <1>8
<1>10. QED BY <1>3, <1>9

\* What holds for 1, and for k + 1 if it holds for k, holds up to N.
LEMMA Climb ==
  ASSUME NEW N \in Nat, NEW K, N > 0 => 1 \in K, \A k \in 1..(N - 1) : k \in K => k + 1 \in K
  PROVE  \A k \in 1..N : k \in K
<1> DEFINE B == {k \in 1..N : k \notin K}
<1>1. SUFFICES ASSUME NEW x \in B PROVE FALSE OBVIOUS
<1>2. B \in SUBSET Nat OBVIOUS
<1>3. PICK m \in B : \A k \in B : m <= k
  <2> HIDE DEF B
  <2>1. QED BY <1>1, <1>2, LeastExists
<1>4. m # 1 BY <1>3
<1>5. m - 1 \in 1..(N - 1) /\ m - 1 \notin B BY <1>3, <1>4
<1>6. QED BY <1>3, <1>5

\* The sums of the numbers d[2], d[3], ... so far.
Summands(N, d) == \A k \in 2..N : d[k] \in Nat
SumsOf(N, d, c) ==
  c \in [1..N -> Nat] /\ \A k \in 1..N : c[k] = IF k = 1 THEN 0 ELSE c[k - 1] + d[k]

LEMMA SumsExist ==
  ASSUME NEW N \in Nat, NEW d, Summands(N, d)
  PROVE  \E c : SumsOf(N, d, c)
<1> USE DEF Summands, SumsOf
<1> DEFINE Good(n) == \E c : SumsOf(n, d, c)
           K == {n \in 1..N : Good(n)}
<1>1. CASE N = 0
  <2> DEFINE c == [k \in 1..N |-> 0]
  <2>1. c \in [1..N -> Nat] OBVIOUS
  <2>2. ~ \E k \in 1..N : TRUE BY <1>1
  <2> HIDE DEF c
  <2>3. QED BY <2>1, <2>2
<1>2. CASE N > 0
  <2>1. 1 \in K
    <3> DEFINE c == [k \in 1..1 |-> 0]
    <3>1. c \in [1..1 -> Nat] /\ \A k \in 1..1 : c[k] = IF k = 1 THEN 0 ELSE c[k - 1] + d[k] OBVIOUS
    <3> HIDE DEF c
    <3>2. QED BY <1>2, <3>1
  <2>2. ASSUME NEW n \in 1..(N - 1), n \in K PROVE n + 1 \in K
    <3>1. PICK c \in [1..n -> Nat] : \A k \in 1..n : c[k] = IF k = 1 THEN 0 ELSE c[k - 1] + d[k] BY <2>2
    <3> DEFINE e == [k \in 1..(n + 1) |-> IF k = n + 1 THEN c[n] + d[n + 1] ELSE c[k]]
    <3>2. c[n] + d[n + 1] \in Nat
      <4>1. c[n] \in Nat /\ n + 1 \in 2..N OBVIOUS
      <4>2. QED BY <4>1
    <3>3. e \in [1..(n + 1) -> Nat]
      <4>1. \A k \in 1..(n + 1) : k # n + 1 => k \in 1..n OBVIOUS
      <4>2. QED BY <3>2, <4>1
    <3>4. e[n + 1] = c[n] + d[n + 1] /\ \A k \in 1..n : e[k] = c[k]
      <4>1. \A k \in 1..n : k \in 1..(n + 1) /\ k # n + 1 OBVIOUS
      <4>2. QED BY <4>1
    <3> HIDE DEF e
    <3>5. \A k \in 1..n : k # 1 => k - 1 \in 1..n OBVIOUS
    <3>6. \A k \in 1..n : e[k] = IF k = 1 THEN 0 ELSE e[k - 1] + d[k] BY <3>1, <3>4, <3>5
    <3>7. e[n + 1] = IF n + 1 = 1 THEN 0 ELSE e[n + 1 - 1] + d[n + 1] BY <3>4
    <3>8. \A k \in 1..(n + 1) : k = n + 1 \/ k \in 1..n OBVIOUS
    <3>9. \A k \in 1..(n + 1) : e[k] = IF k = 1 THEN 0 ELSE e[k - 1] + d[k] BY <3>6, <3>7, <3>8
    <3>10. Good(n + 1) BY <3>3, <3>9
    <3>11. n + 1 \in 1..N OBVIOUS
    <3> HIDE DEF Good
    <3>12. QED BY <3>10, <3>11
  <2> HIDE DEF K
  <2>3. \A k \in 1..N : k \in K BY <2>1, <2>2, Climb
  <2>4. N \in K BY <1>2, <2>3
  <2>5. QED BY <2>4 DEF K
<1>3. QED BY <1>1, <1>2

\* What holds for each t up to N if it holds for those above, holds for all.
LEMMA Descend ==
  ASSUME NEW N \in Nat, NEW K, \A t \in 0..N : (\A v \in 0..N : v > t => v \in K) => t \in K
  PROVE  \A t \in 0..N : t \in K
<1> DEFINE B == {n \in 0..N : N - n \notin K}
<1>1. SUFFICES ASSUME NEW y \in 0..N, y \notin K PROVE FALSE OBVIOUS
<1>2. N - y \in B
  <2>1. N - y \in 0..N /\ N - (N - y) = y OBVIOUS
  <2>2. QED BY <1>1, <2>1
<1>3. B \in SUBSET Nat OBVIOUS
<1>4. PICK m \in B : \A n \in B : m <= n
  <2> HIDE DEF B
  <2>1. QED BY <1>2, <1>3, LeastExists
<1>5. m \in 0..N /\ N - m \notin K OBVIOUS
<1>6. ASSUME NEW v \in 0..N, v > N - m PROVE v \in K
  <2>1. N - v \in 0..N /\ N - (N - v) = v /\ ~(m <= N - v) BY <1>5, <1>6
  <2>2. N - v \notin B BY <1>4, <2>1
  <2>3. QED BY <2>1, <2>2
<1>7. N - m \in 0..N BY <1>5
<1>8. QED BY <1>5, <1>6, <1>7

\* A list put together from the lists s[t], s[next[t]], ... up to N.
Chain(N, S, s, next, f) ==
  /\ f \in [0..N -> Seq(S)]
  /\ \A t \in 0..N : f[t] = s[t] \o (IF next[t] = N THEN <<>> ELSE f[next[t]])

\* Each place is followed by a later one, or by none, which is N.
MovesUp(N, next) == next \in [0..N -> 0..N] /\ \A t \in 0..N : next[t] = N \/ next[t] > t

LEMMA ChainExists ==
  ASSUME NEW N \in Nat, NEW S, NEW s \in [0..N -> Seq(S)], NEW next, MovesUp(N, next)
  PROVE  \E f : Chain(N, S, s, next, f)
<1> DEFINE Good(n) == \E f \in [n..N -> Seq(S)] :
                        \A t \in n..N : f[t] = s[t] \o (IF next[t] = N THEN <<>> ELSE f[next[t]])
           K == {n \in 0..N : Good(n)}
<1>0. next \in [0..N -> 0..N] /\ \A t \in 0..N : next[t] = N \/ next[t] > t BY DEF MovesUp
<1>1. ASSUME NEW n \in 0..N, n + 1 \in 0..N => Good(n + 1) PROVE Good(n)
  <2>1. PICK f : /\ f \in [(n + 1)..N -> Seq(S)]
                 /\ \A t \in (n + 1)..N : f[t] = s[t] \o (IF next[t] = N THEN <<>> ELSE f[next[t]])
    <3>1. CASE n + 1 \in 0..N BY <1>1, <3>1
    <3>2. CASE n + 1 \notin 0..N
      <4> DEFINE f == [t \in (n + 1)..N |-> <<>>]
      <4>1. ~ \E t \in (n + 1)..N : TRUE BY <3>2
      <4>2. f \in [(n + 1)..N -> Seq(S)] BY <4>1
      <4> HIDE DEF f
      <4>3. QED BY <4>1, <4>2
    <3>3. QED BY <3>1, <3>2
  <2> DEFINE e == s[n] \o (IF next[n] = N THEN <<>> ELSE f[next[n]])
             g == [t \in n..N |-> IF t = n THEN e ELSE f[t]]
  <2>2. next[n] = N \/ next[n] \in (n + 1)..N BY <1>0
  <2>3. s[n] \in Seq(S) /\ (next[n] # N => f[next[n]] \in Seq(S)) BY <2>1, <2>2
  <2>4. e \in Seq(S)
    <3>1. CASE next[n] = N
      <4>1. <<>> \in Seq(S) OBVIOUS
      <4>2. QED BY <2>3, <3>1, <4>1
    <3>2. CASE next[n] # N BY <2>3, <3>2
    <3>3. QED BY <3>1, <3>2
  <2> HIDE DEF e
  <2>5. \A t \in n..N : t = n \/ t \in (n + 1)..N OBVIOUS
  <2>6. \A t \in n..N : (IF t = n THEN e ELSE f[t]) \in Seq(S) BY <2>1, <2>4, <2>5
  <2>7. g \in [n..N -> Seq(S)] BY <2>6
  <2>8. g[n] = e /\ \A t \in (n + 1)..N : g[t] = f[t]
    <3>1. n \in n..N /\ \A t \in (n + 1)..N : t \in n..N /\ t # n OBVIOUS
    <3>2. QED BY <3>1
  <2> HIDE DEF g
  <2>9. g[n] = s[n] \o (IF next[n] = N THEN <<>> ELSE g[next[n]])
    <3>1. next[n] # N => g[next[n]] = f[next[n]] BY <2>2, <2>8
    <3>2. QED BY <2>8, <3>1 DEF e
  <2>10. ASSUME NEW t \in (n + 1)..N PROVE g[t] = s[t] \o (IF next[t] = N THEN <<>> ELSE g[next[t]])
    <3>1. t \in 0..N OBVIOUS
    <3>2. next[t] = N \/ next[t] \in (n + 1)..N BY <1>0, <3>1
    <3>3. next[t] # N => g[next[t]] = f[next[t]] BY <2>8, <3>2
    <3>4. QED BY <2>1, <2>8, <3>3
  <2>11. \A t \in n..N : g[t] = s[t] \o (IF next[t] = N THEN <<>> ELSE g[next[t]]) BY <2>5, <2>9, <2>10
  <2>12. QED BY <2>7, <2>11
<1> HIDE DEF Good
<1>2. \A n \in 0..N : (\A v \in 0..N : v > n => v \in K) => n \in K
  <2>1. SUFFICES ASSUME NEW n \in 0..N, \A v \in 0..N : v > n => v \in K PROVE n \in K OBVIOUS
  <2>2. n + 1 \in 0..N => Good(n + 1) BY <2>1
  <2>3. QED BY <1>1, <2>2
<1> HIDE DEF K
<1>3. 0 \in K
  <2>1. \A n \in 0..N : n \in K BY <1>2, Descend
  <2>2. QED BY <2>1
<1>4. Good(0) BY <1>3 DEF K
<1>5. QED BY <1>4 DEF Good, Chain

=============================================================================
