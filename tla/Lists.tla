-------------------------------- MODULE Lists --------------------------------
(***************************************************************************)
(* The doubly linked lists of lib/list.c seen as sequences.  A list head   *)
(* with its nodes is the sequence of the elements that hold the nodes;     *)
(* an element is in a list at most once, so removing a node is removing    *)
(* the element.  list_insert is InsertAt and list_replace is ReplaceAll of *)
(* SequencesExt.                                                           *)
(*                                                                         *)
(* The operators are not recursive, so that facts about them can be        *)
(* proved: a loop that unlinks some nodes keeps the others in order.       *)
(***************************************************************************)
EXTENDS Integers, FiniteSets, SequencesExt

\* The n-th smallest number of the finite set K of naturals.
Nth(K, n) == CHOOSE i \in K : Cardinality({j \in K : j < i}) = n - 1

\* The elements of s at the positions K, in the order of s.
AtPositions(s, K) == [n \in 1..Cardinality(K) |-> s[Nth(K, n)]]

\* The list once every element of R has been unlinked from it: list_remove
\* on each of their nodes, in a LIST_FOR_EACH_SAFE loop or alone.
Without(s, R) == AtPositions(s, {i \in 1..Len(s) : s[i] \notin R})

\* The position LIST_FOR_EACH stops at when the body leaves the loop at the
\* positions S; the position after the last one (the list head) if it never does.
FirstOf(s, S) == Min(S \cup {Len(s) + 1})

\* s lists each of its elements once.
NoRepeats(s) == \A i, j \in 1..Len(s) : s[i] = s[j] => i = j

\* a comes before b in s.
Precedes(s, a, b) == \E i, j \in 1..Len(s) : i < j /\ s[i] = a /\ s[j] = b
=============================================================================
