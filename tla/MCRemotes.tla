----------------------------- MODULE MCRemotes -----------------------------
(* Instances of Remotes for TLC. *)
EXTENDS Remotes, TLC

F(t, n) == [table_id |-> t, max_entries |-> n]
P(x, f, m) == [xid |-> x, features |-> f, more |-> m]

\* Pieces of two requests: first ones and last ones, an empty one, a table too
\* large and one that does not exist.
SomePieces ==
  {P(1, <<F(0, 1)>>, TRUE), P(1, <<F(2, 1)>>, FALSE),
   P(2, <<F(1, 1)>>, TRUE), P(2, <<F(1, 2), F(0, 1)>>, FALSE),
   P(2, <<>>, FALSE), P(1, <<F(3, 1)>>, FALSE)}

NoIdle == {[full |-> Reasons \ {"OFPRR_IDLE_TIMEOUT"}, slave |-> PortStatuses]}

Same == Permutations(Controllers)
=============================================================================
