--------------------------- MODULE MCSpanningTree ---------------------------
(* Three bridges in a triangle, all links at the same cost: the root and   *)
(* its two neighbours, one of which blocks the link between them.          *)
EXTENDS SpanningTree

MCBridges == 1 .. 3
MCPorts == 1 .. 2
MCLinks == { {<<1, 1>>, <<2, 1>>}, {<<2, 2>>, <<3, 1>>}, {<<1, 2>>, <<3, 2>>} }
MCPathCost == [e \in UNION MCLinks |-> 1]

=============================================================================
