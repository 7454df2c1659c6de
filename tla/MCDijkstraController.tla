----------------------- MODULE MCDijkstraController -----------------------
(***************************************************************************)
(* Instances of DijkstraController for TLC.                                *)
(***************************************************************************)
EXTENDS DijkstraController

CONSTANTS h1, h2

Matrix(links) == [a \in Switches |-> [b \in Switches |->
  IF \E l \in links : {l[1], l[2]} = {a, b}
  THEN (CHOOSE l \in links : {l[1], l[2]} = {a, b})[3] ELSE 0]]

\* Two ways of equal cost beside a link that costs more; two islands.
Diamond == Matrix({<<1, 2, 1>>, <<1, 3, 1>>, <<2, 4, 1>>, <<3, 4, 1>>, <<1, 4, 5>>})
Islands == Matrix({<<1, 2, 1>>, <<3, 4, 1>>})
MCTopologies == {Diamond, Islands}

MCHosts == {h1, h2}
MCHostSwitch == [h \in MCHosts |-> IF h = h1 THEN 1 ELSE 4]
MCPackets == 1..3
MCSrcHost == [p \in MCPackets |-> IF p = 3 THEN h2 ELSE h1]
MCDstHost == [p \in MCPackets |-> IF p = 3 THEN h1 ELSE h2]
=============================================================================
