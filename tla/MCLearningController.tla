------------------------ MODULE MCLearningController ------------------------
(***************************************************************************)
(* Instances of LearningController for TLC: two switches, three hosts.     *)
(***************************************************************************)
EXTENDS LearningController

CONSTANTS s1, s2, h1, h2, h3

MCLinks == {<<s1, s2>>}
MCAttached == [h \in {h1, h2, h3} |-> IF h = h1 THEN s1 ELSE s2]
MCSrc == <<h1, h2, h1>>
MCDst == <<Everyone, h1, h2>>
=============================================================================
