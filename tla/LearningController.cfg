SPECIFICATION FairSpec
CONSTANTS
  s1 = s1
  s2 = s2
  h1 = h1
  h2 = h2
  h3 = h3
  Everyone = everyone
  Switches = {s1, s2}
  Hosts = {h1, h2, h3}
  Links <- MCLinks
  Attached <- MCAttached
  Packets = {1, 2, 3}
  Src <- MCSrc
  Dst <- MCDst
  Room = 1
  MaxMoves = 1
CHECK_DEADLOCK FALSE
INVARIANTS
  OneAccount
  
PROPERTIES
  PacketsArrive
