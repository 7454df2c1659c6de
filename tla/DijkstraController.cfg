SPECIFICATION FairSpec
CONSTANTS
  V = 4
  INT_MAX = 99
  h1 = h1
  h2 = h2
  Topologies <- MCTopologies
  Hosts <- MCHosts
  HostSwitch <- MCHostSwitch
  Packets <- MCPackets
  SrcHost <- MCSrcHost
  DstHost <- MCDstHost
  Room = 1
  Connected = {1, 2, 4}
CHECK_DEADLOCK FALSE
PROPERTIES
  RoutesAreShortest
  PacketsArrive
