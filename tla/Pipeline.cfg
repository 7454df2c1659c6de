SPECIFICATION FairSpec
CONSTANTS
  Ports = {1, 2}
  InPorts = {1}
  Unstable = {2}
  NumTables = 2
  Groups <- MCGroups
  Bands <- MCBands
  RefillsPerSec = 2
  Entries <- MCEntriesOf
  Lists <- MCLists
  TTLs = {1}
  NumSlots = 1
  MaxTags = 1
  TableOutcomes <- MCTable
  InstOutcomes <- MCInsts
  ListOutcomes <- MCList
  SetOutcomes <- MCSet
  GroupOutcomes <- MCGroup
  AllOutcomes <- MCAll
INVARIANTS
  OutputsAsPromised
  EachPacketIsOwned
  SharesByWeight
  MeterKeepsRate
PROPERTIES
  WalkEnds
