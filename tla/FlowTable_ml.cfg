SPECIFICATION FairSpec
CONSTANTS
  Ids = {i1, i2, i3}
  p = p
  q = q
  port1 = port1
  port2 = port2
  k1 = k1
  k2 = k2
  Packets <- MCPackets
  Outputs <- MCOutputs
  CookieBits <- MCCookieBits
  FlowMods <- FewFlowMods
  MaxEntries = 2
  FeatureSizes = {1}
  UseLru = FALSE
  Keys <- MCKeys
  FlowKeys <- MCFlowKeys
  FlowEnds <- MCEnds
  MinInactive = 1
  LongGap = 2
  MaxNow = 4
  Bits <- MCBits
  Words <- MCWords
  VlanVid = "vlan"
  Present <- MCPresent
  Exthdr = "exthdr"
  ThreeOctets = {"pbb"}
  Matches <- MCMatches
  Headers <- MCHeaders
CHECK_DEADLOCK FALSE
PROPERTIES
  MlEvictsWell
  TimeoutsServed
