SPECIFICATION Spec
CONSTANTS
  Ids = {i1, i2, i3, i4}
  p = p
  q = q
  port1 = port1
  port2 = port2
  k1 = k1
  k2 = k2
  Packets <- MCPackets
  Outputs <- MCOutputs
  CookieBits <- MCCookieBits
  FlowMods <- MCFlowMods
  MaxEntries = 3
  FeatureSizes = {}
  UseLru = TRUE
  Keys <- MCKeys
  FlowKeys <- MCFlowKeys
  FlowEnds <- NoEnds
  MinInactive = 5
  LongGap = 10
  MaxNow = 4
  Bits <- MCBits
  Words <- MCWords
  VlanVid = "vlan"
  Present <- MCPresent
  Exthdr = "exthdr"
  ThreeOctets = {"pbb"}
  Matches <- MCMatches
  Headers <- MCHeaders
SYMMETRY Symmetry
INVARIANTS
  ListsAgree
  WithinCapacity
  LookupIsBest
  FewAllMatchesAreSafe
PROPERTIES
  MatchesAreSets
  LeavingIsAnnounced
  ImplementsFlowMap
  InsertionOrder
