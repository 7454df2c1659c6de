SPECIFICATION Spec
CONSTANTS
  f1 = f1
  f2 = f2
  g1 = g1
  g2 = g2
  g3 = g3
  g4 = g4
  m1 = m1
  m2 = m2
  Flows = {f1, f2}
  GroupIds = {g1, g2, g3, g4}
  MeterIds = {m1, m2}
  Insts <- MCInsts
  GroupMods <- MCGroupMods
  MeterMods <- MCMeterMods
  MaxGroups = 3
  MaxBuckets = 4
  MaxMeters = 1
  MaxBands = 3
  FirstBands = {3}
  CountSize = 4
SYMMETRY Symmetry
INVARIANTS
  GroupRefsExact
  MeterRefsLive
  ChainsSound
  CountsExact
PROPERTIES
  GroupTakesItsFlows
