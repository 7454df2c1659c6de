SPECIFICATION Spec
CONSTANTS
  Controllers = {c1, c2}
  Modulus = 8
  NumTables = 3
  MaxEntries = 1
  TablesPerReply = 2
  Ports = {1}
  AsyncConfigs <- NoIdle
  Pieces <- SomePieces
  MaxPending = 2
  MaxAdvance = 2
SYMMETRY Same
INVARIANTS
  AtMostOneMaster
  ToldIsTrue
  NewestIsMaster
  RepliesAreWhole
PROPERTIES
  RequestsApplyWhole
