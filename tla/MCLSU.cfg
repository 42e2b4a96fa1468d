CONSTANTS
  Ids <- MCIds
  Words = {w1}
  b0 = b0
  b1 = b1
  Lanes <- MCLanes
  Values <- MCIds
  QSize = 3
  MaxOps = 3
  MaxInFlight = 3
  OpKinds = {"load", "store", "sc"}
  Masks <- MCMasks
  MaxFlushes = 1
  TlbBusy = {FALSE}
SPECIFICATION FairSpec
CHECK_DEADLOCK FALSE
INVARIANTS
  StoresInProgramOrder
  MemoryIsArchitectural
  SimpleLoadReadsProgramOrder
PROPERTIES
  EveryOpLeaves
  ImplementsControl
