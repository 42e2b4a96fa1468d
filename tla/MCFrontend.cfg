CONSTANTS
  PcSize = 12
  RESET_VECTOR = 10
  INST_QUEUE_SIZE = 2
  Unmapped = {4, 5, 6, 7}
  Uncached = {}
  Branches = {2}
  Targets = {0, 1, 6}
  Entries = {8}
SPECIFICATION FairSpec
INVARIANTS
  TypeOK
  InProgramOrder
  FetchesExpected
  RightInstruction
PROPERTY FetchGoesOn
