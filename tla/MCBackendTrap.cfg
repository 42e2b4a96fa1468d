CONSTANTS
  NR_ENTRIES = 3
  Insts <- MCTrap
  FrontendExcps = {FALSE, TRUE}
  AccessExcps = {FALSE, TRUE}
  Interrupts = {FALSE, TRUE}
  LineHeld = TRUE
SPECIFICATION Spec
INVARIANTS
  StoresInProgramOrder
  EffectsAreExclusive
  FreeSlotsAreNotExecuted
