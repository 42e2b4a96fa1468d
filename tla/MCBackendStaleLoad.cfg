CONSTANTS
  NR_ENTRIES = 4
  Insts <- MCLoad
  FrontendExcps = {FALSE}
  AccessExcps = {FALSE}
  Interrupts = {FALSE}
  LineHeld = TRUE
SPECIFICATION Spec
INVARIANT
  CommitsQueuedStore
