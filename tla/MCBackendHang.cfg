CONSTANTS
  NR_ENTRIES = 4
  Insts <- MCHang
  FrontendExcps = {FALSE}
  AccessExcps = {FALSE}
  Interrupts = {FALSE}
  LineHeld = TRUE
SPECIFICATION FairSpec
PROPERTIES
  SlotsAreFreed
