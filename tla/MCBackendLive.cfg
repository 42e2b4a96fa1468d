CONSTANTS
  NR_ENTRIES = 3
  Insts <- MCLive
  FrontendExcps = {FALSE}
  AccessExcps = {FALSE}
  Interrupts = {FALSE}
  LineHeld = TRUE
SPECIFICATION FairSpec
PROPERTIES
  SlotsAreFreed
  ExAlwaysFrees
