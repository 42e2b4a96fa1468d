CONSTANTS
  NR_ENTRIES = 4
  Insts <- MCSafe
  FrontendExcps = {FALSE}
  AccessExcps = {FALSE}
  Interrupts = {FALSE, TRUE}
  LineHeld = TRUE
SPECIFICATION Spec
INVARIANTS
  ResultsReachTheirOwners
  CsrCommitsItsOwnWrite
