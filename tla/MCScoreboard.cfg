CONSTANTS
  NR_ENTRIES = 4
  Regs   <- MCRegs
  Values <- MCValues
  Insts  <- MCInsts
  Inputs <- MCInputs
SPECIFICATION Spec
INVARIANTS
  Window
  NeverWedged
  UniqueWriter
PROPERTIES
  MispredictSquashesNothing
