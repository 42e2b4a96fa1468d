CONSTANTS
  Size = 4
  Data = {d0, d1}
  Zero = d0
SPECIFICATION Spec
INVARIANTS
  Contiguous
PROPERTIES
  RefinesFifo
