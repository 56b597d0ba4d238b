SPECIFICATION Spec
CONSTANTS
  Procs = {p1, p2}
  ProcVectors <- MCOne
  ModVectors <- MCShared
  Stamps = {0}
  None = None
INVARIANTS TypeOK MaskedUnlessUsed NotLeftMasked
PROPERTIES HandlerKeepsMask SetterExcluded
SYMMETRY MCSymmetry
