SPECIFICATION Spec
CONSTANTS
  Procs = {p1}
  ProcVectors <- MCOne
  ModVectors <- MCNobody
  Stamps = {0}
  None = None
INVARIANTS EveryEdgeKept
