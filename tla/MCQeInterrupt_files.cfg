SPECIFICATION FairSpec
CONSTANTS
  Procs = {p1}
  ProcVectors <- MCGpio
  ModVectors <- MCNobody
  Stamps = {0, 1}
  None = None
INVARIANTS TimeNotTorn NoStaleReport EdgesKept
PROPERTIES EdgeServiced
