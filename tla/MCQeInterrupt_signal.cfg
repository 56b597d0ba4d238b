SPECIFICATION Spec
CONSTANTS
  Procs = {p1}
  ProcVectors <- MCGpio
  ModVectors <- MCNobody
  Stamps = {0}
  None = None
PROPERTIES SignalKept
