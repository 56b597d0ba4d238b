SPECIFICATION Spec
CONSTANTS
  N = 2
  Mod = 4
  MaxRetries = 3
  CrcRetries = 2
  Cans = 3
  MaxDamage = 2
  MaxStray = 0
INVARIANTS LoadedMeansEof
