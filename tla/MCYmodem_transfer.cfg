SPECIFICATION FairSpec
CONSTANTS
  N = 5
  Mod = 4
  MaxRetries = 12
  CrcRetries = 5
  Cans = 3
  MaxDamage = 2
  MaxStray = 2
INVARIANTS TypeOK InOrder
PROPERTIES Delivered
