SPECIFICATION Spec
CONSTANTS
  N = 7
  Mod = 8
  MaxRetries = 12
  CrcRetries = 2
  Cans = 3
  MaxDamage = 1
  MaxStray = 1
\* Both are violated: leave one out to see the other.
INVARIANTS EofMeansComplete InOrder
