SPECIFICATION Spec
CONSTANTS
  Writers = {w1}
  Readers = {}
  Pos = {0}
  PidOut <- MCQuiet
  UserPwm <- MCNone
  Counts = {1, 3}
  Sizes = {1, 2}
  Cap = 3
  TrajTimer = 1
  MaxPwm = 1
PROPERTIES FlushAbortsWrite
