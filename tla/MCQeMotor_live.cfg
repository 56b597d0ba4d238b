SPECIFICATION FairSpec
CONSTANTS
  Writers = {w1}
  Readers = {r1}
  Pos = {0}
  PidOut <- MCQuiet
  UserPwm <- MCNone
  Counts = {1, 3}
  Sizes = {1, 2, 3, 4, 5}
  Cap = 2
  TrajTimer = 1
  MaxPwm = 1
PROPERTIES WriteReturns ReadReturns TrajectoryEnds
