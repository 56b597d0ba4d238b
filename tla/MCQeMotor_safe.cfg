SPECIFICATION Spec
CONSTANTS
  Writers = {w1, w2}
  Readers = {}
  Pos = {0}
  PidOut <- MCPidOut
  UserPwm <- MCUserPwm
  Counts = {1, 3}
  Sizes = {1, 2, 3}
  Cap = 3
  TrajTimer = 1
  MaxPwm = 1
INVARIANTS TypeOK ClosedMotorIsOff IdlePidIsClean NoStrandedWriter
PROPERTIES OffWithinOneTick
SYMMETRY MCSymmetry
