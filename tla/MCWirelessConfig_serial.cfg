SPECIFICATION FairSpec
CONSTANTS
  Users = {menu}
  Boot = boot
  Ssids = {home}
  Unknown = {odd}
  Torn = torn
  MaxList = 2
  MaxOps = 2
  MaxCrashes = 1
INVARIANTS TypeOK QuietJsonLoads SerialExact
PROPERTIES JsonRecovers
CHECK_DEADLOCK FALSE
