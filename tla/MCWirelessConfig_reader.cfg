SPECIFICATION FairSpec
CONSTANTS
  Users = {menu, web}
  Boot = boot
  Ssids = {home}
  Unknown = {}
  Torn = torn
  MaxList = 1
  MaxOps = 2
  MaxCrashes = 0
PROPERTIES ReadersChangeNothing
CHECK_DEADLOCK FALSE
