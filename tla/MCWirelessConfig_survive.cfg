SPECIFICATION FairSpec
CONSTANTS
  Users = {menu}
  Boot = boot
  Ssids = {home}
  Unknown = {}
  Torn = torn
  MaxList = 1
  MaxOps = 1
  MaxCrashes = 2
PROPERTIES SavedSurvives
CHECK_DEADLOCK FALSE
