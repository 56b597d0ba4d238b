SPECIFICATION FairSpec
CONSTANTS
  Threads = {main, other}
  Main = main
  Used = {"probe", "command", "info", "position", "speed"}
  Ids = 4
  Prime = 409
  MaxKills = 1
  Free = Free
INVARIANTS SessionOwned Aligned IdleWhenClosed
PROPERTIES SessionEnds
