SPECIFICATION FairSpec
CONSTANTS
  Null = Null
  fired = fired
  controlled = controlled
  Pins <- MCPins
  Busy = {}
  Sonars <- MCTwo
  Objects <- MCTwo
  TriggerPort <- MCTrigger
  EchoPort <- MCEcho
  Controlled <- MCControlled
  OldEcho = FALSE
  MaxShots = 2
INVARIANTS OwnEcho
PROPERTIES FireReturns
