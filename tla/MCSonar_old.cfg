SPECIFICATION Spec
CONSTANTS
  Null = Null
  fired = fired
  controlled = controlled
  Pins <- MCPinsOne
  Busy = {}
  Sonars <- MCOne
  Objects <- MCOne
  TriggerPort <- MCTriggerOne
  EchoPort <- MCEchoOne
  Controlled = {}
  OldEcho = TRUE
  MaxShots = 2
INVARIANTS TypeOK OwnEcho
