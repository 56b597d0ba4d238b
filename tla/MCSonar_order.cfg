SPECIFICATION FairSpec
CONSTANTS
  Null = Null
  fired = fired
  controlled = controlled
  Pins <- MCPinsOne
  Busy = {}
  Sonars <- MCOne
  Objects <- MCOne
  TriggerPort <- MCTriggerLast
  EchoPort <- MCEchoFirst
  Controlled = {}
  OldEcho = FALSE
  MaxShots = 2
\* Both are violated: leave one out to see the other.
INVARIANTS OwnEcho
PROPERTIES FireReturns
