SPECIFICATION Spec
CONSTANTS
  Clients = {c1}
  Axes <- MCAxis
  Frames = 2
  QueueSize = 2
\* Both are violated: leave one out to see the other.
PROPERTIES DoneAfterLastWaypoint WaypointGenerated
