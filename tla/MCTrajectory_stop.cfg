SPECIFICATION Spec
CONSTANTS
  Clients = {c1}
  Axes <- MCAxis
  Frames = 2
  QueueSize = 2
PROPERTIES StopEndsMove
