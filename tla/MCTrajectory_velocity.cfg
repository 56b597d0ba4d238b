SPECIFICATION FairSpec
CONSTANTS
  Clients = {c1}
  Axes <- MCAxis
  Frames = 2
  QueueSize = 2
PROPERTIES VelocityStarts
