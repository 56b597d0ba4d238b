SPECIFICATION FairSpec
CONSTANTS
  Clients = {c1, c2}
  Axes <- MCAxis
  Frames = 1
  QueueSize = 2
INVARIANTS TypeOK OneWaypointAfterStop
PROPERTIES StopTakesEffect MoveStarts PlaybackEnds DestructorEndsMove
