SPECIFICATION SceneSpec
CONSTANTS
  t1 = t1
  t2 = t2
  s1 = s1
  s2 = s2
  Tokens = {t1, t2}
  Sockets = {1, 2}
  Streams = {s1, s2}
  Nowhere = Nowhere
  MaxTunnels = 1
  MaxStreams = 1
  QueueSize = 1
  TotalBytes = 1
  Chunks = 2
  BodyChunks = 1
CHECK_DEADLOCK FALSE
INVARIANT TypeOK
INVARIANT BodyIsPrefix
INVARIANT TunnelsHeld
INVARIANT OvershootBounded
PROPERTY RequestsEnd
