SPECIFICATION SceneSpec
CONSTANTS
  Users = {u1, u2}
  t1 = t1
  t2 = t2
  Tokens = {t1, t2}
  NoOne = NoOne
  Persists = TRUE
  MaxStops = 1
  MaxCrashes = 1
  MaxFails = 1
INVARIANT WaitersExact
INVARIANT RowsOutlive
PROPERTY OneShot
PROPERTY StreamEnds
