SPECIFICATION SceneSpec
CONSTANTS
  Users = {u1}
  t1 = t1
  t2 = t2
  Tokens = {t1, t2}
  NoOne = NoOne
  Persists = TRUE
  MaxStops = 1
  MaxCrashes = 0
  MaxFails = 0
INVARIANT SurvivesRestart
