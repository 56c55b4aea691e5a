SPECIFICATION SceneSpec
CONSTANTS
  u1 = u1
  u2 = u2
  c1 = c1
  c2 = c2
  c3 = c3
  r1 = r1
  r2 = r2
  Users = {u1, u2}
  Creds = {c1, c2, c3}
  Holder <- TwoHolders
  Requests = {r1, r2}
  Chains <- TwoChains
  MaxSteps = 2
  MaxChanges = 3
CHECK_DEADLOCK FALSE
INVARIANT TypeOK
INVARIANT RunsRecorded
INVARIANT EndsAsDecided
INVARIANT HealthIsEarned
INVARIANT OwnCredentials
PROPERTY OneProvider
