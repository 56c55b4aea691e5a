SPECIFICATION EndingsSpec
CONSTANTS
  u1 = u1
  u2 = u2
  c1 = c1
  c2 = c2
  c3 = c3
  r1 = r1
  Users = {u1, u2}
  NumJobs = 1
  Polls = {p1, p2}
  Sockets = {s1}
  NumCells = 5
  MaxPolls = 1
  MaxSockets = 1
  None = None
  Places = {a}
  Home = h
  Unknown = u
  Kinds = {"read", "data", "look", "act"}
  MaxIterations = 1
  RepeatLimit = 3
  LookLimit = 2
  ExploreReads = 2
  FanoutReads = 2
CHECK_DEADLOCK FALSE
INVARIANT NoLostWake
INVARIANT TablesMatchCalls
INVARIANT TurnSafe
PROPERTY OneShotCall
PROPERTY CallsReturn
PROPERTY RequestsEnd
PROPERTY TurnAppendedOnce
PROPERTY TurnEnds
PROPERTY OverlayEnds
