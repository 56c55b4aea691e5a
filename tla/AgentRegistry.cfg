SPECIFICATION Spec
CONSTANTS
  Users = {u1}
  NumJobs = 2
  Polls = {p1, p2}
  Sockets = {s1, s2}
  NumCells = 4
  MaxPolls = 2
  MaxSockets = 2
  None = None
SYMMETRY Interchangeable
INVARIANT TypeOK
INVARIANT SlotsAccounted
INVARIANT PushedOnce
INVARIANT QueuedIsAwaited
