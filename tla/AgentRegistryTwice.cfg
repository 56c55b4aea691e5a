SPECIFICATION Spec
CONSTANTS
  Users = {u1}
  NumJobs = 1
  Polls = {p1}
  Sockets = {s1}
  NumCells = 3
  MaxPolls = 1
  MaxSockets = 1
  None = None
INVARIANT DeliveredOnce
