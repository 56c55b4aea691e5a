SPECIFICATION MCSpec
CONSTANTS
  c1 = c1
  c2 = c2
  u1 = u1
  u2 = u2
  Scenes = {"pairing", "stream", "dialogue", "gate", "work", "record", "file", "find"}
  Second = {"click", "read_file", "memory_list"}
  Ids = {"a", "b"}
  CallIds = {"a", "b"}
  Longest = 4
  Names = {"f", "g"}
  Indices = {0, 1}
  MaxChunks = 3
  Requests = {"r1", "r2"}
  NoRequest = "none"
  MaxTalk = 6
  MaxRequests = 3
  TurnCap = 2
  Planned = 3
  MaxWidth = 2
  MaxIterations = 0
  RepeatLimit = 2
  MaxSteps = 1
  HistoryLimit = 3
  Stubborn = 1
  Stored = 3
  LastTime = 2
  Users = {u1, u2}
  Callers = {c1, c2}
  Ops = {"chat", "save", "create", "dashboard", "search", "list"}
  Spoken <- SaidThings
  Alike <- Misspelt
  Cap = 1
  Limit = 1
  MaxProjects = 3
  MaxMemories = 3
CHECK_DEADLOCK FALSE
INVARIANT RequestsPaired
INVARIANT DialectsSafe
INVARIANT ToolsSafe
INVARIANT RecordsSafe
