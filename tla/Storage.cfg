SPECIFICATION StorageSpec
CONSTANTS
  Clients = {c1, c2}
  None = None
  TurnCap = 2
  ReadCap = 1
  MaxCalls = 3
  MaxDeletes = 1
  Tools = {"set", "pin", "add", "complete", "clear"}
  MaxItems = 1
SYMMETRY Interchangeable
INVARIANT TypeOK
INVARIANT StoredAsGrouped
INVARIANT DeleteLeavesNothing
INVARIANT VersionsHeld
