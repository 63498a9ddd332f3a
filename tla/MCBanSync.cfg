SPECIFICATION FairSpec
CONSTANTS
  Servers = {east, west}
  Names = {ann}
  Slots = {s1, s2}
  MaxRows = 1
  MaxCommands = 3
  MaxFailures = 1
INVARIANTS
  SyncedAgrees
PROPERTIES
  Convergence
CHECK_DEADLOCK FALSE
