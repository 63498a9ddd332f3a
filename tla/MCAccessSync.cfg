SPECIFICATION FairSpec
CONSTANTS
  Names = {ann, root}
  Root = root
  Slots = {s1, s2}
  Levels = {0, 1, 10}
  Full = 10
  MinAccess = 1
  MaxCommands = 2
  MaxFailures = 1
INVARIANTS
  NoEscalation
  SyncedAgrees
PROPERTIES
  Convergence
CHECK_DEADLOCK FALSE
