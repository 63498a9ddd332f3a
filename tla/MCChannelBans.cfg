SPECIFICATION ChannelSpec
CONSTANTS
  Names = {n1, n2}
  QueueLimit = 1
  MaxEvents = 2
  MaxChanges = 3
SYMMETRY Symmetry
INVARIANTS NobodyOverlooked
