SPECIFICATION ChannelSpec
CONSTANTS
  Names = {n1, n2}
  QueueLimit = 1
  MaxEvents = 2
  MaxChanges = 2
SYMMETRY Symmetry
INVARIANTS UnbanSettles
