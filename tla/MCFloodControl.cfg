SPECIFICATION Spec
INVARIANTS
  ChatBounded
PROPERTIES
  Spacing
CONSTANTS
  TickMod = 20000
  ChatLimit = 1
  FreqLimit = 2
  Ahead = 4000
  Sizes = {4, 255}
  Steps = {1000, 8000}
  MaxTime = 26000
  MaxOthers = 1
CHECK_DEADLOCK FALSE
