SPECIFICATION Spec
CONSTANTS
  Names = {n1, root}
  Obj = {o1, o2, o3, o4, o5}
  Nil = Nil
  Levels = {0, 5, 10}
  RootLevel = 10
  Root = root
  MaxDuplicates = 1
SYMMETRY Addresses
INVARIANTS
  MemorySafe
  NoDangling
  OneObjectPerName
  OnlyListedHaveAccess
PROPERTIES
  LeaksOnlyStrangers
  ImplementsView
