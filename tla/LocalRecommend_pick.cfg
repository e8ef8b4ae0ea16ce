SPECIFICATION Spec
CONSTANTS
  u1 = u1
  u2 = u2
  u3 = u3
  u4 = u4
  User <- MCUser
  Dish <- MCDish
  Name <- MCName
  Tags <- MCTags
  Path <- MCPath
  NodeTags <- MCNodeTags
  Hints <- MCHints
  RecentLimit = 2
  Window = 0
  NoPick = NoPick
  Mixed = Mixed
  MaxTime = 1
  MaxRounds = 4
  MaxOpen = 2
SYMMETRY Interchangeable
CHECK_DEADLOCK FALSE
INVARIANTS
  TypeOK
  EvenSpread
PROPERTIES
  FreshWhileThereIs
  OffPathOnlyWhenDry
