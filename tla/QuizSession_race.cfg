SPECIFICATION Spec
CONSTANTS
  Worker = {w1, w2}
  Dish = {congee, noodles}
  NoDish = NoDish
  MaxSwaps = 2
  MaxAskSteps = 2
  MaxRequests = 7
  MaxFailures = 1
SYMMETRY Interchangeable
INVARIANTS
  TypeOK
  SwapBudget
  ResultOnRecord
  EventsTrail
  ShownWasRecommended
  ErrorOnlyAfterClear
  PathsAreComplete
  NobodyWaits
PROPERTIES
  LooseRounds
  SolidRounds
