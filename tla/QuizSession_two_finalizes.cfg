SPECIFICATION Spec
CONSTANTS
  Worker = {w1, w2}
  Dish = {congee, noodles}
  NoDish = NoDish
  MaxSwaps = 2
  MaxAskSteps = 2
  MaxRequests = 4
  MaxFailures = 0
PROPERTIES
  ResultSolidified
