SPECIFICATION RecoverySpec
CONSTANTS
  Device = {d1, d2, d3}
  Code = {c1, c2}
  NoCode = NoCode
  Limit = 3
  MaxRequests = 9
SYMMETRY Interchangeable
INVARIANT
  LocksAfterLimit
