SPECIFICATION Spec
CONSTANTS
  Caller = {t1, t2, t3}
  CallCap = 2
  CostCap = 2
  Price = 2
  Hard = 2
  MinRetry = 1
  Floor = 1
  MaxAttempts = 2
  MaxTime = 3
  MaxDays = 2
  MaxCalls = 5
  MaxBatch = 1
SYMMETRY Interchangeable
INVARIANTS
  TypeOK
  OvershootBounded
  WaitsFitDeadline
  AnnouncedOnce
