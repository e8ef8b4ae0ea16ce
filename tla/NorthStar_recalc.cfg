SPECIFICATION Spec
CONSTANTS
  Session = {s1}
  Window = 1
  Ttl = 2
  DayLength = 2
  AggregateAt = 1
  MaxSwaps = 1
  Long = {1}
  NoToken = NoToken
  NoRow = NoRow
  MaxTime = 3
  MaxEvents = 4
  MaxMeanwhile = 2
  MaxClears = 1
CHECK_DEADLOCK FALSE
INVARIANT RecalcAgrees
