SPECIFICATION FairSpec
CONSTANTS
  Thread = {f1, f2}
  Event = {e1, e2}
  NoEvent = NoEvent
  MaxRepeats = 1
  Batch = 2
  MaxRollbacks = 1
  MaxFailures = 1
INVARIANTS
  TypeOK
  CursorCovers
PROPERTIES
  SendsOnce
  AllDelivered
