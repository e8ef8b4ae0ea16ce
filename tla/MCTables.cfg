SPECIFICATION TablesSpec
CONSTANTS
  Admin = {a1, a2}
  Template = {old, new}
  Default = old
  NoTemplate = NoTemplate
  MaxChanges = 2
  MaxShifts = 1
  MaxNoise = 1
  Item = {i1, i2}
  Batch = {b1, b2, b3}
  NoBatch = NoBatch
  Device = {d1, d2, d3}
  Code = {c1, c2}
  NoCode = NoCode
  Limit = 3
  MaxRequests = 9
INVARIANTS
  TypeOK
  AuditTellsEntry
  PoolTypeOK
  PoolIsOneBatch
  RecoveryTypeOK
  NeverLocksEarly
  CountsConsecutive
PROPERTIES
  LinkFollowsPlatform
