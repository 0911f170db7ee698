SPECIFICATION Spec
CONSTANTS
  a1 = a1
  a2 = a2
  e1 = e1
  e2 = e2
  f1 = f1
  p1 = p1
  b1 = b1
  b2 = b2
  Alias <- CalAlias
  Event <- CalEvent
  Owner <- CalOwner
  Foreign = {}
  Malformed = {}
  Batch <- MCBatch
  Content <- CalContent
  MaxAttempts = 1
  RolloverAge = 1
  Retention = 3
  MayStayWarm = FALSE
  MaxSuffix = 6
  MaxNow = 5
  MaxFaults = 0
INVARIANTS IndicesExpire AliasAdopted
PROPERTY KeptAsPromised
CHECK_DEADLOCK FALSE
