SPECIFICATION FairSpec
CONSTANTS
  a1 = a1
  a2 = a2
  e1 = e1
  e2 = e2
  f1 = f1
  p1 = p1
  b1 = b1
  b2 = b2
  Alias <- DelAlias
  Event <- DelEvent
  Owner <- DelOwner
  Foreign <- DelForeign
  Malformed <- DelMalformed
  Batch <- MCBatch
  Content <- DelContent
  MaxAttempts = 2
  RolloverAge = 1
  Retention = 1
  MayStayWarm = TRUE
  MaxSuffix = 2
  MaxNow = 1
  MaxFaults = 1
INVARIANTS TypeOK AckedMeansStored OwnIndex
PROPERTIES DeletedOnlyExpired BatchesFinish
CHECK_DEADLOCK FALSE
