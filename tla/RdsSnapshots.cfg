SPECIFICATION FairSpec
CONSTANTS
  Snap <- MCSnap
  Kind <- MCKind
  RetentionDays = 1
  PageSize = 1
  ExportLimit = 1
  MaxAttempts = 3
  MaxNow = 2
  MaxFaults = 2
INVARIANTS TypeOK SweptClean
PROPERTIES KeptForRetention ExportedBeforeDeleted DayEnds
CHECK_DEADLOCK FALSE
