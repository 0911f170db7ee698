SPECIFICATION Spec
CONSTANTS
  Snap <- MCSnap
  Kind <- MCKind
  RetentionDays = 1
  PageSize = 4
  ExportLimit = 4
  MaxAttempts = 3
  MaxNow = 2
  MaxFaults = 1
PROPERTY ArchiveIsComplete
CHECK_DEADLOCK FALSE
