SPECIFICATION FairSpec
CONSTANTS
  c1 = c1
  c2 = c2
  None = None
  Container = {c1, c2}
  Kinds = {"sql", "dwh", "grant", "domain", "delivery", "repository", "image"}
  Attributes = 2
  MaxRequests = 3
  MaxAttempts = 3
  MaxFaults <- Faults
  FunctionFaults = 3
  ImageFaults = 1
INVARIANTS
  TypeOK
  SuccessIsEarned
  FailureHasCause
  MadeOnce
  OnlyLossTimesOut
  BuiltImageStands
  NoLeftovers
PROPERTIES
  RequestsEnd
CHECK_DEADLOCK FALSE
