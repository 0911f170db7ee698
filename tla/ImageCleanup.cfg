SPECIFICATION Spec
CONSTANTS
  c1 = c1
  c2 = c2
  None = None
  Container = {c1, c2}
  Kinds = {"image"}
  Attributes = 2
  MaxRequests = 3
  MaxAttempts = 3
  MaxFaults <- Faults
  FunctionFaults = 0
  ImageFaults = 0
INVARIANTS
  InstancesHaveImage
CHECK_DEADLOCK FALSE
