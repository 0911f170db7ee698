SPECIFICATION Spec
CONSTANTS
  d1 = d1
  d2 = d2
  q1 = q1
  dev = dev
  qa = qa
  n1 = n1
  n2 = n2
  Job <- PairJob
  Env = {dev, qa}
  EnvOf <- PairEnvOf
  Node = {n1}
  None = None
  Executors = 2
  Keep = 2
  MaxBuilds <- PairBuilds
  MaxFaults = 1
PROPERTIES
  FailedIsDeleted
CHECK_DEADLOCK FALSE
