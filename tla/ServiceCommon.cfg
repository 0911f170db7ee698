SPECIFICATION Spec
CONSTANTS
  d1 = d1
  d2 = d2
  q1 = q1
  dev = dev
  qa = qa
  n1 = n1
  n2 = n2
  Job <- TwinJob
  Env = {dev}
  EnvOf <- TwinEnvOf
  Node = {n1, n2}
  None = None
  Executors = 1
  Keep = 2
  MaxBuilds <- TwinBuilds
  MaxFaults = 1
INVARIANTS
  Pullable
  SuccessIsDeployed
PROPERTIES
  OnlyContentionFails
CHECK_DEADLOCK FALSE
