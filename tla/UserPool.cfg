SPECIFICATION Spec
CONSTANTS
  a1 = a1
  a2 = a2
  p1 = p1
  p2 = p2
  c1 = c1
  Nothing = Nothing
  Address = {a1, a2}
  Password = {p1, p2}
  Container = {c1}
  Holder <- Holders
  MaxCalls = 3
  MaxFaults = 1
  Life = 0
  MaxTime = 1
  MaxKey = 2
  MaxTokens = 1
SYMMETRY Symmetry
INVARIANTS
  TypeOK
  SignedUpUsable
  LeftoverHasCause
  TokensJudged
CHECK_DEADLOCK FALSE
