CONSTANTS
  States <- OneState
  Flows <- OneFlow
  Codes <- OneCode
  Requests <- TwoRequests
  None = None
  Second = 2
  ApproveWindow = 1
  CodeLife = 2
  TokenLife = 2
  MaxTime = 3
  MaxPages = 1
  MaxUses = 2
  s1 = s1
  s2 = s2
  f1 = f1
  f2 = f2
  c1 = c1
  c2 = c2
  r1 = r1
  r2 = r2
SYMMETRY OAuthSymmetry
SPECIFICATION Spec
INVARIANTS OneTokenPerCode
CHECK_DEADLOCK FALSE
