CONSTANTS
  States <- TwoStates
  Flows <- TwoFlows
  Codes <- TwoCodes
  Requests <- TwoRequests
  None = None
  Second = 2
  ApproveWindow = 1
  CodeLife = 1
  TokenLife = 2
  MaxTime = 5
  MaxPages = 1
  MaxUses = 2
  s1 = s1
  s2 = s2
  f1 = f1
  f2 = f2
  c1 = c1
  c2 = c2
  r1 = r1
  r2 = r2
SYMMETRY OAuthSymmetry
SPECIFICATION Spec
INVARIANTS TypeOK UsedCodesAreGone TokensEarned OneTokenUnlessShared TokenLasts
PROPERTIES ImplementsCodeGrant
CHECK_DEADLOCK FALSE
