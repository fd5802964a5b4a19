CONSTANTS
  N = 2
  Calls <- MCCalls
  Titles <- OneTitle
  PromptTitles <- OnePrompt
  MaxPrompts = 1
  Contents <- OneContent
  NoContent = NoContent
  NoSession = NoSession
  MaxTime = 2
  MaxFaults = 1
  Serial = FALSE
  Legacy <- FirstLegacy
  c1 = c1
  c2 = c2
  x1 = x1
  x2 = x2
  tA = tA
  pA = pA
SYMMETRY CallSymmetry
SPECIFICATION Spec
INVARIANTS TypeOK StateWellFormed ArtifactBacked MasterPlanGrounded CompletedIsFinal PromptsFollowPlan
