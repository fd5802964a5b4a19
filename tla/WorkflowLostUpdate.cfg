CONSTANTS
  N = 2
  Calls <- MCCalls
  Titles <- OneTitle
  PromptTitles <- OnePrompt
  MaxPrompts = 0
  Contents <- OneContent
  NoContent = NoContent
  NoSession = NoSession
  MaxTime = 1
  MaxFaults = 0
  Serial = FALSE
  Legacy <- NoLegacy
  c1 = c1
  c2 = c2
  x1 = x1
  x2 = x2
  tA = tA
  pA = pA
SPECIFICATION Spec
PROPERTIES WritesCurrentPhase
