CONSTANTS
  N = 3
  Calls <- OneCall
  Titles <- OneTitle
  PromptTitles <- OnePrompt
  MaxPrompts = 1
  Contents <- TwoContents
  NoContent = NoContent
  NoSession = NoSession
  MaxTime = 1
  MaxFaults = 2
  Serial = TRUE
  Legacy <- FirstLegacy
  c1 = c1
  c2 = c2
  x1 = x1
  x2 = x2
  tA = tA
  pA = pA
SPECIFICATION LiveSpec
INVARIANTS NoDeadEnd
PROPERTIES ImplementsPlanLog AgentsKeptByFinalize EverySessionFinishes
