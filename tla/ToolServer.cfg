SPECIFICATION ServerSpec
CHECK_DEADLOCK FALSE
CONSTANTS
  c1 = c1
  c2 = c2
  open = open
  locked = locked
  closed = closed
  strange = strange
  Calls <- TwoCalls
  Tools <- AllTools
  Projects <- ThreeProjects
  Strange = strange
  ReadOnly <- LockedOnly
  Closed <- ClosedOnly
  Titles <- SomeTitles
  SlugOf <- Slug
  SecretSlugs <- Secretive
  NoTitle = "untitled"
  Sessions <- OldSession
  MaxLost = 1
  Day = 1
  Leftover <- FirstFiles
  Earlier = "earlier"
  MaxHits = 1
  Window = 1
  Second = 1
  MaxTime = 1
  MaxCalls = 2
SYMMETRY CallSymmetry
INVARIANTS
  CallsTypeOK
  WindowBound
  RefusedExactlyWhenFull
  MemoryBounded
  ReadOnlyUntouched
  
  
  PromptHasPlan
PROPERTIES
  ReplacedOnItsDay
