CONSTANTS
  Tools <- OneTool
  MaxHits = 2
  Window = 3
  Second = 2
  MaxTime = 7
  MaxCalls = 5
  read = read
SPECIFICATION Spec
INVARIANTS PerMinuteBound
CHECK_DEADLOCK FALSE
