CONSTANTS
  Messages <- TwoMessages
  Foreign = Foreign
  Missing = Missing
  Empty = Empty
  MaxEntries = 2
  Edits <- AllEdits
  MaxFaults = 0
  m1 = m1
  m2 = m2
  m3 = m3
SPECIFICATION Spec
PROPERTIES EmptyIsNoObstacle
CHECK_DEADLOCK FALSE
