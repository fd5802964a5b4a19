CONSTANTS
  Messages <- ThreeMessages
  Foreign = Foreign
  Missing = Missing
  Empty = Empty
  MaxEntries = 3
  Edits <- AllEdits
  MaxFaults = 2
  m1 = m1
  m2 = m2
  m3 = m3
SPECIFICATION Spec
SYMMETRY MessageSymmetry
INVARIANTS TypeOK AnsweredInOrder StaysReadable
PROPERTIES AppendsWhenAlone RefusalMeansFull
CHECK_DEADLOCK FALSE
