CONSTANTS
  Paths <- OnePath
  Writers <- TwoWriters
  Readers <- OneReader
  Inodes <- FourInodes
  Values <- ShortAndLong
  Size <- Sizes
  MaxSize = 2
  None = None
  Exclusive = FALSE
  p1 = p1
  p2 = p2
  w1 = w1
  w2 = w2
  r1 = r1
  i1 = i1
  i2 = i2
  i3 = i3
  i4 = i4
  i5 = i5
  short = short
  long = long
SYMMETRY SharedSymmetry
SPECIFICATION Spec
INVARIANTS ReadsWhole
