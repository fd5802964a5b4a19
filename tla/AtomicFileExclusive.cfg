CONSTANTS
  Paths <- TwoPaths
  Writers <- TwoWriters
  Readers <- OneReader
  Inodes <- FiveInodes
  Values <- ShortAndLong
  Size <- Sizes
  MaxSize = 2
  None = None
  Exclusive = TRUE
  p1 = p1
  p2 = p2
  w1 = w1
  w2 = w2
  r1 = r1
  i1 = i1
  i2 = i2
  i3 = i3
  i4 = i4
  i5 = i5
  short = short
  long = long
SYMMETRY FileSymmetry
SPECIFICATION Spec
INVARIANTS TypeOK ReadsWhole
PROPERTIES SuccessIsMine ImplementsRegister
