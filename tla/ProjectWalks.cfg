SPECIFICATION Spec
CONSTANTS
  Names <- SomeNames
  Rank <- ByteOrder
  World <- Everything
  Folders <- SomeFolders
  Unreadable <- OneFolder
  Starts <- AllOrLess
  MaxChanges = 2
  IgnoreDirs = {"vendor"}
  Git = ".git"
  BuildNames = {"vendor"}
  Signals = {"Makefile", ".git"}
  SecretNames = {"credentials"}
  Vaults = {".aws"}
  Binary <- OneBinary
  Globbed <- AllButOne
  Lines <- TwoInMain
  Bases = {"app", "vendor"}
  Maxima = {3, 99}
  InspectMax = 5
  Depths = {1, 2}
INVARIANTS
  WalkTypeOK
  Capped
  InOrder
  NothingSkipped
  OnlyWanted
  AnswerIsExact
